---------------------------- MODULE FrameChannel ----------------------------
(***************************************************************************)
(* What the video path promises, with the packets, the losses and the      *)
(* reassembly left out: the imager takes one image after the other, and    *)
(* the receiver is shown pictures of them, in the order of the images,     *)
(* each at most once and only when the image is over.  Images may be       *)
(* skipped, and a picture may be incomplete or have one row that is not    *)
(* right; but it shows no other image, and one called whole is the image.  *)
(***************************************************************************)
EXTENDS Integers

CONSTANTS Lines,       \* the rows of an image
          Row(_, _)    \* what row l of image f holds

VARIABLES produced,   \* images 0 .. produced - 1 are over
          handed,     \* the last image shown, or -1
          picture,    \* what was shown of it
          whole       \* was it called whole?

Black == {}
Pixels(f) == UNION { Row(f, l) : l \in Lines }

\* One row, r, may be any mixture of the rows of the image.
Shows(f, p) ==
    \E r \in Lines :
       /\ p[r] \subseteq Pixels(f)
       /\ \A l \in Lines \ {r} : p[l] \in {Black, Row(f, l)}

Init ==
    /\ produced = 0
    /\ handed = -1
    /\ picture = [l \in Lines |-> Black]
    /\ whole = FALSE

Produce == produced' = produced + 1 /\ UNCHANGED <<handed, picture, whole>>

Show ==
    /\ handed' \in (handed + 1) .. (produced - 1)
    /\ Shows(handed', picture')
    /\ whole' => picture' = [l \in Lines |-> Row(handed', l)]
    /\ UNCHANGED produced

Next == Produce \/ Show

Spec == Init /\ [][Next]_<<produced, handed, picture, whole>>
=============================================================================
