---------------------------- MODULE PictureCache ----------------------------
(***************************************************************************)
(* What TallyProtocol.md promises about the scaling of images: an image is *)
(* first scaled to a size with a quick algorithm and then slowly, and what *)
(* there is of it is kept until it is replaced or all images are cleared.  *)
(* There are no queues and no threads here, and nothing is ever late: the  *)
(* pictures change in single steps and are those of the image there is.    *)
(***************************************************************************)
EXTENDS Naturals

CONSTANTS Names,     \* image names
          Geoms,     \* sizes
          Versions   \* what tells one stored image from the next

VARIABLES image,     \* name -> the version that is stored, or 0
          quality,   \* <<name, size>> -> what is kept: nothing ("absent"), no
                     \*   more than the wish ("wanted"), a "quick" or a "slow" picture
          madeFrom   \* <<name, size>> -> the version of the picture, or 0

vars == <<image, quality, madeFrom>>

Init ==
  /\ image = [n \in Names |-> 0]
  /\ quality = [k \in Names \X Geoms |-> "absent"]
  /\ madeFrom = [k \in Names \X Geoms |-> 0]

\* The pictures of the images of S are forgotten.
Forget(S) ==
  /\ quality' = [k \in Names \X Geoms |-> IF k[1] \in S THEN "absent" ELSE quality[k]]
  /\ madeFrom' = [k \in Names \X Geoms |-> IF k[1] \in S THEN 0 ELSE madeFrom[k]]

\* An image is stored, or replaced by a newer one.
Store(n) ==
  /\ \E v \in Versions : v > image[n] /\ image' = [image EXCEPT ![n] = v]
  /\ Forget({n})

\* All images are cleared.
Clear == image' = [n \in Names |-> 0] /\ Forget(Names)

\* An image is drawn at a new size.
Want(n, g) ==
  /\ image[n] # 0 /\ quality[<<n, g>>] = "absent"
  /\ quality' = [quality EXCEPT ![<<n, g>>] = "wanted"]
  /\ UNCHANGED <<image, madeFrom>>

\* A resize of the image that is stored is over, the quick one first.
Improve(n, g) ==
  /\ image[n] # 0
  /\ \/ quality[<<n, g>>] = "wanted" /\ quality' = [quality EXCEPT ![<<n, g>>] = "quick"]
     \/ quality[<<n, g>>] = "quick" /\ quality' = [quality EXCEPT ![<<n, g>>] = "slow"]
  /\ madeFrom' = [madeFrom EXCEPT ![<<n, g>>] = image[n]]
  /\ UNCHANGED image

Next ==
  \/ Clear
  \/ \E n \in Names : Store(n) \/ \E g \in Geoms : Want(n, g) \/ Improve(n, g)

Spec == Init /\ [][Next]_vars
=============================================================================
