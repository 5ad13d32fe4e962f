------------------------------ MODULE MCTensor ------------------------------
(***************************************************************************)
(* Images for Tensor, with ints below 16 and elements of four bytes.       *)
(***************************************************************************)
EXTENDS Tensor

(* An image whose rows are step elements apart, alone in its memory.       *)
Image(rows, cols, channels, step, depth) ==
    [rows |-> rows, cols |-> cols, channels |-> channels, step |-> step,
     depth |-> depth,
     room |-> ((rows - 1) * step + cols * channels) * depth]

(* Six elements; ten, of which an int counts one image and an unsigned int *)
(* three; eighteen, which no int counts; and forty, which no unsigned int  *)
(* counts.                                                                 *)
Small == Image(1, 3, 2, 6, 4)
Medium == Image(1, 5, 2, 10, 4)
Large == Image(3, 3, 2, 6, 4)
Huge == Image(4, 5, 2, 10, 4)

(* The left half of an image of two rows of two pixels; images of bytes    *)
(* and of doubles; and the empty image.                                    *)
Part == [Image(2, 1, 3, 6, 4) EXCEPT !.room = 48]
Bytes == Image(1, 3, 2, 6, 1)
Doubles == Image(1, 3, 2, 6, 8)
Empty == [rows |-> 0, cols |-> 0, channels |-> 1, step |-> 1, depth |-> 4,
          room |-> 0]

MCImages == {Small, Medium, Large, Huge, Part, Bytes, Doubles, Empty}

(* No image, one, two of one size or of different ones, and more than an   *)
(* int or an unsigned int counts.                                          *)
MCLists ==
    {<<>>, <<Large>>, <<Huge>>, <<Part, Part>>, <<Small, Medium>>,
     <<Medium, Small>>, <<Small, Bytes>>, <<Small, Doubles>>, <<Small, Empty>>,
     <<Empty, Small>>, <<Large, Large>>, <<Medium, Medium, Medium>>}
=============================================================================
