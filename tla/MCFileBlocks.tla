---------------------------- MODULE MCFileBlocks ----------------------------
(* FileBlocks for TLC. *)
EXTENDS FileBlocks

\* One program on the image: the root directory takes a direct block, the
\* indirect block and one block, the program one block.
OneFile == <<1>>

\* Each process writes to one file and truncates the other.
Writers == <<{2}, {3}>>
Truncaters == <<{3}, {2}>>
=============================================================================
