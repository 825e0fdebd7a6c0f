------------------------------ MODULE MCFsDisk ------------------------------
(* FsDisk on a small disk, for TLC.                                        *)
EXTENDS FsDisk

CONSTANTS a, b, c

\* Images of newmotd alone, and with a file that nobody opens: the second has no
\* room left in its directory.
MCImages == {<< <<a, 1>> >>, << <<a, 1>>, <<c, 0>> >>}
\* The root, the files, and one below a file.
MCPaths == {<<>>, <<a>>, <<b>>, <<a, b>>}

\* An image with a second file, for clients that leave newmotd alone.
MCTwoFiles == {<< <<a, 1>>, <<b, 0>> >>}
=============================================================================
