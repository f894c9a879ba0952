------------------------------ MODULE MCTftp ------------------------------
(* Tftp for TLC: a file that ends within a block or, in netascii, with it,  *)
(* and one with a newline that, in netascii, is cut in two by a block's end.*)
EXTENDS Tftp

MCFiles == {<<lf>>, <<"x", lf, cr>>}
=============================================================================
