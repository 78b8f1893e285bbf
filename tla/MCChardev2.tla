----------------------------- MODULE MCChardev2 -----------------------------
(* Values of the constants of Chardev2 that a .cfg cannot write down.      *)
EXTENDS Chardev2

\* Texts shorter than the buffer, filling it and longer than it.
MCTexts == {<<1>>, <<2, 2>>, <<1, 2, 1>>}
=============================================================================
