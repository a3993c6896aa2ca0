--------------------------- MODULE MCMemoryFrames ---------------------------
(* Words of two bytes, offsets inside and across words, at the end of usize   *)
(* and past it, and a limit two frames reach together.                        *)
EXTENDS MemoryFrames

TooBig == MaxUsize + 1
MCRanges == {<<0, 2>>, <<1, 3>>, <<3, 3>>, <<TooBig, 0>>, <<TooBig, 2>>, <<MaxUsize, 2>>, <<0, TooBig>>}
MCCopies == {<<0, 1, 2>>, <<1, 0, 3>>, <<1, TooBig, 2>>, <<TooBig, 0, 0>>, <<TooBig, 0, 2>>}
MCCallOperands == {<<0, 2, 1, 3>>, <<TooBig, 0, TooBig, 0>>, <<0, 3, TooBig, 2>>}
MCWords == {<<1>>, <<0, 1>>}
MCOutputs == {<<1, 0, 1>>}
MCTxInput == <<1, 0, 1>>
=============================================================================
