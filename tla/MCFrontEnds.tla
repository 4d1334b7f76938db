------------------------------ MODULE MCFrontEnds ------------------------------
(***************************************************************************)
(* FrontEnds with a letter, a blank and a character of two bytes, rows of  *)
(* three cells, and names that differ in the second byte of a character.   *)
(***************************************************************************)
EXTENDS FrontEnds

MCByte == {"a", "b", "c", " ", ">", "C3", "A8", "A9"}
MCChars == {<<"a">>, <<" ">>, <<"C3", "A9">>}
MCContinuation == {"A8", "A9"}
MCWide == {"C3", "A8", "A9"}
MCPrompts == {<<">">>, <<"a", ">">>}
MCCommands == {<<"a", "b">>, <<"a", "c">>}
MCNameSets == {{<<"a", "b">>, <<"a">>}, {<<"C3", "A8">>, <<"C3", "A9">>}}
MCWritten == {<<"a">>}
MCBanner == <<<<"a", "b", "c", "b">>, <<>>>>
MCOutputs == {<<>>, <<<<"a", "b", "c", "a", "b", "c">>>>, <<<<"a">>, <<>>>>}
===============================================================================
