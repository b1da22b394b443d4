----------------------------- MODULE MCHttpBin -----------------------------
(* Bodies up to two bytes longer than the buffer, with the expected text at
   its start, across two chunks, across the end of the buffer, past it and
   nowhere; one base URL lets every path fit, one only the shorter paths. *)
EXTENDS HttpBin

MCExpected == <<"b", "c">>
MCBodies == {<<>>, <<"b">>, <<"b", "c">>, <<"a", "b", "c">>, <<"a", "a", "b", "c">>,
             <<"a", "c", "b", "b", "c">>}
=============================================================================
