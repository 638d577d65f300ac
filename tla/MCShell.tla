------------------------------ MODULE MCShell -------------------------------
(***************************************************************************)
(* Lines of up to five characters, which are letters and spaces, and one   *)
(* argument at most: commands have names of one to four letters.           *)
(***************************************************************************)
EXTENDS Shell

MCExit    == <<"a">>
MCHelp    == <<"a", "a">>
MCSystime == <<"a", "a", "a">>
MCApollo  == <<"a", "a", "a", "a">>
=============================================================================
