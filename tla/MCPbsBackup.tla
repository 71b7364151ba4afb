---------------------------- MODULE MCPbsBackup ----------------------------
(* Instance of PbsBackup for TLC: a file at the top and one in a folder. *)
EXTENDS PbsBackup

MCWalk == <<<<"dir", "">>, <<"file", "a">>, <<"dir", "d">>, <<"file", "b">>,
            <<"end", "d">>, <<"end", "">>>>

\* No cut, cuts before the data of each file, and cuts around the second file.
MCCuts == {{}, {Payload(n) : n \in Sizes}, {DirEntry, Data("b", 1)}}

\* A cut between the entry of a file and the header of its payload.
MCCutEntry == {{FileEntry}}

=============================================================================
