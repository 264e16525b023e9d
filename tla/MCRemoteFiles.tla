--------------------------- MODULE MCRemoteFiles ---------------------------
(* RemoteFiles with contents for the configuration.                        *)
EXTENDS RemoteFiles

(* None, an empty file, and one of two pieces.                             *)
MCOriginals == {Absent, <<>>, <<"o", "o">>}
=============================================================================
