----------------------- MODULE MCRefreshableKeyStore -----------------------
(* Three key ids of two logs.  The log answers with new keys, with a key it *)
(* renamed, with two strings of one id, or with a string that is garbage.   *)
EXTENDS RefreshableKeyStore

CONSTANTS k1, k2, k3, logA, logB

key(kid, name) == [kid |-> kid, name |-> name]

OneKey == [kid \in {k1} |-> logA]
Answers == {<<key(k2, logA)>>,
            <<key(k1, logB), Unparseable, key(k3, logA)>>,
            <<key(k3, logB), key(k3, logA)>>}
=============================================================================
