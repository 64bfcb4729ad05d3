------------------------------ MODULE MCSessions ------------------------------
(* Two profiles, the first may use the second as its bastion.  The user    *)
(* may point the first at the second host; the second may become FTP.      *)
EXTENDS Sessions, TLC

CONSTANTS work, bastion, hostOne, hostTwo, keyOne, keyTwo, keyOther, filed, none

ProfilesDef == {work, bastion}
HostsDef == {hostOne, hostTwo}
KeysDef == {keyOne, keyTwo, keyOther}
AlgorithmsDef == [k \in Key |-> IF k = keyOther THEN "rsa" ELSE "ed25519"]

Plain(h) == [host |-> h, jump |-> none, auth |-> "password", ftp |-> FALSE,
             remember |-> TRUE]

RowsDef == [p \in Profile |->
              IF p = work THEN {[Plain(hostOne) EXCEPT !.jump = bastion], Plain(hostTwo)}
              ELSE {Plain(hostTwo), [Plain(hostTwo) EXCEPT !.ftp = TRUE]}]

ServingDef == {[h \in Host |-> keyOne]}
FilesDef == {{<<hostOne, keyOne>>}, {<<hostOne, keyTwo>>, <<hostTwo, keyOther>>}}

(* The one has a profile with its secret, the other only a secret.         *)
BundlesDef == {[rows |-> work :> Plain(hostTwo), secrets |-> work :> filed],
               [rows |-> << >>, secrets |-> (work :> filed) @@ (bastion :> filed)]}

KnownDef == {<<hostTwo, keyOne>>}

StoredDef == (work :> Plain(hostOne)) @@ (bastion :> [Plain(hostTwo) EXCEPT !.auth = "agent"])
===============================================================================
