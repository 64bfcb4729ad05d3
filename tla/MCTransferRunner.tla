--------------------------- MODULE MCTransferRunner ---------------------------
(***************************************************************************)
(* Small instances of the transfer worker: two transfers, of one batch,    *)
(* that go to one destination where a file exists already.                 *)
(***************************************************************************)
EXTENDS TransferRunner

CONSTANTS j1, j2, nOne, nTwo, nThree, batch, old

MCJob == {j1, j2}
MCOneJob == {j1}
MCName == {nOne, nTwo, nThree}
MCDestOf == [j \in Job |-> nOne]
MCBatchOf == [j \in Job |-> batch]
MCNumbered == (nOne :> <<nTwo, nThree>>) @@ (nTwo :> << >>) @@ (nThree :> << >>)
MCExisting == {nOne}

(* The kinds of destination: a remote one by SFTP, one that is written by *)
(* path and replaced by a rename (FTP), and a download's local file.       *)
MCKinds == {m \in [replaces : BOOLEAN, hashed : BOOLEAN, handle : BOOLEAN] :
              m.handle => m.replaces}

(* Size verification alone is the weaker check, so the invariants are     *)
(* checked for it; most of what fails, fails in spite of SHA-256.         *)
MCModes == {m \in MCKinds : ~m.hashed}
MCHashedModes == {m \in MCKinds : m.hashed}

MCAnyPolicy == {"ask", "skip", "overwrite", "rename"}
MCOverwrite == {"overwrite"}

MCSymmetry == Permutations(MCJob)

=============================================================================
