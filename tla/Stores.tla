------------------------------- MODULE Stores --------------------------------
(***************************************************************************)
(* What is kept: sessions (SessionStore), the messages of a session that a *)
(* host prunes (ContextPruning), and secrets, in the keyring of a system   *)
(* (KeyringStore) and in an encrypted file (EncryptedVault).  They share   *)
(* no state, so a behaviour is one of one of them and the others rest in   *)
(* an initial state.                                                       *)
(***************************************************************************)
EXTENDS SessionStore, ContextPruning, KeyringStore

\* Of EncryptedVault, where it has other values than KeyringStore.
CONSTANTS
    Threads, Keys, VaultSecrets, Passwords, NoPassword, VaultFaults, MaxSalts,
    MaxUses,        \* bound: calls of the vault
    MaxFailures     \* bound: things that go wrong with it

VARIABLES
    part,           \* whose behaviour this is
    \* EncryptedVault; work is its job, uses its calls, failures its faults
    key, values, vault, tmp, node, work, salts, uses, failures, last, met

vaultVars == <<key, values, vault, tmp, node, work, salts, uses, failures, last, met>>

Vault ==
    INSTANCE EncryptedVault WITH
        Secrets <- VaultSecrets, Faults <- VaultFaults,
        MaxCalls <- MaxUses, MaxFaults <- MaxFailures,
        job <- work, calls <- uses, faults <- failures

SecretsAssumption == KeyringAssumption /\ Vault!VaultAssumption

StoresInit ==
    /\ part \in {"sessions", "pruning", "keyring", "vault"}
    /\ part = "sessions" \/ sess = [c \in Clients |-> CHOOSE s \in Sessions : TRUE]
    /\ SessionInit
    /\ part = "pruning" \/ messages = <<>>
    /\ PruningInit
    /\ KeyringInit
    /\ Vault!VaultInit

StoresNext ==
    /\ UNCHANGED part
    /\ IF part = "sessions" THEN SessionNext ELSE UNCHANGED sessionVars
    /\ IF part = "pruning" THEN PruningNext ELSE UNCHANGED vars
    /\ IF part = "keyring" THEN KeyringNext ELSE UNCHANGED keyringVars
    /\ IF part = "vault" THEN Vault!VaultNext ELSE UNCHANGED vaultVars

storesVars == <<part, sessionVars, vars, keyringVars, vaultVars>>

StoresSpec == StoresInit /\ [][StoresNext]_storesVars

-----------------------------------------------------------------------------
(* A secret is whole wherever it is kept: in the chunks of the keyring,     *)
(* which hold no more than the system takes and nothing of what was         *)
(* replaced, and in the file, which keeps what was accepted and is never a  *)
(* torn one.                                                                *)
SecretsStayWhole ==
    /\ part = "keyring" => EntryIsWhole /\ NoPieceIsLeft /\ EntriesFit
    /\ part = "vault" => Vault!AcceptedSurvives /\ Vault!VaultStaysWhole

(* The keyring is a store of whole secrets: ImplementsSecretStore, where    *)
(* the keyring is what moves.                                               *)
KeyringIsSecretStore ==
    /\ Contract!SecretInit
    /\ [][part = "keyring" =>
            [Contract!SecretNext]_(Contract!secretVars)]_keyringVars
=============================================================================
