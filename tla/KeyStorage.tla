----------------------------- MODULE KeyStorage -----------------------------
(***************************************************************************)
(* The key with which the enclave signs, and the file that keeps it while  *)
(* the server is down: the constructor of LockManager loads the enclave,   *)
(* reads and unseals the key, or else generates one, seals and saves it.   *)
(* The server answers clients when the constructor is through, and can be  *)
(* stopped at any time.                                                    *)
(*                                                                         *)
(* Sealing succeeds or fails, and only what was sealed can be unsealed.    *)
(* Opening a file for writing empties it, so that a server stopped before  *)
(* it has written leaves a file that cannot be unsealed.  Failures of the  *)
(* SDK and of the file system are counted: the code reports them and goes  *)
(* on.  Every generated key is a new one.                                  *)
(***************************************************************************)
EXTENDS Naturals

CONSTANTS
  Key,          \* the keys that can be generated
  NoKey,        \* no enclave, or no file
  Zeros,        \* the key of an enclave that has not got one yet
  Damaged,      \* a file that cannot be unsealed
  MaxFailures   \* bound on the failures

ASSUME KeyAssumption ==
  /\ NoKey \notin Key /\ Zeros \notin Key \cup {NoKey}
  /\ Damaged \notin Key \cup {NoKey, Zeros}
ASSUME MaxFailuresAssumption == MaxFailures \in Nat

VARIABLES
  stage,      \* where the constructor is, or that it is through
  key,        \* ec256_private_key and ec256_public_key in the enclave
  saved,      \* SEALED_KEY_FILE
  generated,  \* all keys that were ever generated
  failures,   \* how many calls failed
  signed      \* the key of the last signature that a client received

keyVars == <<stage, key, saved, generated, failures, signed>>

Stages == {"down", "loaded", "generate", "seal", "write", "up"}

KeyInit ==
  /\ stage = "down"
  /\ key = NoKey
  /\ saved = NoKey
  /\ generated = {}
  /\ failures = 0
  /\ signed = NoKey

From(old, new) == stage = old /\ stage' = new

Fails ==
  /\ failures < MaxFailures
  /\ failures' = failures + 1

-----------------------------------------------------------------------------
(* Starting                                                                *)

load_and_initialize_enclave ==
  /\ From("down", "loaded")
  /\ key' = Zeros
  /\ UNCHANGED <<saved, generated, failures, signed>>

\* The constructor goes on without an enclave: the calls that follow fail, and
\* do not touch the file.
LoadFails ==
  /\ From("down", "up") /\ Fails
  /\ UNCHANGED <<key, saved, generated, signed>>

\* Whatever key was sealed can be unsealed.
Sealed == saved \in Key \cup {Zeros}

unseal_keys == Sealed /\ key' = saved

read_and_unseal_keys ==
  /\ From("loaded", "up")
  /\ unseal_keys
  /\ UNCHANGED <<saved, generated, failures, signed>>

\* There is nothing to read, or the file is there and cannot be read: the code
\* makes no difference.
NothingRead ==
  /\ From("loaded", "generate")
  /\ \/ ~Sealed /\ UNCHANGED failures
     \/ Sealed /\ Fails
  /\ UNCHANGED <<key, saved, generated, signed>>

generate_key_pair ==
  /\ From("generate", "seal")
  /\ \E k \in Key \ generated :
       /\ key' = k
       /\ generated' = generated \cup {k}
  /\ UNCHANGED <<saved, failures, signed>>

\* The result of generate_key_pair is not looked at.
GenerateFails ==
  /\ From("generate", "seal") /\ Fails
  /\ UNCHANGED <<key, saved, generated, signed>>

\* Sealing fails, or the file cannot be opened: "Error at sealing keys".
SealFails ==
  /\ From("seal", "up") /\ Fails
  /\ UNCHANGED <<key, saved, generated, signed>>

\* std::ofstream empties the file.
OpenKeyFile ==
  /\ From("seal", "write")
  /\ saved' = Damaged
  /\ UNCHANGED <<key, generated, failures, signed>>

\* Fault: the sealed data is not copied to the caller's buffer.
seal_nothing == Damaged

\* What is sealed is the key that the enclave has.
seal_keys == key

WriteKeyFile ==
  /\ From("write", "up")
  /\ saved' = seal_keys
  /\ UNCHANGED <<key, generated, failures, signed>>

WriteFails ==
  /\ From("write", "up") /\ Fails
  /\ UNCHANGED <<key, saved, generated, signed>>

\* The enclave is destroyed, or the process killed.
Stop ==
  /\ stage # "down" /\ stage' = "down"
  /\ key' = NoKey
  /\ UNCHANGED <<saved, generated, failures, signed>>

\* What a server does for clients without an enclave or without a key is not
\* followed.
Running == stage = "up" /\ key \in Key

SignWithKey ==
  /\ Running
  /\ signed' = key
  /\ UNCHANGED <<stage, key, saved, generated, failures>>

Starting ==
  \/ load_and_initialize_enclave \/ LoadFails
  \/ read_and_unseal_keys \/ NothingRead
  \/ generate_key_pair \/ GenerateFails \/ SealFails \/ OpenKeyFile \/ WriteKeyFile \/ WriteFails

KeyNext == Starting \/ Stop \/ SignWithKey

KeySpec == KeyInit /\ [][KeyNext]_keyVars

-----------------------------------------------------------------------------

KeyTypeOK ==
  /\ stage \in Stages
  /\ key \in Key \cup {NoKey, Zeros}
  /\ saved \in Key \cup {NoKey, Zeros, Damaged}
  /\ generated \subseteq Key
  /\ failures \in Nat
  /\ signed \in Key \cup {NoKey}

\* "This is necessary to persist the key pair that the enclave uses for signing
\* even if it temporarily shuts down": unless a call failed, the key of the
\* signatures that clients have is in the file at all times, and every server
\* that answers clients uses it.
KeysSurvive ==
  failures = 0 /\ signed # NoKey =>
    /\ saved = signed
    /\ stage = "up" => key = signed
=============================================================================
