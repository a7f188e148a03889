---------------------------- MODULE SecretStores ----------------------------
(***************************************************************************)
(* The stores of internal/secrets behind the SecretStore interface: the    *)
(* keychain of the system, the encrypted file secrets.age, and the one key *)
(* that the environment gives.  AutoDetect chooses one for every process   *)
(* of the machine.  A process holds what it has read of the file in a map  *)
(* and writes the whole map at every change; the mutex of the store lets a *)
(* process do one thing at a time, nothing orders two processes.           *)
(***************************************************************************)
EXTENDS Integers, FiniteSets

CONSTANTS Holders,      \* processes with a store
          SecretKeys, SecretValues,
          Phrases,      \* passphrases
          NoSecret,
          Hosts,        \* machines: os, dbus, home, hmac
          MaxPuts       \* bound: changes that are begun

ASSUME NoSecretAssumption == NoSecret \notin SecretValues \cup SecretKeys \cup Phrases
ASSUME HostsAssumption ==
    Hosts \subseteq [os : {"darwin", "linux", "other"}, dbus : BOOLEAN, home : BOOLEAN,
                     hmac : {"unset", "bad", "good"}]

VARIABLES
    host,        \* the machine
    given,       \* given[p]: where p finds its passphrase, and which
    unset,       \* processes that have taken VEDOX_AGE_PASSPHRASE from their environment
    unlocked,    \* processes whose store is open
    phraseHeld,  \* the passphrase each has opened its store with
    cached,      \* cached[p]: AgeStore.cache
    vault,       \* secrets.age, and the passphrase that it is encrypted with
    ring,        \* the keychain
    putting,     \* putting[p]: the change that p is writing
    probes,      \* probe keys of `vedox doctor` in the keychain
    probing,     \* processes in the middle of a probe
    puts,        \* changes begun
    acked,       \* history: what the last change of each key that returned nil left
    tried,       \* history: what changes that did not return nil would have left
    mixed        \* history: two processes had the file open at one time

secretVars == << host, given, unset, unlocked, phraseHeld, cached, vault, ring, putting,
                 probes, probing, puts, acked, tried, mixed >>

Sources == [from : {"file", "env", "tty", "none"}, phrase : Phrases]
Secrets == [SecretKeys -> SecretValues \cup {NoSecret}]
Blank == [k \in SecretKeys |-> NoSecret]
NoVault == [by |-> NoSecret, held |-> Blank]
Resting == [key |-> NoSecret, value |-> NoSecret]

\* probeDBusSecretService, on Linux alone.
HasKeychain(h) == h.os = "darwin" \/ (h.os = "linux" /\ h.dbus)

\* The highest tier; that it can be opened is not asked.
AutoDetect(h) ==
    IF HasKeychain(h) THEN "keychain"
    ELSE IF h.home THEN "age"
    ELSE IF h.hmac # "unset" THEN "env" ELSE "none"
Tier == AutoDetect(host)

\* resolvePassphrase: what may be found, a terminal may be given any.
Passphrases(p) ==
    CASE given[p].from = "none" \/ (given[p].from = "env" /\ p \in unset) -> {}
      [] given[p].from = "tty" -> Phrases
      [] OTHER -> {given[p].phrase}

SecretsInit ==
    /\ host \in Hosts /\ given \in [Holders -> Sources]
    /\ unset = {} /\ unlocked = {} /\ phraseHeld = [p \in Holders |-> NoSecret]
    /\ cached = [p \in Holders |-> Blank] /\ vault = NoVault /\ ring = Blank
    /\ putting = [p \in Holders |-> Resting] /\ probes = {} /\ probing = {} /\ puts = 0
    /\ acked = Blank /\ tried = [k \in SecretKeys |-> {}] /\ mixed = FALSE

\* decryptAge: with the passphrase that the file was written with; there may be none.
Readable(phrase) == vault.by \in {NoSecret, phrase}

\* AgeStore.Open.  Without a file the map stays as it is: empty, or what a store that
\* was closed before has left in it.
\* Mutant: what the file holds is not read.
OpenVaultBlank(p) ==
    /\ Tier = "age" /\ p \notin unlocked
    /\ \E phrase \in Passphrases(p) :
         /\ Readable(phrase)
         /\ phraseHeld' = [phraseHeld EXCEPT ![p] = phrase]
    /\ unlocked' = unlocked \cup {p}
    /\ mixed' = (mixed \/ unlocked # {})
    /\ UNCHANGED << host, given, unset, cached, vault, ring, putting, probes, probing,
                    puts, acked, tried >>

OpenVault(p) ==
    /\ Tier = "age" /\ p \notin unlocked
    /\ \E phrase \in Passphrases(p) :
         /\ Readable(phrase)
         /\ phraseHeld' = [phraseHeld EXCEPT ![p] = phrase]
    /\ cached' = IF vault.by = NoSecret THEN cached ELSE [cached EXCEPT ![p] = vault.held]
    /\ unlocked' = unlocked \cup {p}
    /\ mixed' = (mixed \/ unlocked # {})
    /\ UNCHANGED << host, given, unset, vault, ring, putting, probes, probing,
                    puts, acked, tried >>

\* EnvStore.Open; Put and Delete of an EnvStore change nothing.
OpenEnv(p) ==
    /\ Tier = "env" /\ p \notin unlocked /\ host.hmac = "good"
    /\ unlocked' = unlocked \cup {p}
    /\ UNCHANGED << host, given, unset, phraseHeld, cached, vault, ring, putting, probes,
                    probing, puts, acked, tried, mixed >>

CloseVault(p) ==
    /\ Tier = "age" /\ putting[p] = Resting
    /\ unlocked' = unlocked \ {p} /\ unset' = unset \cup {p}
    /\ phraseHeld' = [phraseHeld EXCEPT ![p] = NoSecret]
    /\ UNCHANGED << host, given, cached, vault, ring, putting, probes, probing, puts,
                    acked, tried, mixed >>

\* Put and Delete change the map, then write it (writeLocked).
Begin(p, k, v) ==
    /\ puts < MaxPuts /\ puts' = puts + 1
    /\ putting[p] = Resting
    /\ putting' = [putting EXCEPT ![p] = [key |-> k, value |-> v]]

PutSecret(p, k, v) ==
    /\ p \in unlocked /\ Tier = "age" /\ Begin(p, k, v)
    /\ cached' = [cached EXCEPT ![p][k] = v]
    /\ tried' = [tried EXCEPT ![k] = @ \cup {v}]
    /\ UNCHANGED << host, given, unset, unlocked, phraseHeld, vault, ring, probes, probing,
                    acked, mixed >>

\* A key that is not in the map is ErrNotFound, whatever the file holds.
DeleteSecret(p, k) ==
    /\ p \in unlocked /\ Tier = "age" /\ cached[p][k] # NoSecret /\ Begin(p, k, NoSecret)
    /\ cached' = [cached EXCEPT ![p][k] = NoSecret]
    /\ tried' = [tried EXCEPT ![k] = @ \cup {NoSecret}]
    /\ UNCHANGED << host, given, unset, unlocked, phraseHeld, vault, ring, probes, probing,
                    acked, mixed >>

\* The temporary file takes the name of secrets.age, and the call returns nil.  The
\* map goes through JSON and back as it is: the values are hex and the keys are ASCII.
RenameVault(p) ==
    /\ putting[p] # Resting /\ Tier = "age"
    /\ vault' = [by |-> phraseHeld[p], held |-> cached[p]]
    /\ acked' = [acked EXCEPT ![putting[p].key] = putting[p].value]
    /\ tried' = [tried EXCEPT ![putting[p].key] = {}]
    /\ putting' = [putting EXCEPT ![p] = Resting]
    /\ UNCHANGED << host, given, unset, unlocked, phraseHeld, cached, ring, probes, probing,
                    puts, mixed >>

\* Any step before that fails: the file is as it was, the map is not.
WriteVaultFails(p) ==
    /\ putting[p] # Resting /\ Tier = "age"
    /\ putting' = [putting EXCEPT ![p] = Resting]
    /\ UNCHANGED << host, given, unset, unlocked, phraseHeld, cached, vault, ring, probes,
                    probing, puts, acked, tried, mixed >>

\* KeyringStore.Put and Delete; the keychain does the one or the other or fails.
RingChange(p, k, v) ==
    /\ Tier = "keychain" /\ puts < MaxPuts /\ puts' = puts + 1
    /\ v = NoSecret => ring[k] # NoSecret
    /\ \/ /\ ring' = [ring EXCEPT ![k] = v] /\ acked' = [acked EXCEPT ![k] = v]
          /\ tried' = [tried EXCEPT ![k] = {}]
       \/ tried' = [tried EXCEPT ![k] = @ \cup {v}] /\ UNCHANGED << ring, acked >>
    /\ UNCHANGED << host, given, unset, unlocked, phraseHeld, cached, vault, putting, probes,
                    probing, mixed >>

\* doKeychainProbe: a key of its own is put, read and deleted.
StartProbe(p) ==
    /\ Tier = "keychain" /\ p \notin probing \cup probes
    /\ probing' = probing \cup {p} /\ probes' = probes \cup {p}
    /\ UNCHANGED << host, given, unset, unlocked, phraseHeld, cached, vault, ring, putting,
                    puts, acked, tried, mixed >>

EndProbe(p) ==
    /\ p \in probing /\ probing' = probing \ {p}
    /\ probes' \in {probes, probes \ {p}}
    /\ UNCHANGED << host, given, unset, unlocked, phraseHeld, cached, vault, ring, putting,
                    puts, acked, tried, mixed >>

\* The process is killed and its command run again.
KillHolder(p) ==
    /\ p \in unlocked \cup unset \cup probing
    /\ unlocked' = unlocked \ {p} /\ unset' = unset \ {p} /\ probing' = probing \ {p}
    /\ phraseHeld' = [phraseHeld EXCEPT ![p] = NoSecret]
    /\ cached' = [cached EXCEPT ![p] = Blank]
    /\ putting' = [putting EXCEPT ![p] = Resting]
    /\ UNCHANGED << host, given, vault, ring, probes, puts, acked, tried, mixed >>

SecretsNext ==
    \E p \in Holders :
        \/ OpenVault(p) \/ OpenEnv(p) \/ CloseVault(p)
        \/ \E k \in SecretKeys : DeleteSecret(p, k)
        \/ \E k \in SecretKeys, v \in SecretValues : PutSecret(p, k, v)
        \/ RenameVault(p) \/ WriteVaultFails(p) \/ KillHolder(p)
        \/ \E k \in SecretKeys, v \in SecretValues \cup {NoSecret} : RingChange(p, k, v)
        \/ StartProbe(p) \/ EndProbe(p)

-----------------------------------------------------------------------------
(* Properties.                                                             *)

SecretsTypeOK ==
    /\ host \in Hosts /\ given \in [Holders -> Sources]
    /\ phraseHeld \in [Holders -> Phrases \cup {NoSecret}]
    /\ tried \in [SecretKeys -> SUBSET (SecretValues \cup {NoSecret})]
    /\ unset \cup unlocked \cup probes \cup probing \subseteq Holders
    /\ cached \in [Holders -> Secrets] /\ ring \in Secrets /\ acked \in Secrets
    /\ vault \in [by : Phrases \cup {NoSecret}, held : Secrets]
    /\ putting \in [Holders -> [key : SecretKeys \cup {NoSecret},
                                value : SecretValues \cup {NoSecret}]]

Stored == IF Tier = "keychain" THEN ring ELSE vault.held

\* Through failed writes, kills, closing and reopening with whatever passphrase, the
\* store holds of every key what the last successful change left, or what one that
\* has failed or was cut short since wanted; and a process that opens the file after
\* the others have left reads that.
SecretsKept ==
    ~mixed => /\ \A k \in SecretKeys : Stored[k] \in {acked[k]} \cup tried[k]
              /\ \A p \in unlocked, k \in SecretKeys :
                     Tier = "age" => cached[p][k] \in {vault.held[k]} \cup tried[k]

\* "Implementations must be safe for concurrent use" is meant of goroutines (secrets.go:32);
\* of two processes that have the file open the later writer undoes what the other stored.
SecretsShared == \A k \in SecretKeys : Stored[k] \in {acked[k]} \cup tried[k]

\* "Returns ErrNotFound when the key does not exist" (secrets.go:48): after a Delete whose
\* write failed the next one says so, and the file still has the secret.
NotFoundIsGone ==
    ~mixed => \A p \in unlocked, k \in SecretKeys :
        Tier = "age" /\ putting[p] = Resting /\ cached[p][k] = NoSecret => Stored[k] = NoSecret

\* "AutoDetect selects the highest available tier" (secrets.go:16): where there is a home
\* directory it is the file, also without a passphrase and with a key in the environment.
DetectedIsAvailable ==
    host.hmac = "good" => \A p \in Holders : Tier = "age" => given[p].from # "none"
=============================================================================
