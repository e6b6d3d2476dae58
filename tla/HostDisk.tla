------------------------------ MODULE HostDisk ------------------------------
(***************************************************************************)
(* What the Host keeps across restarts, and the steps in which it is       *)
(* written: the key pair (credential store or host-keypair.json), the      *)
(* paired-device list (paired-devices.json), the word-list cache and       *)
(* state.json.  Every operation runs under the HostState lock, so at most  *)
(* one write is in progress; the process may end between any two of its    *)
(* system calls.                                                           *)
(*                                                                         *)
(* The list is written to a temporary file that is renamed over the old    *)
(* one.  The other files are written in place by std::fs::write, which     *)
(* truncates first: a process that ends, or a write that fails, in between *)
(* leaves a file that does not parse.  A loss of power, which may also     *)
(* undo what was written, is not modelled.                                 *)
(*                                                                         *)
(* A list is the set of its entries: it is kept in the order of enrolment, *)
(* which the numbers of the entries give.                                  *)
(***************************************************************************)
EXTENDS Naturals

CONSTANTS
    Devices,     \* the Devices that may be paired
    KeyFaults,   \* "flaky": the credential store comes and goes;
                 \* "restrict": a key file is written but its mode cannot be set
    MaxKeys,     \* key pairs that may be generated
    MaxEnrols,   \* enrolments
    MaxStarts,   \* starts of the process
    MaxTouches   \* time stamps

ASSUME DiskConstants ==
    /\ KeyFaults \subseteq {"flaky", "restrict"}
    /\ MaxKeys \in Nat /\ MaxEnrols \in Nat /\ MaxStarts \in Nat /\ MaxTouches \in Nat

VARIABLES
    (* on disk *)
    usesKeyring, \* ConfigPaths::os_keyring, and a store that answers
    keyring,     \* the key pair in the credential store
    file,        \* the files that are written in place
    list,        \* paired-devices.json
    (* in memory *)
    pc,          \* the step the process is about to take
    op,          \* the operation it is part of
    job,         \* the write in place, and where to go on after it
    staged,      \* the list being saved
    newKey,      \* the key pair being stored
    store,       \* DeviceStore::devices
    keypair,     \* HostState::keypair
    (* history *)
    minted, enrolled, starts, clock,
    revoked,     \* enrolments whose revocation was answered
    retired,     \* key pairs a successful rotation replaced
    condemned    \* key pairs a failed rotation should have replaced

disk    == <<usesKeyring, keyring, file, list>>
memory  == <<pc, op, job, staged, newKey, store, keypair>>
history == <<minted, enrolled, starts, clock, revoked, retired, condemned>>
vars    == <<disk, memory, history>>

NoKey   == 0
Keys    == 1..MaxKeys
Files   == {"key", "words", "state"}
Entries == [dev : Devices, id : 1..MaxEnrols, key : Keys, seen : 0..MaxTouches]
Steps   == {"down", "keys", "keyring", "open", "fill", "restrict", "words", "verify", "list",
            "endpoint", "up", "stage", "rename", "commit", "adopt", "unrotated", "reload"}
Missing == [kind |-> "missing"]
Torn    == [kind |-> "torn"]
KeyOf(k) == [kind |-> "key", key |-> k]
Bytes(k) == [kind |-> k]
Content == {Bytes(k) : k \in {"missing", "torn", "good", "bad", "endpoint", "clear"}}
              \cup {KeyOf(k) : k \in Keys}

NoJob   == [file |-> "none", content |-> Missing, ok |-> "down", fail |-> "down"]

Init ==
    /\ usesKeyring \in BOOLEAN
    /\ keyring = NoKey
    /\ file = [f \in Files |-> Missing]
    /\ list = {}
    /\ pc = "down" /\ op = "none" /\ job = NoJob
    /\ staged = {} /\ newKey = NoKey /\ store = {} /\ keypair = NoKey
    /\ minted = 0 /\ enrolled = 0 /\ starts = 0 /\ clock = 0
    /\ revoked = {} /\ retired = {} /\ condemned = {}

(***************************************************************************)
(* Writing a file in place                                                 *)
(***************************************************************************)
Goto(step) == pc' = step

\* write_restricted_file and write_cache: the content goes to `f`, and the
\* process continues at `ok` or at `fail`.
Write(f, content, ok, fail) ==
    /\ job' = [file |-> f, content |-> content, ok |-> ok, fail |-> fail]
    /\ Goto("open")

\* create_restricted_dir, and the opening half of std::fs::write, which
\* truncates; either may be refused and leaves the file alone.
Open ==
    /\ pc = "open"
    /\ \/ file' = [file EXCEPT ![job.file] = Torn] /\ Goto("fill")
       \/ file' = file /\ Goto(job.fail)
    /\ UNCHANGED <<usesKeyring, keyring, list, op, job, staged, newKey, store, keypair, history>>

\* The writing half; write_cache sets no mode.
Fill ==
    /\ pc = "fill"
    /\ \/ file' = [file EXCEPT ![job.file] = job.content]
          /\ Goto(IF job.file = "words" THEN job.ok ELSE "restrict")
       \/ file' = file /\ Goto(job.fail)
    /\ UNCHANGED <<usesKeyring, keyring, list, op, job, staged, newKey, store, keypair, history>>

\* restrict_file
Restrict ==
    /\ pc = "restrict"
    /\ \/ Goto(job.ok)
       \/ (job.file # "key" \/ "restrict" \in KeyFaults) /\ Goto(job.fail)
    /\ UNCHANGED <<disk, op, job, staged, newKey, store, keypair, history>>

(***************************************************************************)
(* keys.rs                                                                 *)
(***************************************************************************)
Generate ==
    /\ minted < MaxKeys
    /\ minted' = minted + 1
    /\ newKey' = minted + 1

\* Whether a call of the credential store succeeds.
Answers(ok) == IF "flaky" \in KeyFaults THEN usesKeyring \/ ~ok ELSE ok = usesKeyring

\* Where a process that has its key pair goes on.
AfterLoad == IF op = "start" THEN "words" ELSE "up"
NoLoad    == IF op = "start" THEN "down" ELSE "up"

\* fallback_read finds no file
FallbackMissing == file["key"] = Missing

\* fallback_load_or_generate
FallbackLoad ==
    \/ /\ FallbackMissing
       /\ Generate
       /\ Write("key", KeyOf(newKey'), "adopt", NoLoad)
       /\ UNCHANGED keypair
    \/ /\ ~FallbackMissing
       /\ keypair' = IF file["key"] = Torn THEN keypair ELSE file["key"].key
       /\ Goto(IF file["key"] = Torn THEN NoLoad ELSE AfterLoad)
       /\ UNCHANGED <<minted, newKey, job>>

\* load_or_generate, at the start and after a Device revoked everything
LoadKeys ==
    /\ pc \in {"keys", "reload"}
    /\ \E ok \in BOOLEAN :
        /\ Answers(ok)
        /\ \/ ok /\ keyring # NoKey
              /\ keypair' = keyring /\ Goto(AfterLoad)
              /\ UNCHANGED <<minted, newKey, job>>
           \/ ok /\ keyring = NoKey
              /\ Generate /\ Goto("keyring")
              /\ UNCHANGED <<job, keypair>>
           \/ ~ok /\ FallbackLoad
    /\ UNCHANGED <<disk, op, staged, store, enrolled, starts, clock, revoked, retired, condemned>>

\* Mutant: a rotated key pair goes to the file even while the credential store
\* holds the old one.
StoreKeyInFile ==
    /\ pc = "keyring"
    /\ keyring' = keyring
    /\ Write("key", KeyOf(newKey), "adopt", IF op = "start" THEN "down" ELSE "unrotated")
    /\ UNCHANGED <<usesKeyring, file, list, op, staged, newKey, store, keypair, history>>

\* set_secret, and the fallback file when it is refused; load_or_generate and
\* rotate end alike.
StoreKey ==
    /\ pc = "keyring"
    /\ \/ Answers(TRUE) /\ keyring' = newKey /\ Goto("adopt") /\ UNCHANGED job
       \/ Answers(FALSE) /\ keyring' = keyring
          /\ Write("key", KeyOf(newKey), "adopt", IF op = "start" THEN "down" ELSE "unrotated")
    /\ UNCHANGED <<usesKeyring, file, list, op, staged, newKey, store, keypair, history>>

\* The caller takes the stored key pair.  revoke_all keeps the one rotate
\* returned; finish_wire_revoke loads it again.
Adopt ==
    /\ pc = "adopt"
    /\ IF op = "wire_revoke_all"
       THEN Goto("reload") /\ UNCHANGED keypair
       ELSE Goto(AfterLoad) /\ keypair' = newKey
    /\ op' = IF op = "wire_revoke_all" THEN "reload" ELSE op
    /\ retired' = IF op \in {"revoke_all", "wire_revoke_all"} THEN retired \cup {keypair} ELSE retired
    /\ UNCHANGED <<disk, job, staged, newKey, store, minted, enrolled, starts, clock, revoked, condemned>>

\* Mutant: the new key pair is used although it could not be stored.
UnrotatedAnyway ==
    /\ pc = "unrotated"
    /\ Goto("up")
    /\ keypair' = newKey
    /\ UNCHANGED <<disk, op, job, staged, newKey, store, history>>

\* rotate failed: revoke_all logs it, revoke_device answers with an error; the
\* list is cleared in both cases and the old key pair stays in use.
Unrotated ==
    /\ pc = "unrotated"
    /\ Goto("up")
    /\ condemned' = IF op = "revoke_all" THEN condemned \cup {keypair} ELSE condemned
    /\ UNCHANGED <<disk, op, job, staged, newKey, store, keypair, minted, enrolled, starts, clock, revoked, retired>>

(***************************************************************************)
(* The start of the process                                                *)
(***************************************************************************)
\* config::load and the origin checks: a config.toml that is missing (the
\* default has no origin), does not parse or names an unusable origin ends the
\* start.
LoadConfig == Goto("keys") \/ Goto("down")

\* run_inner, up to load_or_generate
Start ==
    /\ pc = "down" /\ starts < MaxStarts
    /\ starts' = starts + 1
    /\ op' = "start" /\ LoadConfig
    /\ job' = NoJob /\ staged' = {} /\ newKey' = NoKey /\ store' = {} /\ keypair' = NoKey
    /\ UNCHANGED <<disk, minted, enrolled, clock, revoked, retired, condemned>>

\* default_fetch, with curl or wget: the list, or what else came back
Fetched == {Bytes("good"), Bytes("bad")}

\* load_verified: the cache is written before its checksum is looked at, and a
\* cache that fails it stays where it is.
LoadWords ==
    /\ pc = "words"
    /\ \/ file["words"] # Missing /\ Goto("verify") /\ UNCHANGED job
       \/ file["words"] = Missing
          /\ \/ \E bytes \in Fetched : Write("words", bytes, "verify", "down")
             \/ Goto("down") /\ UNCHANGED job     \* default_fetch failed
    /\ UNCHANGED <<disk, op, staged, newKey, store, keypair, history>>

\* verify_checksum and extract_words, of the bytes read or fetched.  What
\* follows, HerdrClient::discover and ping, may fail too.
VerifyWords ==
    /\ pc = "verify"
    /\ \/ file["words"] = Bytes("good") /\ Goto("list")
       \/ Goto("down")
    /\ UNCHANGED <<disk, op, job, staged, newKey, store, keypair, history>>

\* DeviceStore::load
LoadList ==
    /\ pc = "list"
    /\ \/ store' = list /\ Goto("endpoint")
       \/ store' = store /\ Goto("down")         \* the read timed out
    /\ UNCHANGED <<disk, op, job, staged, newKey, keypair, history>>

\* write_endpoint reads state.json first and fails when it does not parse.
WriteEndpoint ==
    /\ pc = "endpoint"
    /\ IF file["state"] = Torn THEN Goto("down") /\ UNCHANGED job
                               ELSE Write("state", Bytes("endpoint"), "up", "down")
    /\ UNCHANGED <<disk, op, staged, newKey, store, keypair, history>>

\* HostHandle::shutdown, after ctrl-c or herdr_gone: clear_endpoint, whose
\* errors are ignored.
Shutdown ==
    /\ pc = "up"
    /\ IF file["state"] = Torn THEN Goto("down") /\ UNCHANGED job
                               ELSE Write("state", Bytes("clear"), "down", "down")
    /\ op' = "stop"
    /\ UNCHANGED <<disk, staged, newKey, store, keypair, history>>

\* The process is killed.
Crash ==
    /\ pc # "down"
    /\ Goto("down") /\ op' = "none"
    /\ UNCHANGED <<disk, job, staged, newKey, store, keypair, history>>

(***************************************************************************)
(* store.rs: every change builds the new list, saves it and only then      *)
(* changes the list in memory                                              *)
(***************************************************************************)
Others(d) == {e \in store : e.dev # d}
Has(d)    == \E e \in store : e.dev = d

Save(o, devices) ==
    /\ pc = "up"
    /\ op' = o /\ staged' = devices /\ Goto("stage")
    /\ UNCHANGED <<disk, job, newKey, store, keypair>>

\* DeviceStore::add
Add(d) ==
    /\ enrolled < MaxEnrols
    /\ enrolled' = enrolled + 1
    /\ Save("add", Others(d) \cup {[dev |-> d, id |-> enrolled + 1, key |-> keypair, seen |-> clock]})
    /\ UNCHANGED <<minted, starts, clock, revoked, retired, condemned>>

\* DeviceStore::revoke, from the popup or from a Device
Revoke(d) ==
    /\ Has(d)
    /\ Save("revoke", Others(d))
    /\ UNCHANGED history

\* revoke_all of the popup, and revoke_device with `all` of a Device
RevokeAll(o) ==
    /\ minted < MaxKeys
    /\ Save(o, {})
    /\ UNCHANGED history

\* DeviceStore::touch_last_seen
TouchLastSeen(d) ==
    /\ Has(d) /\ clock < MaxTouches
    /\ clock' = clock + 1
    /\ Save("touch", {IF e.dev = d THEN [e EXCEPT !.seen = clock + 1] ELSE e : e \in store})
    /\ UNCHANGED <<minted, enrolled, starts, revoked, retired, condemned>>

Ids(devices) == {e.id : e \in devices}

\* Mutant: a save that failed is taken for one that succeeded.
StageUnchecked ==
    /\ pc = "stage"
    /\ Goto("rename") \/ Goto("commit")
    /\ UNCHANGED <<disk, op, job, staged, newKey, store, keypair, history>>

\* Mutant: a revocation changes the list in memory, and answers, before the save.
StageAfterCommit ==
    /\ pc = "stage"
    /\ Goto("rename")
    /\ store' = IF op \in {"add", "touch"} THEN store ELSE staged
    /\ revoked' = IF op \in {"add", "touch"} THEN revoked ELSE revoked \cup (Ids(store) \ Ids(staged))
    /\ UNCHANGED <<disk, op, job, staged, newKey, keypair, minted, enrolled, starts, clock, retired, condemned>>

\* The temporary file is written; when that fails it is removed.
Stage ==
    /\ pc = "stage"
    /\ Goto("rename") \/ Goto("up")
    /\ UNCHANGED <<disk, op, job, staged, newKey, store, keypair, history>>

Rename ==
    /\ pc = "rename"
    /\ \/ list' = staged /\ Goto("commit")
       \/ list' = list /\ Goto("up")
    /\ UNCHANGED <<usesKeyring, keyring, file, op, job, staged, newKey, store, keypair, history>>

\* The save succeeded.  A full revocation goes on to rotate; its answer, like
\* that of a single one, no longer depends on the list.
Commit ==
    /\ pc = "commit"
    /\ store' = staged
    /\ revoked' = IF op \in {"add", "touch"} THEN revoked ELSE revoked \cup (Ids(store) \ Ids(staged))
    /\ IF op \in {"revoke_all", "wire_revoke_all"}
       THEN Generate /\ Goto("keyring")
       ELSE Goto("up") /\ UNCHANGED <<minted, newKey>>
    /\ UNCHANGED <<disk, op, job, staged, keypair, enrolled, starts, clock, retired, condemned>>

Next ==
    \/ Start \/ LoadKeys \/ StoreKey \/ Adopt \/ Unrotated
    \/ LoadWords \/ VerifyWords \/ LoadList \/ WriteEndpoint
    \/ Open \/ Fill \/ Restrict
    \/ \E d \in Devices : Add(d) \/ Revoke(d) \/ TouchLastSeen(d)
    \/ \E o \in {"revoke_all", "wire_revoke_all"} : RevokeAll(o)
    \/ Stage \/ Rename \/ Commit
    \/ Shutdown \/ Crash

Spec == Init /\ [][Next]_vars

-----------------------------------------------------------------------------
\* Every variable holds a value of its kind; a device is listed once.
TypeOK ==
    /\ usesKeyring \in BOOLEAN
    /\ keyring \in Keys \cup {NoKey}
    /\ file \in [Files -> Content]
    /\ \A l \in {list, staged, store} :
        /\ l \subseteq Entries
        /\ \A e, f \in l : e.dev = f.dev => e = f
    /\ pc \in Steps
    /\ newKey \in Keys \cup {NoKey} /\ keypair \in Keys \cup {NoKey}
    /\ revoked \subseteq 1..MaxEnrols /\ retired \subseteq Keys /\ condemned \subseteq Keys

\* Between two operations the list in memory is the list on disk, whatever
\* failed before (store.rs:131-145: "commit the enrolment record only after the
\* save succeeds").
StoreMatchesDisk == pc = "up" => store = list

\* An enrolment whose revocation was answered is never listed again, in memory
\* or after any crash and restart (store.rs:199-219, R-13-053).
RevokedStaysRevoked == revoked \cap (Ids(list) \cup Ids(store)) = {}

\* Every listed Device pinned the key pair the running Host uses: the Host can
\* complete the KK handshake with each of them, after any sequence of
\* rotations, failed writes, crashes and restarts (keys.rs:219-268,
\* bridge.rs:800-812 and 842-845).
PairingsUseHostKey == pc = "up" => \A e \in store : e.key = keypair

\* A key pair that a rotation replaced is never used again (keys.rs:255-270,
\* R-13-056).
RotationIsFinal == pc = "up" => keypair \notin retired

\* The key pair in use is the newest, and the one every phone has pinned.
HostKeyIsTheOne == PairingsUseHostKey /\ RotationIsFinal

\* The word-list cache holds only verified bytes (pairing/wordlist.rs:13-14:
\* "on a miss, fetch, verify, write the cache, then return").
CacheIsVerified == file["words"] # Bytes("bad")

\* After revoke_all could not rotate, the next start does not load the key pair
\* it was to replace (bridge.rs:808-811: "the next start regenerates instead").
NextStartRegenerates == [][pc = "keys" /\ keypair' # keypair => keypair' \notin condemned]_vars
=============================================================================
