--------------------------- MODULE HostDiskProofs ---------------------------
(***************************************************************************)
(* Proofs about what the Host keeps across restarts, for every number of   *)
(* Devices, key pairs, enrolments and starts.                              *)
(*                                                                         *)
(* The list in memory and the list on disk differ only between the rename  *)
(* and the commit of one save, or while the process has no list yet, so a  *)
(* revoked enrolment can come back by neither of them (DiskInv).  The host *)
(* key needs more: which key pair the next start would load (Loads), which *)
(* is the one in use except between the write of a new one and its         *)
(* adoption, and by then the list is empty (HostKeyInv).  That holds while *)
(* the credential store is either always there or never (KeyFaults = {});  *)
(* with a store that comes and goes it is false, as is known of the code.  *)
(***************************************************************************)
EXTENDS HostDisk, TLAPS
-----------------------------------------------------------------------------
(* What the process is doing, and what it knows.                           *)

\* The three steps of a write in place.
W == {"open", "fill", "restrict"}
Rotations == {"revoke_all", "wire_revoke_all"}

\* Every enrolment and every key pair in use has been handed out.
Numbered ==
    /\ minted \in 0..MaxKeys /\ enrolled \in 0..MaxEnrols /\ clock \in 0..MaxTouches
    /\ \A l \in {list, store, staged} : \A e \in l : e.id <= enrolled
    /\ revoked \subseteq 1..enrolled /\ retired \subseteq 1..minted
    /\ keyring <= minted /\ newKey <= minted /\ keypair <= minted
    /\ file["key"] \in {Missing, Torn} \cup {KeyOf(k) : k \in 1..minted}

\* The four writes in place, and where each goes on.
KeyJob ==
    /\ job.file = "key" /\ job.content = KeyOf(newKey) /\ newKey # NoKey /\ job.ok = "adopt"
    /\ \/ op = "start" /\ job.fail = "down"
       \/ op = "reload" /\ job.fail \in {"up", "unrotated"}
       \/ op \in Rotations /\ job.fail = "unrotated"
WordsJob ==
    /\ job.file = "words" /\ job.content \in Fetched /\ job.ok = "verify" /\ job.fail = "down"
    /\ op = "start"
EndpointJob ==
    /\ job.file = "state" /\ job.content = Bytes("endpoint") /\ job.ok = "up" /\ job.fail = "down"
    /\ op = "start"
ClearJob ==
    /\ job.file = "state" /\ job.content = Bytes("clear") /\ job.ok = "down" /\ job.fail = "down"
    /\ op = "stop"

JobOK == KeyJob \/ WordsJob \/ EndpointJob \/ ClearJob

\* The operation each step belongs to.
StepOK ==
    /\ pc \in {"keys", "words", "verify", "list", "endpoint"} => op = "start"
    /\ pc \in {"stage", "rename", "commit"} => op \in {"add", "revoke", "touch"} \cup Rotations
    /\ pc \in {"keyring", "adopt"} => op \in {"start", "reload"} \cup Rotations /\ newKey # NoKey
    /\ pc = "unrotated" => op \in {"reload"} \cup Rotations
    /\ pc = "reload" => op = "reload"
    /\ pc \in W => JobOK

WritesKey == pc \in W /\ job.file = "key"

\* The process has a key pair: a start has it once it is loaded, any other
\* operation has it all along.
HasKey ==
    \/ pc \in {"words", "verify", "list", "endpoint", "up", "stage", "rename", "commit", "unrotated",
               "reload"}
    \/ pc \in W /\ job.file # "key"
    \/ (pc \in {"keyring", "adopt"} \/ WritesKey) /\ op # "start"

KeyKnown == HasKey => keypair # NoKey

\* The process has read the list, and is not between the two halves of a save.
HasList ==
    \/ pc \in {"endpoint", "up", "stage", "rename", "unrotated", "reload"}
    \/ pc \in W /\ job.file = "state"
    \/ (pc \in {"keyring", "adopt"} \/ WritesKey) /\ op # "start"

ListKnown == (HasList => store = list) /\ (pc = "commit" => list = staged)

\* What is being saved holds no revoked enrolment either.
NoneRevoked ==
    /\ RevokedStaysRevoked
    /\ pc \in {"stage", "rename", "commit"} => revoked \cap Ids(staged) = {}

DiskInv == TypeOK /\ Numbered /\ StepOK /\ KeyKnown /\ ListKnown /\ NoneRevoked

\* The next start loads `k`; it does so now, or would once the key file, torn by
\* a write that is under way or that failed, were whole.
Loads(k)     == IF usesKeyring THEN keyring = k ELSE file["key"] = KeyOf(k)
CouldLoad(k) == IF usesKeyring THEN keyring = k ELSE file["key"] \in {KeyOf(k), Torn}

\* A new key pair is being stored; it has been.
Rekeying == pc \in {"keyring", "adopt", "unrotated", "reload"} \/ WritesKey
KeyWritten == pc = "adopt" \/ pc = "reload" \/ (pc = "restrict" /\ job.file = "key")

\* Every enrolment pinned the key pair in use, and none is left while a new key
\* pair is stored.
ListedKeys ==
    /\ \A e \in list : CouldLoad(e.key)
    /\ HasList => \A e \in store : e.key = keypair
    /\ pc \in {"stage", "rename", "commit"} => \A e \in staged : e.key = keypair
    /\ Rekeying => list = {}
    /\ pc \in {"stage", "rename", "commit"} /\ op \in Rotations => staged = {}

\* The key pair in use is the one on disk, until a new one is written.
KeyOnDisk ==
    /\ HasKey /\ ~KeyWritten => CouldLoad(keypair)
    /\ pc \in {"words", "verify", "list"} \/ (pc \in W /\ job.file = "words") => Loads(keypair)
    /\ KeyWritten => Loads(newKey)
    /\ WritesKey => ~usesKeyring

\* A key pair that was replaced is neither on disk nor in use.
KeyIsLive ==
    /\ \A k \in retired : ~Loads(k)
    /\ HasKey /\ pc # "reload" => keypair \notin retired
    /\ Rekeying /\ pc # "unrotated" => newKey \notin retired /\ newKey # keypair /\ newKey # NoKey
    /\ op = "reload" => pc \in {"reload", "up", "down"}

HostKeyInv == ListedKeys /\ KeyOnDisk /\ KeyIsLive

-----------------------------------------------------------------------------
(* What the steps with several outcomes do.                                *)

\* Opening a file leaves it alone or tears it.
OpenDoes ==
    /\ \/ pc' = "fill" /\ file' \in [Files -> Content] /\ file'[job.file] = Torn
          /\ \A f \in Files : f # job.file => file'[f] = file[f]
       \/ pc' = job.fail /\ file' = file
    /\ pc = "open" /\ JobOK
    /\ UNCHANGED <<usesKeyring, keyring, list, op, job, staged, newKey, store, keypair,
                   minted, enrolled, starts, clock, revoked, retired, condemned>>

\* Open does no more than that.
LEMMA OpenIs == ASSUME TypeOK, StepOK, Open PROVE OpenDoes
<1>1. JobOK
  BY DEF Open, StepOK, W
<1>2. job.file \in Files /\ Torn \in Content
  BY <1>1 DEF JobOK, KeyJob, WordsJob, EndpointJob, ClearJob, Files, Torn, Content, Bytes
<1>. QED
  BY <1>1, <1>2 DEF Open, OpenDoes, TypeOK, Goto, history

\* Filling it gives it its content or leaves it torn.
FillDoes ==
    /\ \/ /\ pc' = IF job.file = "words" THEN job.ok ELSE "restrict"
          /\ file' \in [Files -> Content] /\ file'[job.file] = job.content
          /\ \A f \in Files : f # job.file => file'[f] = file[f]
       \/ pc' = job.fail /\ file' = file
    /\ pc = "fill" /\ JobOK
    /\ UNCHANGED <<usesKeyring, keyring, list, op, job, staged, newKey, store, keypair,
                   minted, enrolled, starts, clock, revoked, retired, condemned>>

\* Fill does no more than that.
LEMMA FillIs == ASSUME TypeOK, StepOK, Fill PROVE FillDoes
<1>1. JobOK
  BY DEF Fill, StepOK, W
<1>2. job.file \in Files
  BY <1>1 DEF JobOK, KeyJob, WordsJob, EndpointJob, ClearJob, Files
<1>3. job.content \in Content
  <2>1. CASE KeyJob
    <3>1. newKey \in Keys
      BY <2>1 DEF KeyJob, TypeOK
    <3>. QED
      BY <2>1, <3>1 DEF KeyJob, Content
  <2>2. CASE WordsJob
    BY <2>2 DEF WordsJob, Fetched, Content
  <2>3. CASE EndpointJob \/ ClearJob
    BY <2>3 DEF EndpointJob, ClearJob, Content
  <2>. QED
    BY <1>1, <2>1, <2>2, <2>3 DEF JobOK
<1>. QED
  BY <1>1, <1>2, <1>3 DEF Fill, FillDoes, TypeOK, Goto, history

\* Setting its mode succeeds or fails, and changes no file.
RestrictDoes ==
    /\ \/ pc' = job.ok
       \/ pc' = job.fail /\ (job.file # "key" \/ "restrict" \in KeyFaults)
    /\ pc = "restrict" /\ JobOK
    /\ UNCHANGED <<usesKeyring, keyring, file, list, op, job, staged, newKey, store, keypair,
                   minted, enrolled, starts, clock, revoked, retired, condemned>>

\* Restrict does no more than that.
LEMMA RestrictIs == ASSUME StepOK, Restrict PROVE RestrictDoes
BY DEF Restrict, RestrictDoes, StepOK, W, Goto, disk, history

\* The five ways to load or to generate the key pair.
LoadsFromKeyring ==
    /\ keyring # NoKey /\ keypair' = keyring /\ pc' = AfterLoad
    /\ UNCHANGED <<minted, newKey, job>>
    /\ KeyFaults = {} => usesKeyring
GeneratesForKeyring ==
    /\ keyring = NoKey /\ Generate /\ pc' = "keyring"
    /\ UNCHANGED <<job, keypair>>
    /\ KeyFaults = {} => usesKeyring
GeneratesForFile ==
    /\ file["key"] = Missing /\ Generate /\ pc' = "open"
    /\ job' = [file |-> "key", content |-> KeyOf(newKey'), ok |-> "adopt", fail |-> NoLoad]
    /\ UNCHANGED keypair
    /\ KeyFaults = {} => ~usesKeyring
FindsTornFile ==
    /\ file["key"] = Torn /\ pc' = NoLoad
    /\ UNCHANGED <<keypair, minted, newKey, job>>
    /\ KeyFaults = {} => ~usesKeyring
LoadsFromFile ==
    /\ file["key"] = KeyOf(keypair') /\ keypair' \in 1..minted /\ pc' = AfterLoad
    /\ UNCHANGED <<minted, newKey, job>>
    /\ KeyFaults = {} => ~usesKeyring

LoadKeysDoes ==
    /\ \/ LoadsFromKeyring \/ GeneratesForKeyring \/ GeneratesForFile \/ FindsTornFile
       \/ LoadsFromFile
    /\ pc \in {"keys", "reload"}
    /\ UNCHANGED <<usesKeyring, keyring, file, list, op, staged, store, enrolled, starts, clock,
                   revoked, retired, condemned>>

\* LoadKeys takes one of those five ways.
LEMMA LoadKeysIs == ASSUME Numbered, LoadKeys PROVE LoadKeysDoes
<1>1. PICK ok \in BOOLEAN :
        /\ Answers(ok)
        /\ \/ ok /\ keyring # NoKey
              /\ keypair' = keyring /\ Goto(AfterLoad)
              /\ UNCHANGED <<minted, newKey, job>>
           \/ ok /\ keyring = NoKey
              /\ Generate /\ Goto("keyring")
              /\ UNCHANGED <<job, keypair>>
           \/ ~ok /\ FallbackLoad
  BY DEF LoadKeys
<1>2. KeyFaults = {} => ok = usesKeyring
  BY <1>1 DEF Answers
<1>3. LoadsFromKeyring \/ GeneratesForKeyring \/ GeneratesForFile \/ FindsTornFile \/ LoadsFromFile
  <2>1. CASE ok /\ keyring # NoKey
    BY <1>1, <1>2, <2>1 DEF LoadsFromKeyring, Goto
  <2>2. CASE ok /\ keyring = NoKey
    BY <1>1, <1>2, <2>2 DEF GeneratesForKeyring, Goto
  <2>3. CASE ~ok /\ file["key"] = Missing
    BY <1>1, <1>2, <2>3 DEF GeneratesForFile, FallbackLoad, FallbackMissing, Write, Goto
  <2>4. CASE ~ok /\ file["key"] = Torn
    <3>1. file["key"] # Missing
      BY <2>4 DEF Torn, Missing
    <3>. QED
      BY <1>1, <1>2, <2>4, <3>1 DEF FindsTornFile, FallbackLoad, FallbackMissing, Goto
  <2>5. ASSUME ~ok, NEW k \in 1..minted, file["key"] = KeyOf(k) PROVE LoadsFromFile
    <3>1. file["key"] # Missing /\ file["key"] # Torn /\ file["key"].key = k
      BY <2>5 DEF Torn, Missing, KeyOf
    <3>. QED
      BY <1>1, <1>2, <2>5, <3>1 DEF LoadsFromFile, FallbackLoad, FallbackMissing, Goto
  <2>. QED
    BY <2>1, <2>2, <2>3, <2>4, <2>5 DEF Numbered
<1>. QED
  BY <1>3 DEF LoadKeys, LoadKeysDoes, disk

\* What a touched list has of the one before.
LEMMA TouchedList ==
    ASSUME TypeOK, Numbered, NEW d \in Devices, TouchLastSeen(d)
    PROVE  /\ staged' \subseteq Entries
           /\ \A e, f \in staged' : e.dev = f.dev => e = f
           /\ \A e \in staged' : \E f \in store : e.dev = f.dev /\ e.id = f.id /\ e.key = f.key
<1>1. clock + 1 \in 0..MaxTouches
  BY DiskConstants DEF TouchLastSeen, Numbered
<1>2. store \subseteq Entries /\ \A e, f \in store : e.dev = f.dev => e = f
  BY DEF TypeOK
<1> DEFINE Seen(e) == IF e.dev = d THEN [e EXCEPT !.seen = clock + 1] ELSE e
<1>3. \A e \in Entries : Seen(e) \in Entries /\ Seen(e).dev = e.dev /\ Seen(e).id = e.id
                         /\ Seen(e).key = e.key
  BY <1>1 DEF Entries
<1>4. staged' = {Seen(e) : e \in store}
  BY DEF TouchLastSeen, Save
<1> HIDE DEF Seen
<1>. QED
  BY <1>2, <1>3, <1>4

\* Every step keeps TypeOK.
LEMMA TypeOKStep ==
    ASSUME TypeOK, Numbered, StepOK, KeyKnown, [Next]_vars
    PROVE  TypeOK'
<1>1. ASSUME Start PROVE TypeOK'
  BY <1>1 DEF Start, LoadConfig, Goto, disk, TypeOK, Steps
<1>2. ASSUME LoadKeys PROVE TypeOK'
  <2>0. LoadKeysDoes
    BY <1>2, LoadKeysIs
  <2>1. CASE LoadsFromKeyring
    BY <2>0, <2>1, DiskConstants DEF LoadsFromKeyring, LoadKeysDoes, AfterLoad, TypeOK, Steps
  <2>2. CASE GeneratesForKeyring
    BY <2>0, <2>2, DiskConstants DEF GeneratesForKeyring, LoadKeysDoes, Generate, TypeOK,
           Numbered, Steps, Keys
  <2>3. CASE GeneratesForFile
    BY <2>0, <2>3, DiskConstants DEF GeneratesForFile, LoadKeysDoes, Generate, TypeOK,
           Numbered, Steps, Keys
  <2>4. CASE FindsTornFile
    BY <2>0, <2>4, DiskConstants DEF FindsTornFile, LoadKeysDoes, NoLoad, TypeOK, Steps
  <2>5. CASE LoadsFromFile
    BY <2>0, <2>5, DiskConstants DEF LoadsFromFile, LoadKeysDoes, AfterLoad, TypeOK, Numbered,
           Steps, Keys
  <2>. QED
    BY <2>0, <2>1, <2>2, <2>3, <2>4, <2>5 DEF LoadKeysDoes
<1>3. ASSUME StoreKey PROVE TypeOK'
  BY <1>3 DEF StoreKey, Answers, Goto, Write, history, TypeOK, Steps
<1>4. ASSUME Adopt PROVE TypeOK'
  <2>1. keypair' \in Keys \cup {NoKey} /\ newKey \in Keys
    BY <1>4 DEF Adopt, StepOK, TypeOK
  <2>2. op \in Rotations => keypair \in Keys
    BY <1>4 DEF Adopt, KeyKnown, HasKey, TypeOK, Rotations
  <2>3. pc' \in Steps
    BY <1>4 DEF Adopt, Goto, AfterLoad, Steps
  <2>. QED
    BY <1>4, <2>1, <2>2, <2>3 DEF Adopt, TypeOK, disk, Rotations
<1>5. ASSUME Unrotated PROVE TypeOK'
  <2>1. keypair \in Keys
    BY <1>5 DEF Unrotated, KeyKnown, HasKey, TypeOK
  <2>2. pc' \in Steps
    BY <1>5 DEF Unrotated, Goto, Steps
  <2>. QED
    BY <1>5, <2>1, <2>2 DEF Unrotated, TypeOK, disk
<1>6. ASSUME LoadWords PROVE TypeOK'
  BY <1>6 DEF LoadWords, Goto, Write, disk, history, TypeOK, Steps
<1>7. ASSUME VerifyWords PROVE TypeOK'
  BY <1>7 DEF VerifyWords, Goto, disk, history, TypeOK, Steps
<1>8. ASSUME LoadList PROVE TypeOK'
  BY <1>8 DEF LoadList, Goto, disk, history, TypeOK, Steps
<1>9. ASSUME WriteEndpoint PROVE TypeOK'
  BY <1>9 DEF WriteEndpoint, Goto, Write, disk, history, TypeOK, Steps
<1>10. ASSUME Open PROVE TypeOK'
  <2>0. OpenDoes
    BY <1>10, OpenIs
  <2>1. CASE KeyJob
    BY <2>0, <2>1 DEF KeyJob, OpenDoes, TypeOK, Steps
  <2>2. CASE WordsJob
    BY <2>0, <2>2 DEF WordsJob, OpenDoes, TypeOK, Steps
  <2>3. CASE EndpointJob
    BY <2>0, <2>3 DEF EndpointJob, OpenDoes, TypeOK, Steps
  <2>4. CASE ClearJob
    BY <2>0, <2>4 DEF ClearJob, OpenDoes, TypeOK, Steps
  <2>. QED
    BY <2>0, <2>1, <2>2, <2>3, <2>4 DEF OpenDoes, JobOK
<1>11. ASSUME Fill PROVE TypeOK'
  <2>0. FillDoes
    BY <1>11, FillIs
  <2>1. CASE KeyJob
    BY <2>0, <2>1 DEF KeyJob, FillDoes, TypeOK, Steps
  <2>2. CASE WordsJob
    BY <2>0, <2>2 DEF WordsJob, FillDoes, TypeOK, Steps
  <2>3. CASE EndpointJob
    BY <2>0, <2>3 DEF EndpointJob, FillDoes, TypeOK, Steps
  <2>4. CASE ClearJob
    BY <2>0, <2>4 DEF ClearJob, FillDoes, TypeOK, Steps
  <2>. QED
    BY <2>0, <2>1, <2>2, <2>3, <2>4 DEF FillDoes, JobOK
<1>12. ASSUME Restrict PROVE TypeOK'
  <2>0. RestrictDoes
    BY <1>12, RestrictIs
  <2>1. CASE KeyJob
    BY <2>0, <2>1 DEF KeyJob, RestrictDoes, TypeOK, Steps
  <2>2. CASE WordsJob
    BY <2>0, <2>2 DEF WordsJob, RestrictDoes, TypeOK, Steps
  <2>3. CASE EndpointJob
    BY <2>0, <2>3 DEF EndpointJob, RestrictDoes, TypeOK, Steps
  <2>4. CASE ClearJob
    BY <2>0, <2>4 DEF ClearJob, RestrictDoes, TypeOK, Steps
  <2>. QED
    BY <2>0, <2>1, <2>2, <2>3, <2>4 DEF RestrictDoes, JobOK
<1>13. ASSUME NEW d \in Devices, Add(d) PROVE TypeOK'
  <2>1. PICK new : new = [dev |-> d, id |-> enrolled + 1, key |-> keypair, seen |-> clock]
    OBVIOUS
  <2>2. keypair \in Keys
    BY <1>13 DEF Add, Save, KeyKnown, HasKey, TypeOK
  <2>3. enrolled + 1 \in 1..MaxEnrols /\ clock \in 0..MaxTouches
    BY <1>13, DiskConstants DEF Add, Numbered
  <2>4. new \in Entries /\ new.dev = d
    BY <2>1, <2>2, <2>3 DEF Entries
  <2>5. staged' = Others(d) \cup {new}
    BY <1>13, <2>1 DEF Add, Save
  <2>6. staged' \subseteq Entries /\ \A e, f \in staged' : e.dev = f.dev => e = f
    BY <2>4, <2>5 DEF Others, TypeOK
  <2>7. pc' \in Steps
    BY <1>13 DEF Add, Save, Goto, Steps
  <2>. QED
    BY <1>13, <2>6, <2>7 DEF Add, Save, disk, TypeOK
<1>14. ASSUME NEW d \in Devices, Revoke(d) PROVE TypeOK'
  BY <1>14 DEF Revoke, Save, Others, Goto, disk, history, TypeOK, Steps
<1>15. ASSUME NEW d \in Devices, TouchLastSeen(d) PROVE TypeOK'
  BY <1>15, TouchedList, DiskConstants DEF TouchLastSeen, Save, Goto, disk, TypeOK, Steps,
         Keys, Content, Entries
<1>16. ASSUME NEW o \in Rotations, RevokeAll(o) PROVE TypeOK'
  BY <1>16 DEF RevokeAll, Save, Goto, disk, history, TypeOK, Steps
<1>17. ASSUME Stage PROVE TypeOK'
  BY <1>17 DEF Stage, Goto, disk, history, TypeOK, Steps
<1>18. ASSUME Rename PROVE TypeOK'
  BY <1>18 DEF Rename, Goto, history, TypeOK, Steps
<1>19. ASSUME Commit PROVE TypeOK'
  <2>1. Ids(store) \subseteq 1..MaxEnrols
    BY DEF TypeOK, Ids, Entries
  <2>2. newKey' \in Keys \cup {NoKey}
    BY <1>19, DiskConstants DEF Commit, Generate, Numbered, TypeOK, Keys
  <2>3. pc' \in Steps
    BY <1>19 DEF Commit, Goto, Steps
  <2>4. revoked' \subseteq 1..MaxEnrols
    BY <1>19, <2>1 DEF Commit, TypeOK
  <2>5. store' = staged /\ UNCHANGED <<usesKeyring, keyring, file, list, staged, keypair, retired, condemned>>
    BY <1>19 DEF Commit, disk
  <2>. QED
    BY <2>2, <2>3, <2>4, <2>5 DEF TypeOK
<1>20. ASSUME Shutdown PROVE TypeOK'
  BY <1>20 DEF Shutdown, Goto, Write, disk, history, TypeOK, Steps
<1>21. ASSUME Crash PROVE TypeOK'
  BY <1>21 DEF Crash, Goto, disk, history, TypeOK, Steps
<1>22. CASE UNCHANGED vars
  BY <1>22 DEF vars, disk, memory, history, TypeOK
<1>. QED
  BY <1>1, <1>2, <1>3, <1>4, <1>5, <1>6, <1>7, <1>8, <1>9, <1>10, <1>11, <1>12, <1>13, <1>14,
         <1>15, <1>16, <1>17, <1>18, <1>19, <1>20, <1>21, <1>22 DEF Next, Rotations

\* Every step keeps Numbered.
LEMMA NumberedStep ==
    ASSUME TypeOK, Numbered, StepOK, KeyKnown, [Next]_vars
    PROVE  Numbered'
<1>1. ASSUME Start PROVE Numbered'
  BY <1>1, DiskConstants DEF Start, disk, Numbered, NoKey
<1>2. ASSUME LoadKeys PROVE Numbered'
  BY <1>2, DiskConstants DEF LoadKeys, Generate, FallbackLoad, FallbackMissing, disk, TypeOK,
         Numbered, KeyOf
<1>3. ASSUME StoreKey PROVE Numbered'
  BY <1>3, DiskConstants DEF StoreKey, Answers, history, Numbered
<1>4. ASSUME Adopt PROVE Numbered'
  <2>1. op \in Rotations => keypair \in Keys /\ keypair \in 1..minted
    BY <1>4, DiskConstants DEF Adopt, KeyKnown, HasKey, TypeOK, Rotations, Numbered, Keys
  <2>2. retired' \subseteq 1..minted
    BY <1>4, <2>1 DEF Adopt, Numbered, Rotations
  <2>. QED
    BY <1>4, <2>2 DEF Adopt, Numbered, disk
<1>5. ASSUME Unrotated PROVE Numbered'
  BY <1>5, DiskConstants DEF Unrotated, disk, Numbered
<1>6. ASSUME LoadWords PROVE Numbered'
  BY <1>6, DiskConstants DEF LoadWords, disk, history, Numbered
<1>7. ASSUME VerifyWords PROVE Numbered'
  BY <1>7, DiskConstants DEF VerifyWords, disk, history, Numbered
<1>8. ASSUME LoadList PROVE Numbered'
  BY <1>8, DiskConstants DEF LoadList, disk, history, Numbered
<1>9. ASSUME WriteEndpoint PROVE Numbered'
  BY <1>9, DiskConstants DEF WriteEndpoint, disk, history, Numbered
<1>10. ASSUME Open PROVE Numbered'
  <2>0. OpenDoes
    BY <1>10, OpenIs
  <2>1. CASE KeyJob
    BY <2>0, <2>1 DEF KeyJob, OpenDoes, Numbered
  <2>2. CASE WordsJob
    BY <2>0, <2>2 DEF OpenDoes, Numbered, Files
  <2>3. CASE EndpointJob
    BY <2>0, <2>3 DEF OpenDoes, Numbered, Files
  <2>4. CASE ClearJob
    BY <2>0, <2>4 DEF OpenDoes, Numbered, Files
  <2>. QED
    BY <2>0, <2>1, <2>2, <2>3, <2>4 DEF OpenDoes, JobOK
<1>11. ASSUME Fill PROVE Numbered'
  <2>0. FillDoes
    BY <1>11, FillIs
  <2>1. CASE KeyJob
    BY <2>0, <2>1 DEF KeyJob, FillDoes, TypeOK, Numbered, Keys
  <2>2. CASE WordsJob
    BY <2>0, <2>2 DEF WordsJob, FillDoes, Numbered, Files
  <2>3. CASE EndpointJob
    BY <2>0, <2>3 DEF EndpointJob, FillDoes, Numbered, Files
  <2>4. CASE ClearJob
    BY <2>0, <2>4 DEF ClearJob, FillDoes, Numbered, Files
  <2>. QED
    BY <2>0, <2>1, <2>2, <2>3, <2>4 DEF FillDoes, JobOK
<1>12. ASSUME Restrict PROVE Numbered'
  BY <1>12, DiskConstants DEF Restrict, disk, history, Numbered
<1>13. ASSUME NEW d \in Devices, Add(d) PROVE Numbered'
  BY <1>13, DiskConstants DEF Add, Save, Others, disk, TypeOK, Numbered, Entries
<1>14. ASSUME NEW d \in Devices, Revoke(d) PROVE Numbered'
  BY <1>14, DiskConstants DEF Revoke, Save, Others, disk, history, Numbered
<1>15. ASSUME NEW d \in Devices, TouchLastSeen(d) PROVE Numbered'
  BY <1>15, DiskConstants DEF TouchLastSeen, Save, disk, TypeOK, Numbered, Entries
<1>16. ASSUME NEW o \in Rotations, RevokeAll(o) PROVE Numbered'
  BY <1>16, DiskConstants DEF RevokeAll, Save, disk, history, Numbered
<1>17. ASSUME Stage PROVE Numbered'
  BY <1>17, DiskConstants DEF Stage, disk, history, Numbered
<1>18. ASSUME Rename PROVE Numbered'
  BY <1>18, DiskConstants DEF Rename, history, Numbered
<1>19. ASSUME Commit PROVE Numbered'
  <2>1. Ids(store) \subseteq 1..enrolled
    BY DiskConstants DEF TypeOK, Ids, Entries, Numbered
  <2>2. revoked' \subseteq 1..enrolled /\ staged' = staged /\ store' = staged
    BY <1>19, <2>1 DEF Commit, Numbered
  <2>3. minted' \in 0..MaxKeys /\ minted <= minted' /\ newKey' <= minted'
    BY <1>19, DiskConstants DEF Commit, Generate, Numbered
  <2>4. 1..minted \subseteq 1..minted'
    BY <2>3 DEF Numbered
  <2>5. keyring <= minted' /\ keypair <= minted'
    BY <2>3, DiskConstants DEF Numbered, TypeOK
  <2>. QED
    BY <1>19, <2>2, <2>3, <2>4, <2>5 DEF Commit, Numbered, disk
<1>20. ASSUME Shutdown PROVE Numbered'
  BY <1>20, DiskConstants DEF Shutdown, disk, history, Numbered
<1>21. ASSUME Crash PROVE Numbered'
  BY <1>21, DiskConstants DEF Crash, disk, history, Numbered
<1>22. CASE UNCHANGED vars
  BY <1>22 DEF vars, disk, memory, history, Numbered
<1>. QED
  BY <1>1, <1>2, <1>3, <1>4, <1>5, <1>6, <1>7, <1>8, <1>9, <1>10, <1>11, <1>12, <1>13, <1>14,
         <1>15, <1>16, <1>17, <1>18, <1>19, <1>20, <1>21, <1>22 DEF Next, Rotations

\* Every step keeps StepOK.
LEMMA StepOKStep ==
    ASSUME TypeOK, Numbered, StepOK, KeyKnown, [Next]_vars
    PROVE  StepOK'
<1>1. ASSUME Start PROVE StepOK'
  BY <1>1 DEF Start, LoadConfig, Goto, StepOK, W
<1>2. ASSUME LoadKeys PROVE StepOK'
  BY <1>2 DEF LoadKeys, Generate, Goto, FallbackLoad, Write, AfterLoad, NoLoad, Numbered,
         StepOK, W, JobOK, KeyJob, NoKey
<1>3. ASSUME StoreKey PROVE StepOK'
  BY <1>3 DEF StoreKey, Answers, Goto, Write, StepOK, W, JobOK, KeyJob
<1>4. ASSUME Adopt PROVE StepOK'
  BY <1>4 DEF Adopt, Goto, AfterLoad, StepOK, W
<1>5. ASSUME Unrotated PROVE StepOK'
  BY <1>5 DEF Unrotated, Goto, StepOK, W
<1>6. ASSUME LoadWords PROVE StepOK'
  BY <1>6 DEF LoadWords, Goto, Write, StepOK, W, JobOK, WordsJob
<1>7. ASSUME VerifyWords PROVE StepOK'
  BY <1>7 DEF VerifyWords, Goto, StepOK, W
<1>8. ASSUME LoadList PROVE StepOK'
  BY <1>8 DEF LoadList, Goto, StepOK, W
<1>9. ASSUME WriteEndpoint PROVE StepOK'
  BY <1>9 DEF WriteEndpoint, Goto, Write, StepOK, W, JobOK, EndpointJob
<1>10. ASSUME Open PROVE StepOK'
  BY <1>10 DEF Open, Goto, StepOK, W, JobOK, KeyJob, WordsJob, EndpointJob, ClearJob
<1>11. ASSUME Fill PROVE StepOK'
  BY <1>11 DEF Fill, Goto, StepOK, W, JobOK, KeyJob, WordsJob, EndpointJob, ClearJob
<1>12. ASSUME Restrict PROVE StepOK'
  BY <1>12 DEF Restrict, Goto, StepOK, W, JobOK, KeyJob, WordsJob, EndpointJob, ClearJob
<1>13. ASSUME NEW d \in Devices, Add(d) PROVE StepOK'
  BY <1>13 DEF Add, Save, Goto, StepOK, W
<1>14. ASSUME NEW d \in Devices, Revoke(d) PROVE StepOK'
  BY <1>14 DEF Revoke, Save, Goto, StepOK, W
<1>15. ASSUME NEW d \in Devices, TouchLastSeen(d) PROVE StepOK'
  BY <1>15 DEF TouchLastSeen, Save, Goto, StepOK, W
<1>16. ASSUME NEW o \in Rotations, RevokeAll(o) PROVE StepOK'
  BY <1>16 DEF RevokeAll, Save, Goto, StepOK, W
<1>17. ASSUME Stage PROVE StepOK'
  BY <1>17 DEF Stage, Goto, StepOK, W
<1>18. ASSUME Rename PROVE StepOK'
  BY <1>18 DEF Rename, Goto, StepOK, W
<1>19. ASSUME Commit PROVE StepOK'
  BY <1>19 DEF Commit, Goto, Generate, Numbered, StepOK, W, NoKey
<1>20. ASSUME Shutdown PROVE StepOK'
  BY <1>20 DEF Shutdown, Goto, Write, StepOK, W, JobOK, ClearJob
<1>21. ASSUME Crash PROVE StepOK'
  BY <1>21 DEF Crash, Goto, StepOK, W
<1>22. CASE UNCHANGED vars
  BY <1>22 DEF vars, memory, StepOK, JobOK, KeyJob, WordsJob, EndpointJob, ClearJob
<1>. QED
  BY <1>1, <1>2, <1>3, <1>4, <1>5, <1>6, <1>7, <1>8, <1>9, <1>10, <1>11, <1>12, <1>13, <1>14,
         <1>15, <1>16, <1>17, <1>18, <1>19, <1>20, <1>21, <1>22 DEF Next, Rotations

\* Every step keeps KeyKnown.
LEMMA KeyKnownStep ==
    ASSUME TypeOK, Numbered, StepOK, KeyKnown, [Next]_vars
    PROVE  KeyKnown'
<1>1. ASSUME Start PROVE KeyKnown'
  BY <1>1 DEF Start, LoadConfig, Goto, KeyKnown, HasKey, W
<1>2. ASSUME LoadKeys PROVE KeyKnown'
  <2>0. LoadKeysDoes
    BY <1>2, LoadKeysIs
  <2>1. CASE LoadsFromKeyring
    BY <2>0, <2>1, DiskConstants DEF LoadsFromKeyring, KeyKnown
  <2>2. CASE GeneratesForKeyring
    BY <2>0, <2>2, DiskConstants DEF GeneratesForKeyring, LoadKeysDoes, StepOK, KeyKnown,
           HasKey, W
  <2>3. CASE GeneratesForFile
    BY <2>0, <2>3, DiskConstants DEF GeneratesForFile, LoadKeysDoes, StepOK, KeyKnown, HasKey
  <2>4. CASE FindsTornFile
    BY <2>0, <2>4, DiskConstants DEF FindsTornFile, LoadKeysDoes, NoLoad, StepOK, KeyKnown,
           HasKey, W
  <2>5. CASE LoadsFromFile
    BY <2>0, <2>5, DiskConstants DEF LoadsFromFile, KeyKnown, NoKey
  <2>. QED
    BY <2>0, <2>1, <2>2, <2>3, <2>4, <2>5 DEF LoadKeysDoes
<1>3. ASSUME StoreKey PROVE KeyKnown'
  BY <1>3 DEF StoreKey, Answers, Goto, Write, KeyKnown, HasKey, W
<1>4. ASSUME Adopt PROVE KeyKnown'
  BY <1>4 DEF Adopt, StepOK, KeyKnown, HasKey
<1>5. ASSUME Unrotated PROVE KeyKnown'
  BY <1>5 DEF Unrotated, KeyKnown, HasKey
<1>6. ASSUME LoadWords PROVE KeyKnown'
  BY <1>6 DEF LoadWords, KeyKnown, HasKey
<1>7. ASSUME VerifyWords PROVE KeyKnown'
  BY <1>7 DEF VerifyWords, KeyKnown, HasKey
<1>8. ASSUME LoadList PROVE KeyKnown'
  BY <1>8 DEF LoadList, KeyKnown, HasKey
<1>9. ASSUME WriteEndpoint PROVE KeyKnown'
  BY <1>9 DEF WriteEndpoint, KeyKnown, HasKey
<1>10. ASSUME Open PROVE KeyKnown'
  BY <1>10 DEF Open, Goto, StepOK, KeyKnown, HasKey, WritesKey, W, JobOK, KeyJob, WordsJob,
         EndpointJob, ClearJob, Rotations
<1>11. ASSUME Fill PROVE KeyKnown'
  BY <1>11 DEF Fill, Goto, StepOK, KeyKnown, HasKey, WritesKey, W, JobOK, KeyJob, WordsJob,
         EndpointJob, ClearJob, Rotations
<1>12. ASSUME Restrict PROVE KeyKnown'
  BY <1>12 DEF Restrict, Goto, StepOK, KeyKnown, HasKey, WritesKey, W, JobOK, KeyJob, WordsJob,
         EndpointJob, ClearJob, Rotations
<1>13. ASSUME NEW d \in Devices, Add(d) PROVE KeyKnown'
  BY <1>13 DEF Add, Save, KeyKnown, HasKey
<1>14. ASSUME NEW d \in Devices, Revoke(d) PROVE KeyKnown'
  BY <1>14 DEF Revoke, Save, KeyKnown, HasKey
<1>15. ASSUME NEW d \in Devices, TouchLastSeen(d) PROVE KeyKnown'
  BY <1>15 DEF TouchLastSeen, Save, KeyKnown, HasKey
<1>16. ASSUME NEW o \in Rotations, RevokeAll(o) PROVE KeyKnown'
  BY <1>16 DEF RevokeAll, Save, KeyKnown, HasKey
<1>17. ASSUME Stage PROVE KeyKnown'
  BY <1>17 DEF Stage, KeyKnown, HasKey
<1>18. ASSUME Rename PROVE KeyKnown'
  BY <1>18 DEF Rename, KeyKnown, HasKey
<1>19. ASSUME Commit PROVE KeyKnown'
  BY <1>19 DEF Commit, KeyKnown, HasKey
<1>20. ASSUME Shutdown PROVE KeyKnown'
  BY <1>20 DEF Shutdown, KeyKnown, HasKey
<1>21. ASSUME Crash PROVE KeyKnown'
  BY <1>21 DEF Crash, Goto, KeyKnown, HasKey, WritesKey, W
<1>22. CASE UNCHANGED vars
  BY <1>22 DEF vars, memory, KeyKnown, HasKey, WritesKey
<1>. QED
  BY <1>1, <1>2, <1>3, <1>4, <1>5, <1>6, <1>7, <1>8, <1>9, <1>10, <1>11, <1>12, <1>13, <1>14,
         <1>15, <1>16, <1>17, <1>18, <1>19, <1>20, <1>21, <1>22 DEF Next, Rotations

\* Every step keeps ListKnown.
LEMMA ListKnownStep ==
    ASSUME TypeOK, StepOK, ListKnown, [Next]_vars
    PROVE  ListKnown'
<1>1. ASSUME Start PROVE ListKnown'
  BY <1>1 DEF Start, LoadConfig, Goto, NoJob, ListKnown, HasList
<1>2. ASSUME LoadKeys PROVE ListKnown'
  BY <1>2 DEF LoadKeys, Goto, FallbackLoad, Write, AfterLoad, NoLoad, disk, StepOK, ListKnown,
         HasList, W
<1>3. ASSUME StoreKey PROVE ListKnown'
  BY <1>3 DEF StoreKey, Answers, Goto, Write, ListKnown, HasList, W
<1>4. ASSUME Adopt PROVE ListKnown'
  BY <1>4 DEF Adopt, Goto, AfterLoad, disk, ListKnown, HasList, W
<1>5. ASSUME Unrotated PROVE ListKnown'
  BY <1>5 DEF Unrotated, Goto, disk, ListKnown, HasList
<1>6. ASSUME LoadWords PROVE ListKnown'
  BY <1>6 DEF LoadWords, Goto, Write, ListKnown, HasList, WritesKey, W
<1>7. ASSUME VerifyWords PROVE ListKnown'
  BY <1>7 DEF VerifyWords, Goto, ListKnown, HasList, WritesKey, W
<1>8. ASSUME LoadList PROVE ListKnown'
  BY <1>8 DEF LoadList, Goto, disk, ListKnown, HasList, WritesKey, W
<1>9. ASSUME WriteEndpoint PROVE ListKnown'
  BY <1>9 DEF WriteEndpoint, Goto, Write, disk, ListKnown, HasList
<1>10. ASSUME Open PROVE ListKnown'
  BY <1>10 DEF Open, Goto, StepOK, ListKnown, HasList, WritesKey, W, JobOK, KeyJob, WordsJob,
         EndpointJob, ClearJob, Rotations
<1>11. ASSUME Fill PROVE ListKnown'
  BY <1>11 DEF Fill, Goto, StepOK, ListKnown, HasList, WritesKey, W, JobOK, KeyJob, WordsJob,
         EndpointJob, ClearJob, Rotations
<1>12. ASSUME Restrict PROVE ListKnown'
  BY <1>12 DEF Restrict, Goto, disk, StepOK, ListKnown, HasList, WritesKey, W, JobOK, KeyJob,
         WordsJob, EndpointJob, ClearJob, Rotations
<1>13. ASSUME NEW d \in Devices, Add(d) PROVE ListKnown'
  BY <1>13 DEF Add, Save, Goto, disk, ListKnown, HasList
<1>14. ASSUME NEW d \in Devices, Revoke(d) PROVE ListKnown'
  BY <1>14 DEF Revoke, Save, Goto, disk, ListKnown, HasList
<1>15. ASSUME NEW d \in Devices, TouchLastSeen(d) PROVE ListKnown'
  BY <1>15 DEF TouchLastSeen, Save, Goto, disk, ListKnown, HasList
<1>16. ASSUME NEW o \in Rotations, RevokeAll(o) PROVE ListKnown'
  BY <1>16 DEF RevokeAll, Save, Goto, disk, ListKnown, HasList
<1>17. ASSUME Stage PROVE ListKnown'
  BY <1>17 DEF Stage, Goto, disk, ListKnown, HasList
<1>18. ASSUME Rename PROVE ListKnown'
  BY <1>18 DEF Rename, Goto, ListKnown, HasList, WritesKey, W
<1>19. ASSUME Commit PROVE ListKnown'
  BY <1>19 DEF Commit, disk, ListKnown
<1>20. ASSUME Shutdown PROVE ListKnown'
  BY <1>20 DEF Shutdown, Goto, Write, disk, ListKnown, HasList
<1>21. ASSUME Crash PROVE ListKnown'
  BY <1>21 DEF Crash, Goto, ListKnown, HasList, WritesKey, W
<1>22. CASE UNCHANGED vars
  BY <1>22 DEF vars, disk, memory, ListKnown, HasList, WritesKey
<1>. QED
  BY <1>1, <1>2, <1>3, <1>4, <1>5, <1>6, <1>7, <1>8, <1>9, <1>10, <1>11, <1>12, <1>13, <1>14,
         <1>15, <1>16, <1>17, <1>18, <1>19, <1>20, <1>21, <1>22 DEF Next, Rotations

\* Every step keeps NoneRevoked.
LEMMA NoneRevokedStep ==
    ASSUME TypeOK, Numbered, StepOK, ListKnown, NoneRevoked, [Next]_vars
    PROVE  NoneRevoked'
<1>1. ASSUME Start PROVE NoneRevoked'
  BY <1>1 DEF Start, disk, NoneRevoked, RevokedStaysRevoked, Ids
<1>2. ASSUME LoadKeys PROVE NoneRevoked'
  BY <1>2 DEF LoadKeys, Goto, FallbackLoad, Write, AfterLoad, NoLoad, disk, NoneRevoked,
         RevokedStaysRevoked
<1>3. ASSUME StoreKey PROVE NoneRevoked'
  BY <1>3 DEF StoreKey, Answers, Goto, Write, history, NoneRevoked, RevokedStaysRevoked
<1>4. ASSUME Adopt PROVE NoneRevoked'
  BY <1>4 DEF Adopt, Goto, AfterLoad, disk, NoneRevoked, RevokedStaysRevoked
<1>5. ASSUME Unrotated PROVE NoneRevoked'
  BY <1>5 DEF Unrotated, Goto, disk, NoneRevoked, RevokedStaysRevoked
<1>6. ASSUME LoadWords PROVE NoneRevoked'
  BY <1>6 DEF LoadWords, Goto, Write, disk, history, NoneRevoked, RevokedStaysRevoked
<1>7. ASSUME VerifyWords PROVE NoneRevoked'
  BY <1>7 DEF VerifyWords, Goto, disk, history, NoneRevoked, RevokedStaysRevoked
<1>8. ASSUME LoadList PROVE NoneRevoked'
  BY <1>8 DEF LoadList, Goto, disk, history, NoneRevoked, RevokedStaysRevoked
<1>9. ASSUME WriteEndpoint PROVE NoneRevoked'
  BY <1>9 DEF WriteEndpoint, Goto, Write, disk, history, NoneRevoked, RevokedStaysRevoked
<1>10. ASSUME Open PROVE NoneRevoked'
  <2>0. OpenDoes
    BY <1>10, OpenIs
  <2>1. CASE KeyJob
    BY <2>0, <2>1 DEF KeyJob, OpenDoes, NoneRevoked, RevokedStaysRevoked
  <2>2. CASE WordsJob
    BY <2>0, <2>2 DEF WordsJob, OpenDoes, NoneRevoked, RevokedStaysRevoked
  <2>3. CASE EndpointJob
    BY <2>0, <2>3 DEF EndpointJob, OpenDoes, NoneRevoked, RevokedStaysRevoked
  <2>4. CASE ClearJob
    BY <2>0, <2>4 DEF ClearJob, OpenDoes, NoneRevoked, RevokedStaysRevoked
  <2>. QED
    BY <2>0, <2>1, <2>2, <2>3, <2>4 DEF OpenDoes, JobOK
<1>11. ASSUME Fill PROVE NoneRevoked'
  <2>0. FillDoes
    BY <1>11, FillIs
  <2>1. CASE KeyJob
    BY <2>0, <2>1 DEF KeyJob, FillDoes, NoneRevoked, RevokedStaysRevoked
  <2>2. CASE WordsJob
    BY <2>0, <2>2 DEF WordsJob, FillDoes, NoneRevoked, RevokedStaysRevoked
  <2>3. CASE EndpointJob
    BY <2>0, <2>3 DEF EndpointJob, FillDoes, NoneRevoked, RevokedStaysRevoked
  <2>4. CASE ClearJob
    BY <2>0, <2>4 DEF ClearJob, FillDoes, NoneRevoked, RevokedStaysRevoked
  <2>. QED
    BY <2>0, <2>1, <2>2, <2>3, <2>4 DEF FillDoes, JobOK
<1>12. ASSUME Restrict PROVE NoneRevoked'
  <2>0. RestrictDoes
    BY <1>12, RestrictIs
  <2>1. CASE KeyJob
    BY <2>0, <2>1 DEF KeyJob, RestrictDoes, NoneRevoked, RevokedStaysRevoked
  <2>2. CASE WordsJob
    BY <2>0, <2>2 DEF WordsJob, RestrictDoes, NoneRevoked, RevokedStaysRevoked
  <2>3. CASE EndpointJob
    BY <2>0, <2>3 DEF EndpointJob, RestrictDoes, NoneRevoked, RevokedStaysRevoked
  <2>4. CASE ClearJob
    BY <2>0, <2>4 DEF ClearJob, RestrictDoes, NoneRevoked, RevokedStaysRevoked
  <2>. QED
    BY <2>0, <2>1, <2>2, <2>3, <2>4 DEF RestrictDoes, JobOK
<1>13. ASSUME NEW d \in Devices, Add(d) PROVE NoneRevoked'
  BY <1>13 DEF Add, Save, Others, disk, Numbered, NoneRevoked, RevokedStaysRevoked, Ids
<1>14. ASSUME NEW d \in Devices, Revoke(d) PROVE NoneRevoked'
  BY <1>14 DEF Revoke, Save, Others, disk, history, NoneRevoked, RevokedStaysRevoked, Ids
<1>15. ASSUME NEW d \in Devices, TouchLastSeen(d) PROVE NoneRevoked'
  <2>1. Ids(staged') \subseteq Ids(store)
    BY <1>15, TouchedList DEF Ids
  <2>. QED
    BY <1>15, <2>1 DEF TouchLastSeen, Save, disk, NoneRevoked, RevokedStaysRevoked
<1>16. ASSUME NEW o \in Rotations, RevokeAll(o) PROVE NoneRevoked'
  BY <1>16 DEF RevokeAll, Save, disk, history, NoneRevoked, RevokedStaysRevoked, Ids
<1>17. ASSUME Stage PROVE NoneRevoked'
  BY <1>17 DEF Stage, disk, history, NoneRevoked, RevokedStaysRevoked
<1>18. ASSUME Rename PROVE NoneRevoked'
  BY <1>18 DEF Rename, history, NoneRevoked, RevokedStaysRevoked
<1>19. ASSUME Commit PROVE NoneRevoked'
  BY <1>19 DEF Commit, disk, ListKnown, NoneRevoked, RevokedStaysRevoked
<1>20. ASSUME Shutdown PROVE NoneRevoked'
  BY <1>20 DEF Shutdown, Goto, Write, disk, history, NoneRevoked, RevokedStaysRevoked
<1>21. ASSUME Crash PROVE NoneRevoked'
  BY <1>21 DEF Crash, Goto, disk, history, NoneRevoked, RevokedStaysRevoked
<1>22. CASE UNCHANGED vars
  BY <1>22 DEF vars, disk, memory, history, NoneRevoked, RevokedStaysRevoked
<1>. QED
  BY <1>1, <1>2, <1>3, <1>4, <1>5, <1>6, <1>7, <1>8, <1>9, <1>10, <1>11, <1>12, <1>13, <1>14,
         <1>15, <1>16, <1>17, <1>18, <1>19, <1>20, <1>21, <1>22 DEF Next, Rotations

\* Every step keeps ListedKeys.
LEMMA ListedKeysStep ==
    ASSUME KeyFaults = {}, TypeOK, Numbered, StepOK, KeyKnown, ListKnown, ListedKeys, KeyOnDisk, KeyIsLive, [Next]_vars
    PROVE  ListedKeys'
<1>1. ASSUME Start PROVE ListedKeys'
  BY <1>1 DEF Start, LoadConfig, Goto, NoJob, disk, ListedKeys, WritesKey, Rekeying, CouldLoad
<1>2. ASSUME LoadKeys PROVE ListedKeys'
  <2>0. LoadKeysDoes
    BY <1>2, LoadKeysIs
  <2>a. list \subseteq Entries /\ \A e \in Entries : e.key \in 1..MaxKeys
    BY DEF TypeOK, Entries, Keys
  <2>b. usesKeyring /\ keyring = NoKey => list = {}
    BY <2>a, DiskConstants DEF ListedKeys, CouldLoad, NoKey
  <2>c. \A k \in 1..MaxKeys : Missing # KeyOf(k) /\ Missing # Torn
    BY DEF Missing, KeyOf, Torn
  <2>d. ~usesKeyring /\ file["key"] = Missing => list = {}
    BY <2>a, <2>c DEF ListedKeys, CouldLoad
  <2>1. CASE LoadsFromKeyring
    BY <2>0, <2>1, DiskConstants DEF LoadsFromKeyring, LoadKeysDoes, AfterLoad, StepOK,
           ListKnown, ListedKeys, HasList, WritesKey, W, Rekeying, CouldLoad
  <2>2. CASE GeneratesForKeyring
    BY <2>0, <2>b, <2>d, <2>2, DiskConstants DEF GeneratesForKeyring, LoadKeysDoes, StepOK,
           ListedKeys, HasList, W
  <2>3. CASE GeneratesForFile
    BY <2>0, <2>b, <2>d, <2>3, DiskConstants DEF GeneratesForFile, LoadKeysDoes, StepOK,
           ListedKeys, HasList
  <2>4. CASE FindsTornFile
    BY <2>0, <2>4, DiskConstants DEF FindsTornFile, LoadKeysDoes, NoLoad, StepOK, ListedKeys,
           HasList, WritesKey, W, Rekeying, CouldLoad
  <2>5. CASE LoadsFromFile
    BY <2>0, <2>5, DiskConstants DEF LoadsFromFile, LoadKeysDoes, AfterLoad, StepOK, ListKnown,
           ListedKeys, HasList, WritesKey, W, Rekeying, CouldLoad
  <2>. QED
    BY <2>0, <2>1, <2>2, <2>3, <2>4, <2>5 DEF LoadKeysDoes
<1>3. ASSUME StoreKey PROVE ListedKeys'
  BY <1>3 DEF StoreKey, Answers, Goto, Write, ListedKeys, HasList, W, Rekeying
<1>4. ASSUME Adopt PROVE ListedKeys'
  BY <1>4 DEF Adopt, Goto, AfterLoad, disk, ListKnown, ListedKeys, HasList, W, Rekeying
<1>5. ASSUME Unrotated PROVE ListedKeys'
  BY <1>5 DEF Unrotated, Goto, disk, ListedKeys, HasList, Rekeying
<1>6. ASSUME LoadWords PROVE ListedKeys'
  BY <1>6 DEF LoadWords, Goto, Write, disk, ListedKeys, HasList, WritesKey, W, Rekeying,
         CouldLoad
<1>7. ASSUME VerifyWords PROVE ListedKeys'
  BY <1>7 DEF VerifyWords, Goto, disk, ListedKeys, HasList, WritesKey, W, Rekeying, CouldLoad
<1>8. ASSUME LoadList PROVE ListedKeys'
  BY <1>8 DEF LoadList, Goto, disk, ListedKeys, KeyOnDisk, HasList, WritesKey, W, Rekeying,
         CouldLoad, Loads, KeyOf, Torn
<1>9. ASSUME WriteEndpoint PROVE ListedKeys'
  BY <1>9 DEF WriteEndpoint, Goto, Write, disk, ListedKeys, HasList, WritesKey, W, Rekeying,
         CouldLoad
<1>10. ASSUME Open PROVE ListedKeys'
  <2>0. OpenDoes
    BY <1>10, OpenIs
  <2>1. CASE KeyJob
    BY <2>0, <2>1 DEF KeyJob, OpenDoes, ListedKeys, HasList, WritesKey, W, Rotations, Rekeying
  <2>2. CASE WordsJob
    BY <2>0, <2>2 DEF WordsJob, OpenDoes, ListedKeys, HasList, WritesKey, Rekeying, CouldLoad,
           Files
  <2>3. CASE EndpointJob
    BY <2>0, <2>3 DEF EndpointJob, OpenDoes, ListedKeys, HasList, WritesKey, W, Rekeying,
           CouldLoad, Files
  <2>4. CASE ClearJob
    BY <2>0, <2>4 DEF ClearJob, OpenDoes, ListedKeys, HasList, WritesKey, W, Rekeying,
           CouldLoad, Files
  <2>. QED
    BY <2>0, <2>1, <2>2, <2>3, <2>4 DEF OpenDoes, JobOK
<1>11. ASSUME Fill PROVE ListedKeys'
  <2>0. FillDoes
    BY <1>11, FillIs
  <2>1. CASE KeyJob
    BY <2>0, <2>1 DEF KeyJob, FillDoes, ListedKeys, HasList, WritesKey, W, Rotations, Rekeying
  <2>2. CASE WordsJob
    BY <2>0, <2>2 DEF WordsJob, FillDoes, ListedKeys, HasList, WritesKey, Rekeying, CouldLoad,
           Files
  <2>3. CASE EndpointJob
    BY <2>0, <2>3 DEF EndpointJob, FillDoes, ListedKeys, HasList, WritesKey, W, Rekeying,
           CouldLoad, Files
  <2>4. CASE ClearJob
    BY <2>0, <2>4 DEF ClearJob, FillDoes, ListedKeys, HasList, WritesKey, W, Rekeying,
           CouldLoad, Files
  <2>. QED
    BY <2>0, <2>1, <2>2, <2>3, <2>4 DEF FillDoes, JobOK
<1>12. ASSUME Restrict PROVE ListedKeys'
  BY <1>12 DEF Restrict, Goto, disk, StepOK, ListedKeys, HasList, WritesKey, W, JobOK, KeyJob,
         WordsJob, EndpointJob, ClearJob, Rekeying, CouldLoad
<1>13. ASSUME NEW d \in Devices, Add(d) PROVE ListedKeys'
  BY <1>13 DEF Add, Save, Others, Goto, disk, ListedKeys, HasList, WritesKey, W, Rotations,
         Rekeying, CouldLoad
<1>14. ASSUME NEW d \in Devices, Revoke(d) PROVE ListedKeys'
  BY <1>14 DEF Revoke, Save, Others, Goto, disk, ListedKeys, HasList, WritesKey, W, Rotations,
         Rekeying, CouldLoad
<1>15. ASSUME NEW d \in Devices, TouchLastSeen(d) PROVE ListedKeys'
  BY <1>15, TouchedList, DiskConstants DEF TouchLastSeen, Save, Goto, disk, TypeOK, Numbered,
         StepOK, KeyKnown, ListKnown, ListedKeys, KeyOnDisk, KeyIsLive, HasList, HasKey,
         WritesKey, W, JobOK, KeyJob, WordsJob, EndpointJob, ClearJob, Rotations, Rekeying,
         KeyWritten, CouldLoad, Loads, NoKey, KeyOf, Missing, Torn
<1>16. ASSUME NEW o \in Rotations, RevokeAll(o) PROVE ListedKeys'
  BY <1>16 DEF RevokeAll, Save, Goto, disk, ListedKeys, HasList, WritesKey, W, Rekeying,
         CouldLoad
<1>17. ASSUME Stage PROVE ListedKeys'
  BY <1>17 DEF Stage, Goto, disk, ListedKeys, HasList, WritesKey, W, Rekeying, CouldLoad
<1>18. ASSUME Rename PROVE ListedKeys'
  BY <1>18 DEF Rename, Goto, ListedKeys, KeyOnDisk, HasList, HasKey, WritesKey, W, Rekeying,
         KeyWritten, CouldLoad
<1>19. ASSUME Commit PROVE ListedKeys'
  BY <1>19 DEF Commit, Goto, disk, StepOK, ListKnown, ListedKeys, WritesKey, W, Rekeying,
         CouldLoad
<1>20. ASSUME Shutdown PROVE ListedKeys'
  BY <1>20 DEF Shutdown, Goto, Write, disk, ListedKeys, HasList, WritesKey, W, Rekeying,
         CouldLoad
<1>21. ASSUME Crash PROVE ListedKeys'
  BY <1>21 DEF Crash, Goto, disk, ListedKeys, HasList, WritesKey, W, Rekeying, CouldLoad
<1>22. CASE UNCHANGED vars
  BY <1>22 DEF vars, disk, memory, ListedKeys, HasList, WritesKey, Rekeying, CouldLoad
<1>. QED
  BY <1>1, <1>2, <1>3, <1>4, <1>5, <1>6, <1>7, <1>8, <1>9, <1>10, <1>11, <1>12, <1>13, <1>14,
         <1>15, <1>16, <1>17, <1>18, <1>19, <1>20, <1>21, <1>22 DEF Next, Rotations

\* Every step keeps KeyOnDisk.
LEMMA KeyOnDiskStep ==
    ASSUME KeyFaults = {}, TypeOK, Numbered, StepOK, KeyKnown, ListedKeys, KeyOnDisk, KeyIsLive, [Next]_vars
    PROVE  KeyOnDisk'
<1>1. ASSUME Start PROVE KeyOnDisk'
  BY <1>1 DEF Start, LoadConfig, Goto, KeyOnDisk, HasKey, WritesKey, W, KeyWritten
<1>2. ASSUME LoadKeys PROVE KeyOnDisk'
  BY <1>2 DEF LoadKeys, Answers, Goto, FallbackLoad, FallbackMissing, Write, AfterLoad, NoLoad,
         disk, Numbered, StepOK, KeyOnDisk, KeyIsLive, HasKey, WritesKey, W, Rekeying,
         KeyWritten, CouldLoad, Loads, KeyOf, Missing
<1>3. ASSUME StoreKey PROVE KeyOnDisk'
  BY <1>3 DEF StoreKey, Answers, Goto, Write, KeyOnDisk, HasKey, WritesKey, W, KeyWritten,
         CouldLoad, Loads
<1>4. ASSUME Adopt PROVE KeyOnDisk'
  BY <1>4 DEF Adopt, Goto, AfterLoad, disk, KeyOnDisk, WritesKey, W, KeyWritten, CouldLoad,
         Loads
<1>5. ASSUME Unrotated PROVE KeyOnDisk'
  BY <1>5 DEF Unrotated, Goto, disk, KeyOnDisk, HasKey, WritesKey, W, KeyWritten, CouldLoad
<1>6. ASSUME LoadWords PROVE KeyOnDisk'
  BY <1>6 DEF LoadWords, Goto, Write, disk, KeyOnDisk, WritesKey, W, KeyWritten, CouldLoad,
         Loads
<1>7. ASSUME VerifyWords PROVE KeyOnDisk'
  BY <1>7 DEF VerifyWords, Goto, disk, KeyOnDisk, WritesKey, W, KeyWritten, CouldLoad, Loads
<1>8. ASSUME LoadList PROVE KeyOnDisk'
  BY <1>8 DEF LoadList, Goto, disk, KeyOnDisk, HasKey, WritesKey, W, KeyWritten, CouldLoad
<1>9. ASSUME WriteEndpoint PROVE KeyOnDisk'
  BY <1>9 DEF WriteEndpoint, Goto, Write, disk, KeyOnDisk, HasKey, WritesKey, W, KeyWritten,
         CouldLoad
<1>10. ASSUME Open PROVE KeyOnDisk'
  <2>0. OpenDoes
    BY <1>10, OpenIs
  <2>1. CASE KeyJob
    BY <2>0, <2>1 DEF KeyJob, OpenDoes, KeyOnDisk, HasKey, WritesKey, W, Rotations, KeyWritten,
           CouldLoad
  <2>2. CASE WordsJob
    BY <2>0, <2>2 DEF WordsJob, OpenDoes, KeyOnDisk, WritesKey, W, KeyWritten, CouldLoad,
           Loads, Files
  <2>3. CASE EndpointJob
    BY <2>0, <2>3 DEF EndpointJob, OpenDoes, KeyOnDisk, HasKey, WritesKey, W, KeyWritten,
           CouldLoad, Files
  <2>4. CASE ClearJob
    BY <2>0, <2>4 DEF ClearJob, OpenDoes, KeyOnDisk, HasKey, WritesKey, W, KeyWritten,
           CouldLoad, Files
  <2>. QED
    BY <2>0, <2>1, <2>2, <2>3, <2>4 DEF OpenDoes, JobOK
<1>11. ASSUME Fill PROVE KeyOnDisk'
  <2>0. FillDoes
    BY <1>11, FillIs
  <2>1. CASE KeyJob
    BY <2>0, <2>1 DEF KeyJob, FillDoes, KeyOnDisk, HasKey, WritesKey, W, Rotations, KeyWritten,
           CouldLoad, Loads
  <2>2. CASE WordsJob
    BY <2>0, <2>2 DEF WordsJob, FillDoes, KeyOnDisk, WritesKey, W, KeyWritten, CouldLoad,
           Loads, Files
  <2>3. CASE EndpointJob
    BY <2>0, <2>3 DEF EndpointJob, FillDoes, KeyOnDisk, HasKey, WritesKey, W, KeyWritten,
           CouldLoad, Files
  <2>4. CASE ClearJob
    BY <2>0, <2>4 DEF ClearJob, FillDoes, KeyOnDisk, HasKey, WritesKey, W, KeyWritten,
           CouldLoad, Files
  <2>. QED
    BY <2>0, <2>1, <2>2, <2>3, <2>4 DEF FillDoes, JobOK
<1>12. ASSUME Restrict PROVE KeyOnDisk'
  BY <1>12 DEF Restrict, Goto, disk, StepOK, KeyOnDisk, HasKey, WritesKey, W, JobOK, KeyJob,
         WordsJob, EndpointJob, ClearJob, KeyWritten, CouldLoad, Loads
<1>13. ASSUME NEW d \in Devices, Add(d) PROVE KeyOnDisk'
  BY <1>13 DEF Add, Save, Goto, disk, KeyOnDisk, HasKey, WritesKey, W, KeyWritten, CouldLoad
<1>14. ASSUME NEW d \in Devices, Revoke(d) PROVE KeyOnDisk'
  BY <1>14 DEF Revoke, Save, Goto, disk, KeyOnDisk, HasKey, WritesKey, W, KeyWritten, CouldLoad
<1>15. ASSUME NEW d \in Devices, TouchLastSeen(d) PROVE KeyOnDisk'
  BY <1>15 DEF TouchLastSeen, Save, Goto, disk, KeyOnDisk, HasKey, WritesKey, W, KeyWritten,
         CouldLoad
<1>16. ASSUME NEW o \in Rotations, RevokeAll(o) PROVE KeyOnDisk'
  BY <1>16 DEF RevokeAll, Save, Goto, disk, KeyOnDisk, HasKey, WritesKey, W, KeyWritten,
         CouldLoad
<1>17. ASSUME Stage PROVE KeyOnDisk'
  BY <1>17 DEF Stage, Goto, disk, KeyOnDisk, HasKey, WritesKey, W, KeyWritten, CouldLoad
<1>18. ASSUME Rename PROVE KeyOnDisk'
  BY <1>18 DEF Rename, Goto, KeyOnDisk, HasKey, WritesKey, W, KeyWritten, CouldLoad
<1>19. ASSUME Commit PROVE KeyOnDisk'
  BY <1>19 DEF Commit, Goto, disk, KeyOnDisk, HasKey, WritesKey, W, KeyWritten, CouldLoad
<1>20. ASSUME Shutdown PROVE KeyOnDisk'
  BY <1>20 DEF Shutdown, Goto, Write, disk, KeyOnDisk, HasKey, WritesKey, W, KeyWritten,
         CouldLoad
<1>21. ASSUME Crash PROVE KeyOnDisk'
  BY <1>21 DEF Crash, Goto, KeyOnDisk, HasKey, WritesKey, W, KeyWritten
<1>22. CASE UNCHANGED vars
  BY <1>22 DEF vars, disk, memory, KeyOnDisk, HasKey, WritesKey, KeyWritten, CouldLoad, Loads
<1>. QED
  BY <1>1, <1>2, <1>3, <1>4, <1>5, <1>6, <1>7, <1>8, <1>9, <1>10, <1>11, <1>12, <1>13, <1>14,
         <1>15, <1>16, <1>17, <1>18, <1>19, <1>20, <1>21, <1>22 DEF Next, Rotations

\* Every step keeps KeyIsLive.
LEMMA KeyIsLiveStep ==
    ASSUME KeyFaults = {}, TypeOK, Numbered, StepOK, KeyKnown, KeyOnDisk, KeyIsLive, [Next]_vars
    PROVE  KeyIsLive'
<1>1. ASSUME Start PROVE KeyIsLive'
  BY <1>1 DEF Start, LoadConfig, Goto, disk, KeyIsLive, HasKey, WritesKey, W, Rekeying, Loads
<1>2. ASSUME LoadKeys PROVE KeyIsLive'
  <2>0. LoadKeysDoes
    BY <1>2, LoadKeysIs
  <2>1. CASE LoadsFromKeyring
    BY <2>0, <2>1, DiskConstants DEF LoadsFromKeyring, LoadKeysDoes, Generate, AfterLoad,
           NoLoad, TypeOK, Numbered, StepOK, KeyKnown, KeyOnDisk, KeyIsLive, HasKey, WritesKey,
           W, JobOK, KeyJob, WordsJob, EndpointJob, ClearJob, Rotations, Rekeying, KeyWritten,
           Loads, NoKey, KeyOf, Missing, Torn
  <2>2. CASE GeneratesForKeyring
    BY <2>0, <2>2, DiskConstants DEF GeneratesForKeyring, LoadKeysDoes, Generate, Numbered,
           StepOK, KeyOnDisk, KeyIsLive, HasKey, W, Rekeying, KeyWritten, Loads
  <2>3. CASE GeneratesForFile
    BY <2>0, <2>3, DiskConstants DEF GeneratesForFile, LoadKeysDoes, Generate, Numbered,
           StepOK, KeyOnDisk, KeyIsLive, HasKey, KeyWritten, Loads, NoKey, KeyOf, Missing
  <2>4. CASE FindsTornFile
    BY <2>0, <2>4, DiskConstants DEF FindsTornFile, LoadKeysDoes, NoLoad, StepOK, KeyOnDisk,
           KeyIsLive, HasKey, WritesKey, W, Rekeying, KeyWritten, Loads, KeyOf, Torn
  <2>5. CASE LoadsFromFile
    BY <2>0, <2>5, DiskConstants DEF LoadsFromFile, LoadKeysDoes, AfterLoad, KeyIsLive,
           WritesKey, W, Rekeying, Loads
  <2>. QED
    BY <2>0, <2>1, <2>2, <2>3, <2>4, <2>5 DEF LoadKeysDoes
<1>3. ASSUME StoreKey PROVE KeyIsLive'
  BY <1>3 DEF StoreKey, Answers, Goto, Write, history, KeyIsLive, HasKey, W, Rekeying, Loads
<1>4. ASSUME Adopt PROVE KeyIsLive'
  BY <1>4 DEF Adopt, Goto, AfterLoad, disk, KeyOnDisk, KeyIsLive, WritesKey, W, Rekeying,
         KeyWritten, Loads, KeyOf
<1>5. ASSUME Unrotated PROVE KeyIsLive'
  BY <1>5 DEF Unrotated, Goto, disk, KeyIsLive, HasKey, WritesKey, W, Rekeying, Loads
<1>6. ASSUME LoadWords PROVE KeyIsLive'
  BY <1>6 DEF LoadWords, Goto, Write, disk, history, KeyIsLive, HasKey, WritesKey, W, Rekeying,
         Loads
<1>7. ASSUME VerifyWords PROVE KeyIsLive'
  BY <1>7 DEF VerifyWords, Goto, disk, history, KeyIsLive, HasKey, WritesKey, W, Rekeying, Loads
<1>8. ASSUME LoadList PROVE KeyIsLive'
  BY <1>8 DEF LoadList, Goto, disk, history, KeyIsLive, HasKey, WritesKey, W, Rekeying, Loads
<1>9. ASSUME WriteEndpoint PROVE KeyIsLive'
  BY <1>9 DEF WriteEndpoint, Goto, Write, disk, history, KeyIsLive, HasKey, WritesKey, W,
         Rekeying, Loads
<1>10. ASSUME Open PROVE KeyIsLive'
  <2>0. OpenDoes
    BY <1>10, OpenIs
  <2>1. CASE KeyJob
    BY <2>0, <2>1 DEF KeyJob, OpenDoes, KeyIsLive, HasKey, WritesKey, W, Rotations, Rekeying,
           Loads, KeyOf, Torn
  <2>2. CASE WordsJob
    BY <2>0, <2>2 DEF WordsJob, OpenDoes, KeyIsLive, HasKey, WritesKey, W, Rekeying, Loads,
           Files
  <2>3. CASE EndpointJob
    BY <2>0, <2>3 DEF EndpointJob, OpenDoes, KeyIsLive, HasKey, WritesKey, W, Rekeying, Loads,
           Files
  <2>4. CASE ClearJob
    BY <2>0, <2>4 DEF ClearJob, OpenDoes, KeyIsLive, HasKey, WritesKey, W, Rekeying, Loads,
           Files
  <2>. QED
    BY <2>0, <2>1, <2>2, <2>3, <2>4 DEF OpenDoes, JobOK
<1>11. ASSUME Fill PROVE KeyIsLive'
  <2>0. FillDoes
    BY <1>11, FillIs
  <2>1. CASE KeyJob
    BY <2>0, <2>1 DEF KeyJob, FillDoes, KeyIsLive, HasKey, WritesKey, W, Rotations, Rekeying,
           Loads, KeyOf
  <2>2. CASE WordsJob
    BY <2>0, <2>2 DEF WordsJob, FillDoes, KeyIsLive, HasKey, WritesKey, W, Rekeying, Loads,
           Files
  <2>3. CASE EndpointJob
    BY <2>0, <2>3 DEF EndpointJob, FillDoes, KeyIsLive, HasKey, WritesKey, W, Rekeying, Loads,
           Files
  <2>4. CASE ClearJob
    BY <2>0, <2>4 DEF ClearJob, FillDoes, KeyIsLive, HasKey, WritesKey, W, Rekeying, Loads,
           Files
  <2>. QED
    BY <2>0, <2>1, <2>2, <2>3, <2>4 DEF FillDoes, JobOK
<1>12. ASSUME Restrict PROVE KeyIsLive'
  BY <1>12 DEF Restrict, Goto, disk, history, StepOK, KeyIsLive, HasKey, WritesKey, W, JobOK,
         KeyJob, WordsJob, EndpointJob, ClearJob, Rekeying, Loads
<1>13. ASSUME NEW d \in Devices, Add(d) PROVE KeyIsLive'
  BY <1>13 DEF Add, Save, Goto, disk, KeyIsLive, HasKey, WritesKey, W, Rekeying, Loads
<1>14. ASSUME NEW d \in Devices, Revoke(d) PROVE KeyIsLive'
  BY <1>14 DEF Revoke, Save, Goto, disk, history, KeyIsLive, HasKey, WritesKey, W, Rekeying,
         Loads
<1>15. ASSUME NEW d \in Devices, TouchLastSeen(d) PROVE KeyIsLive'
  BY <1>15 DEF TouchLastSeen, Save, Goto, disk, KeyIsLive, HasKey, WritesKey, W, Rekeying, Loads
<1>16. ASSUME NEW o \in Rotations, RevokeAll(o) PROVE KeyIsLive'
  BY <1>16 DEF RevokeAll, Save, Goto, disk, history, KeyIsLive, HasKey, WritesKey, W,
         Rotations, Rekeying, Loads
<1>17. ASSUME Stage PROVE KeyIsLive'
  BY <1>17 DEF Stage, Goto, disk, history, KeyIsLive, HasKey, WritesKey, W, Rekeying, Loads
<1>18. ASSUME Rename PROVE KeyIsLive'
  BY <1>18 DEF Rename, Goto, history, KeyIsLive, HasKey, WritesKey, W, Rekeying, Loads
<1>19. ASSUME Commit PROVE KeyIsLive'
  BY <1>19 DEF Commit, Goto, Generate, disk, Numbered, KeyIsLive, HasKey, WritesKey, W,
         Rekeying, Loads, NoKey
<1>20. ASSUME Shutdown PROVE KeyIsLive'
  BY <1>20 DEF Shutdown, Goto, Write, disk, history, KeyIsLive, HasKey, WritesKey, W, Rekeying,
         Loads
<1>21. ASSUME Crash PROVE KeyIsLive'
  BY <1>21 DEF Crash, Goto, disk, history, KeyIsLive, HasKey, WritesKey, W, Rekeying, Loads
<1>22. CASE UNCHANGED vars
  BY <1>22 DEF vars, disk, memory, history, KeyIsLive, HasKey, WritesKey, Rekeying, Loads
<1>. QED
  BY <1>1, <1>2, <1>3, <1>4, <1>5, <1>6, <1>7, <1>8, <1>9, <1>10, <1>11, <1>12, <1>13, <1>14,
         <1>15, <1>16, <1>17, <1>18, <1>19, <1>20, <1>21, <1>22 DEF Next, Rotations

-----------------------------------------------------------------------------
(* The theorems.                                                           *)

\* The disk is empty and the process is down.
LEMMA DiskInit == Init => DiskInv
<1> SUFFICES ASSUME Init PROVE DiskInv
  OBVIOUS
<1>1. TypeOK
  BY DiskConstants DEF Init, TypeOK, Steps, Content, Bytes, Missing
<1>2. Numbered
  BY DiskConstants DEF Init, Numbered, NoKey, Files
<1>3. StepOK /\ KeyKnown /\ ListKnown
  BY DEF Init, StepOK, W, KeyKnown, HasKey, WritesKey, ListKnown
<1>4. NoneRevoked
  BY DEF Init, NoneRevoked, RevokedStaysRevoked
<1>. QED
  BY <1>1, <1>2, <1>3, <1>4 DEF DiskInv

\* Every step of the Host keeps the invariant.
LEMMA DiskStep == DiskInv /\ [Next]_vars => DiskInv'
<1> SUFFICES ASSUME TypeOK, Numbered, StepOK, KeyKnown, ListKnown, NoneRevoked, [Next]_vars
             PROVE  DiskInv'
  BY DEF DiskInv
<1>. QED
  BY TypeOKStep, NumberedStep, StepOKStep, KeyKnownStep, ListKnownStep, NoneRevokedStep DEF
         DiskInv

\* Every variable holds a value of its kind, and no list names a Device twice.
THEOREM TypeCorrect == Spec => []TypeOK
<1>1. DiskInv => TypeOK
  BY DEF DiskInv
<1>. QED
  BY <1>1, DiskInit, DiskStep, PTL DEF Spec

\* Between two operations the list in memory is paired-devices.json: a save that
\* failed, at any of its steps, changed neither (store.rs:131-145).
THEOREM StoreIsTheDisk == Spec => []StoreMatchesDisk
<1>1. DiskInv => StoreMatchesDisk
  BY DEF DiskInv, ListKnown, HasList, StoreMatchesDisk
<1>. QED
  BY <1>1, DiskInit, DiskStep, PTL DEF Spec

\* An enrolment whose revocation was answered is in no list again, whatever
\* fails or crashes afterwards (store.rs:199-219).
THEOREM RevocationIsFinal == Spec => []RevokedStaysRevoked
<1>1. DiskInv => RevokedStaysRevoked
  BY DEF DiskInv, NoneRevoked
<1>. QED
  BY <1>1, DiskInit, DiskStep, PTL DEF Spec

\* There is no key pair at first.
LEMMA HostKeyInit == Init => HostKeyInv
<1> SUFFICES ASSUME Init PROVE HostKeyInv
  OBVIOUS
<1>1. pc = "down" /\ op = "none" /\ list = {} /\ retired = {}
  BY DEF Init
<1>2. ~HasKey /\ ~HasList /\ ~Rekeying /\ ~KeyWritten /\ ~WritesKey
  BY <1>1 DEF HasKey, HasList, Rekeying, KeyWritten, WritesKey, W
<1>. QED
  BY <1>1, <1>2 DEF HostKeyInv, ListedKeys, KeyOnDisk, KeyIsLive, W

\* Every step of the Host keeps the second invariant.
LEMMA HostKeyStep ==
    ASSUME KeyFaults = {}, DiskInv, HostKeyInv, [Next]_vars
    PROVE  HostKeyInv'
<1>1. TypeOK /\ Numbered /\ StepOK /\ KeyKnown /\ ListKnown /\ ListedKeys /\ KeyOnDisk /\ KeyIsLive
  BY DEF DiskInv, HostKeyInv
<1>. QED
  BY <1>1, ListedKeysStep, KeyOnDiskStep, KeyIsLiveStep DEF HostKeyInv

\* The second invariant gives the property.
LEMMA HostKeyInvImplies == HostKeyInv => HostKeyIsTheOne
BY DEF HostKeyInv, ListedKeys, KeyIsLive, HasList, HasKey, HostKeyIsTheOne, PairingsUseHostKey,
       RotationIsFinal

\* Where the credential store does not come and go and the mode of the key file
\* can be set, every listed Device pinned the key pair the running Host uses, and
\* that key pair was never replaced: a crash or a refused write at any step of a
\* rotation leaves the old key pair in use or an empty list (keys.rs:219-270,
\* bridge.rs:800-845).
THEOREM HostKeyIsOne ==
    ASSUME KeyFaults = {}
    PROVE  Spec => []HostKeyIsTheOne
<1>1. DiskInv /\ HostKeyInv /\ [Next]_vars => DiskInv' /\ HostKeyInv'
  BY DiskStep, HostKeyStep
<1>. QED
  BY <1>1, DiskInit, HostKeyInit, HostKeyInvImplies, PTL DEF Spec
=============================================================================
