---------------------------- MODULE AlertSettings ----------------------------
(***************************************************************************)
(* The settings of the alert Service (internal/alerts/service.go, with     *)
(* store.go and crypto.go): configuration, channel secrets and mute        *)
(* window, each kept in memory and in SQLite.                              *)
(*                                                                         *)
(* UpdateConfig holds s.mu from its first line to its last and makes two   *)
(* separate writes to the database.  SetSilence and ClearSilence write the *)
(* database without the lock and then memory under it.  A write may fail,  *)
(* and the process may stop between any two steps; NewService then loads   *)
(* what the database holds, perhaps with another encryption key.           *)
(*                                                                         *)
(* A configuration is a function from Fields to Values.  The bot token and *)
(* the mail password are treated alike, so there is one secret.  An input  *)
(* that validateConfig refuses changes nothing and is left out.            *)
(***************************************************************************)
EXTENDS Integers

CONSTANTS
    Admins,         \* requests that may be under way at the same time
    Fields,         \* fields of alerts.Config
    Values,         \* their values
    DefaultConfig,  \* what ensureDefaultConfig stores
    Secrets,        \* plain secrets
    Keys,           \* values of QUICKVPS_ALERTS_KEY
    Times,          \* ends of mute windows
    None            \* no secret, no key, no mute window, nobody

ASSUME AlertSettingsAssumption ==
    /\ DefaultConfig \in [Fields -> Values]
    /\ None \notin Admins \cup Values \cup Secrets \cup Keys \cup Times

VARIABLES
    up,                         \* the process runs
    key,                        \* the key NewService was given
    dbConfig, dbRecord, dbMuted,    \* alert_settings, alert_secrets, alert_silence
    cfg, record, secret, muted, \* s.cfg, s.secretRec, s.secrets, s.status.MutedUntil
    lock,                       \* the request inside UpdateConfig, holding s.mu
    at,                         \* at[a]: what the request of a does next
    draft,                      \* draft[a]: the local cfg, rec and secrets of a
    asked,                      \* asked[f]: the value of f in the last update done
    torn,                       \* the database holds half of an update
    crossed                     \* mute requests have overlapped

vars == <<up, key, dbConfig, dbRecord, dbMuted, cfg, record, secret, muted,
          lock, at, draft, asked, torn, crossed>>
disk     == <<dbConfig, dbRecord, dbMuted>>
settings == <<cfg, record, secret>>
observed == <<asked, torn, crossed>>

Config == [Fields -> Values]

NoCipher == [key |-> None, plain |-> None]

\* AES-GCM: what was sealed with one key opens with that key only.
Encrypt(k, s) == [key |-> k, plain |-> s]

Decrypt(r, k) == IF r # NoCipher /\ r.key = k THEN r.plain ELSE None

\* patch[f] is None where a request leaves a field out.
Patch == [Fields -> Values \cup {None}]
NoPatch == [f \in Fields |-> None]

NoDraft == [patch |-> NoPatch, cfg |-> DefaultConfig, record |-> NoCipher,
            secret |-> None, muted |-> None]

Init ==
    /\ up = FALSE
    /\ key = None
    /\ dbConfig = DefaultConfig /\ dbRecord = NoCipher /\ dbMuted = None
    /\ cfg = DefaultConfig /\ record = NoCipher /\ secret = None /\ muted = None
    /\ lock = None
    /\ at = [a \in Admins |-> "idle"]
    /\ draft = [a \in Admins |-> NoDraft]
    /\ asked = DefaultConfig
    /\ torn = FALSE /\ crossed = FALSE

-----------------------------------------------------------------------------
(* Faulty forms of the helpers below, kept to show that a property notices *)
(* the mistake.                                                            *)
AnyTime == TRUE                         \* s.cfg copied before s.mu.Lock
KeepLock == lock                        \* a return without s.mu.Unlock
KeepSecret == secret                    \* the plain secret survives its clearing
ApplyEarly(a) == draft[a].cfg           \* s.cfg = cfg before SaveSecretRecord
MemoryOnly(a) == dbMuted                \* no SetMutedUntil

-----------------------------------------------------------------------------
\* s.mu.Lock and, deferred, s.mu.Unlock
CanLock == lock = None
Unlocked == None

Goto(a, l) == at' = [at EXCEPT ![a] = l]

\* The request is answered and its local variables are gone.
Finish(a) ==
    /\ Goto(a, "idle")
    /\ draft' = [draft EXCEPT ![a] = NoDraft]

(* UpdateConfig.                                                           *)

Patched(c, patch) == [f \in Fields |-> IF patch[f] # None THEN patch[f] ELSE c[f]]

ClearedSecret == None

\* The copies of s.cfg, s.secretRec and s.secrets, and the input laid over them.
BeginUpdate(a, patch, newRecord, newSecret) ==
    /\ up /\ at[a] = "idle" /\ CanLock
    /\ lock' = a
    /\ draft' = [draft EXCEPT ![a] =
          [patch |-> patch, cfg |-> Patched(cfg, patch),
           record |-> newRecord, secret |-> newSecret, muted |-> None]]
    /\ Goto(a, "config")
    /\ UNCHANGED <<up, key, disk, settings, muted, observed>>

\* The input leaves the secret alone, clears it, or sets it, which takes a key.
UpdateConfig(a) ==
    \E patch \in Patch :
        \/ BeginUpdate(a, patch, record, secret)
        \/ BeginUpdate(a, patch, NoCipher, ClearedSecret)
        \/ \E s \in Secrets : key # None /\ BeginUpdate(a, patch, Encrypt(key, s), s)

SaveConfig(a) ==
    /\ up /\ at[a] = "config"
    /\ dbConfig' = draft[a].cfg
    /\ torn' = TRUE
    /\ Goto(a, "record")
    /\ UNCHANGED <<up, key, dbRecord, dbMuted, settings, muted, lock, draft, asked, crossed>>

StoredRecord(a) == draft[a].record

SaveRecord(a) ==
    /\ up /\ at[a] = "record"
    /\ dbRecord' = StoredRecord(a)
    /\ torn' = FALSE
    /\ Goto(a, "apply")
    /\ UNCHANGED <<up, key, dbConfig, dbMuted, settings, muted, lock, draft, asked, crossed>>

\* What memory holds after the first write succeeded and the second did not.
ConfigAfterFailure(a) == cfg

SaveFails(a) ==
    /\ up /\ at[a] \in {"config", "record"}
    /\ cfg' = IF at[a] = "record" THEN ConfigAfterFailure(a) ELSE cfg
    /\ lock' = Unlocked
    /\ Finish(a)
    /\ UNCHANGED <<up, key, disk, record, secret, muted, observed>>

ApplyUpdate(a) ==
    /\ up /\ at[a] = "apply"
    /\ cfg' = draft[a].cfg
    /\ record' = draft[a].record
    /\ secret' = draft[a].secret
    /\ asked' = Patched(asked, draft[a].patch)
    /\ lock' = Unlocked
    /\ Finish(a)
    /\ UNCHANGED <<up, key, disk, muted, torn, crossed>>

-----------------------------------------------------------------------------
(* SetSilence and ClearSilence: t is the end of the window, or None.       *)

Muting(a) == at[a] \in {"muteDB", "muteMem"}

Silence(a, t) ==
    /\ up /\ at[a] = "idle"
    /\ draft' = [draft EXCEPT ![a] = [NoDraft EXCEPT !.muted = t]]
    /\ crossed' = (crossed \/ \E b \in Admins \ {a} : Muting(b))
    /\ Goto(a, "muteDB")
    /\ UNCHANGED <<up, key, disk, settings, muted, lock, asked, torn>>

\* The mute window the database has after SetMutedUntil.
StoredMute(a) == draft[a].muted

SetMutedUntil(a) ==
    /\ up /\ at[a] = "muteDB"
    /\ dbMuted' = StoredMute(a)
    /\ Goto(a, "muteMem")
    /\ UNCHANGED <<up, key, dbConfig, dbRecord, settings, muted, lock, draft, observed>>

SetMutedFails(a) ==
    /\ up /\ at[a] = "muteDB"
    /\ Finish(a)
    /\ UNCHANGED <<up, key, disk, settings, muted, lock, observed>>

MuteInMemory(a) ==
    /\ up /\ at[a] = "muteMem" /\ CanLock
    /\ muted' = draft[a].muted
    /\ Finish(a)
    /\ UNCHANGED <<up, key, disk, settings, lock, observed>>

-----------------------------------------------------------------------------
(* The process.                                                            *)

\* What was in memory is gone.
Stop ==
    /\ up
    /\ up' = FALSE
    /\ lock' = None
    /\ at' = [a \in Admins |-> "idle"]
    /\ draft' = [a \in Admins |-> NoDraft]
    /\ key' = None
    /\ cfg' = DefaultConfig /\ record' = NoCipher /\ secret' = None /\ muted' = None
    /\ UNCHANGED <<disk, observed>>

\* NewService; a secret that does not open is dropped without an error.
NewService(k) ==
    /\ ~ up
    /\ up' = TRUE /\ key' = k
    /\ cfg' = dbConfig /\ record' = dbRecord
    /\ secret' = Decrypt(dbRecord, k)
    /\ muted' = dbMuted
    /\ asked' = dbConfig /\ torn' = FALSE /\ crossed' = FALSE
    /\ UNCHANGED <<disk, lock, at, draft>>

Request(a) ==
    \/ SaveConfig(a) \/ SaveRecord(a) \/ SaveFails(a) \/ ApplyUpdate(a)
    \/ SetMutedUntil(a) \/ SetMutedFails(a) \/ MuteInMemory(a)

Next ==
    \/ \E a \in Admins :
          UpdateConfig(a) \/ Request(a) \/ \E t \in Times \cup {None} : Silence(a, t)
    \/ Stop
    \/ \E k \in Keys \cup {None} : NewService(k)

Spec == Init /\ [][Next]_vars

\* Requests are scheduled and database calls return.  A Go mutex is handed to one
\* that has waited long enough, whoever else competes for it.
FairSpec ==
    /\ Spec
    /\ \A a \in Admins : WF_vars(Request(a)) /\ SF_vars(MuteInMemory(a))

-----------------------------------------------------------------------------
\* Updates that overlap do not undo each other: the configuration in force has,
\* field by field, the value of the last update that was accepted and named it.
NoLostUpdate == up => cfg = asked

\* A restart brings back the configuration in force, and the ciphertext that
\* ConfigView describes.  The exception for the configuration is torn: only a failure
\* between the two writes of UpdateConfig (service.go:305-310) leaves in the database
\* one that the client was told is refused.
SettingsOnDisk ==
    up /\ lock = None => /\ torn \/ cfg = dbConfig
                        /\ record = dbRecord

\* The secret in use is what the stored ciphertext opens to under the key of this
\* run, so a cleared secret is not used again and a set one is the one stored.
SecretIsOpened ==
    up => /\ secret # None => record = Encrypt(key, secret)
          /\ key # None /\ record.key = key => secret = record.plain

\* The mute window survives a restart, as long as mute requests do not overlap:
\* they write the database and then memory, each in an order of its own.
SilenceOnDisk ==
    up /\ ~ crossed /\ (\A a \in Admins : ~ Muting(a)) => muted = dbMuted

\* No request waits for ever on s.mu, whichever write of another one fails
\* (service.go:217-326 and 337-361).
RequestsEnd == \A a \in Admins : (at[a] # "idle") ~> (at[a] = "idle")
=============================================================================
