----------------------------- MODULE AlertProofs -----------------------------
(* Proofs about the alert service.                                           *)
(*                                                                           *)
(* Its settings (AlertSettings), for any number of requests, fields, values  *)
(* and keys: updates are merged, memory and disk agree, and the secret in    *)
(* use is the one that is stored.                                            *)
(*                                                                           *)
(* The delivery of alerts (AlertNotifier), for any number of chats and       *)
(* attempts: the history tells the truth, and copies and late attempts are   *)
(* bounded.                                                                  *)
EXTENDS AlertSettings, AlertNotifier, TLAPS

Places == {"idle", "config", "record", "apply", "muteDB", "muteMem"}

Record == [key : Keys \cup {None}, plain : Secrets \cup {None}]

Draft == [patch : Patch, cfg : Config, record : Record,
          secret : Secrets \cup {None}, muted : Times \cup {None}]

SettingsType ==
    /\ up \in BOOLEAN /\ torn \in BOOLEAN /\ crossed \in BOOLEAN
    /\ key \in Keys \cup {None}
    /\ dbConfig \in Config /\ cfg \in Config /\ asked \in Config
    /\ dbRecord \in Record /\ record \in Record /\ secret \in Secrets \cup {None}
    /\ lock \in Admins \cup {None}
    /\ at \in [Admins -> Places] /\ draft \in [Admins -> Draft]

Updating(a) == at[a] \in {"config", "record", "apply"}

\* The lock is held by the request inside UpdateConfig, and by nobody else.
LockIsHeld ==
    /\ \A a \in Admins : Updating(a) <=> lock = a
    /\ ~up => \A a \in Admins : at[a] = "idle"

LEMMA NoneIsNobody == None \notin Admins /\ None \notin Values /\ None \notin Secrets /\ None \notin Keys
BY AlertSettingsAssumption

LEMMA PatchedIsConfig == ASSUME NEW c \in Config, NEW p \in Patch PROVE Patched(c, p) \in Config
BY DEF Patched, Config, Patch

LEMMA TypeInit == Init => SettingsType /\ LockIsHeld
<1> SUFFICES ASSUME Init PROVE SettingsType /\ LockIsHeld
  OBVIOUS
<1> USE NoneIsNobody DEF Init
<1>1. NoDraft \in Draft
  BY AlertSettingsAssumption DEF NoDraft, Draft, NoPatch, Patch, Config, Record, NoCipher
<1>2. DefaultConfig \in Config /\ NoCipher \in Record
  BY AlertSettingsAssumption DEF Config, NoCipher, Record
<1> QED BY <1>1, <1>2 DEF SettingsType, LockIsHeld, Updating, Places

LEMMA TypeStep == SettingsType /\ LockIsHeld /\ [Next]_vars => SettingsType' /\ LockIsHeld'
<1> SUFFICES ASSUME SettingsType, LockIsHeld, [Next]_vars PROVE SettingsType' /\ LockIsHeld'
  OBVIOUS
<1> USE NoneIsNobody DEF SettingsType, LockIsHeld, Updating, Places
<1>0. NoDraft \in Draft /\ DefaultConfig \in Config /\ NoCipher \in Record
  BY AlertSettingsAssumption DEF NoDraft, Draft, NoPatch, Patch, Config, Record, NoCipher
<1>1. ASSUME NEW a \in Admins, UpdateConfig(a) PROVE SettingsType' /\ LockIsHeld'
  <2>1. PICK p \in Patch, r \in Record, s \in Secrets \cup {None} : BeginUpdate(a, p, r, s)
    BY <1>1, <1>0 DEF UpdateConfig, Encrypt, ClearedSecret, Record
  <2>2. draft' \in [Admins -> Draft]
    BY <2>1, PatchedIsConfig DEF BeginUpdate, Draft
  <2> QED BY <2>1, <2>2 DEF BeginUpdate, Goto, CanLock, disk, settings, observed
<1>2. ASSUME NEW a \in Admins, SaveConfig(a) \/ SaveRecord(a) PROVE SettingsType' /\ LockIsHeld'
  <2>1. draft[a].cfg \in Config /\ draft[a].record \in Record
    BY DEF Draft
  <2>2. CASE SaveConfig(a)
    BY <2>1, <2>2 DEF SaveConfig, Goto, settings
  <2>3. CASE SaveRecord(a)
    BY <2>1, <2>3 DEF SaveRecord, StoredRecord, Goto, settings
  <2> QED BY <1>2, <2>2, <2>3
<1>3. ASSUME NEW a \in Admins, SaveFails(a) PROVE SettingsType' /\ LockIsHeld'
  BY <1>0, <1>3 DEF SaveFails, ConfigAfterFailure, Unlocked, Finish, Goto, disk, observed
<1>4. ASSUME NEW a \in Admins, ApplyUpdate(a) PROVE SettingsType' /\ LockIsHeld'
  <2>1. asked' \in Config
    BY <1>4, PatchedIsConfig DEF ApplyUpdate, Draft
  <2> QED BY <1>0, <1>4, <2>1 DEF ApplyUpdate, Unlocked, Finish, Goto, disk, Draft
<1>5. ASSUME NEW a \in Admins, NEW t \in Times \cup {None}, Silence(a, t)
      PROVE  SettingsType' /\ LockIsHeld'
  <2>1. [NoDraft EXCEPT !.muted = t] \in Draft
    BY <1>0 DEF Draft, NoDraft
  <2> QED BY <1>5, <2>1 DEF Silence, Goto, disk, settings, Muting
<1>6. ASSUME NEW a \in Admins, SetMutedUntil(a) PROVE SettingsType' /\ LockIsHeld'
  BY <1>6 DEF SetMutedUntil, Goto, settings, observed
<1>7. ASSUME NEW a \in Admins, SetMutedFails(a) \/ MuteInMemory(a) PROVE SettingsType' /\ LockIsHeld'
  BY <1>0, <1>7 DEF SetMutedFails, MuteInMemory, Finish, Goto, disk, settings, observed
<1>8. CASE Stop
  BY <1>0, <1>8 DEF Stop, disk, observed
<1>9. ASSUME NEW k \in Keys \cup {None}, NewService(k) PROVE SettingsType' /\ LockIsHeld'
  BY <1>9 DEF NewService, disk, Decrypt, Record
<1>10. CASE UNCHANGED vars
  BY <1>10 DEF vars
<1> QED
  BY <1>1, <1>2, <1>3, <1>4, <1>5, <1>6, <1>7, <1>8, <1>9, <1>10 DEF Next, Request

-----------------------------------------------------------------------------
(* Updates: what memory, disk and the draft of the request inside have.      *)

\* The secret s is what the record r opens to under the key of this run.
Opens(r, s) == /\ s # None => r = Encrypt(key, s)
               /\ key # None /\ r.key = key => s = r.plain

\* How far the two writes of the request a have come.
Written(a) ==
    /\ draft[a].cfg = Patched(cfg, draft[a].patch)
    /\ Opens(draft[a].record, draft[a].secret)
    /\ at[a] = "config" => (torn \/ cfg = dbConfig) /\ record = dbRecord
    /\ at[a] = "record" => torn /\ record = dbRecord /\ dbConfig = draft[a].cfg
    /\ at[a] = "apply" => dbConfig = draft[a].cfg /\ dbRecord = draft[a].record

UpdatesMerge ==
    up => /\ NoLostUpdate /\ SettingsOnDisk /\ SecretIsOpened
          /\ \A a \in Admins : Updating(a) => Written(a)

LEMMA UpdatesStep ==
    SettingsType /\ SettingsType' /\ LockIsHeld /\ LockIsHeld' /\ UpdatesMerge /\ [Next]_vars
        => UpdatesMerge'
<1> SUFFICES ASSUME SettingsType, SettingsType', LockIsHeld, LockIsHeld', UpdatesMerge, [Next]_vars
             PROVE  UpdatesMerge'
  OBVIOUS
<1> USE NoneIsNobody DEF UpdatesMerge, NoLostUpdate, SettingsOnDisk, SecretIsOpened, Opens, Written
<1>0. \A a \in Admins : Updating(a) <=> lock = a
  BY DEF LockIsHeld
<1>b. \A a \in Admins : Updating(a)' <=> lock' = a
  BY DEF LockIsHeld
<1>t. at \in [Admins -> Places] /\ draft \in [Admins -> Draft] /\ record \in Record /\ dbRecord \in Record
  BY DEF SettingsType
<1>1. ASSUME NEW a \in Admins, UpdateConfig(a) PROVE UpdatesMerge'
  <2>1. PICK p \in Patch, r \in Record, s \in Secrets \cup {None} :
           /\ BeginUpdate(a, p, r, s)
           /\ Opens(r, s)
    <3>1. up
      BY <1>1 DEF UpdateConfig, BeginUpdate
    <3>2. Opens(record, secret)
      BY <3>1
    <3>3. Opens(NoCipher, ClearedSecret)
      BY DEF NoCipher, ClearedSecret
    <3>4. \A x \in Secrets : Opens(Encrypt(key, x), x)
      BY DEF Encrypt
    <3>5. NoCipher \in Record /\ ClearedSecret \in Secrets \cup {None} /\ secret \in Secrets \cup {None}
      BY DEF NoCipher, Record, ClearedSecret, SettingsType
    <3>6. \A x \in Secrets : key # None => Encrypt(key, x) \in Record
      BY DEF Encrypt, Record, SettingsType
    <3> QED BY <1>1, <1>t, <3>2, <3>3, <3>4, <3>5, <3>6 DEF UpdateConfig
  <2>2. /\ draft'[a].patch = p /\ draft'[a].cfg = Patched(cfg, p)
        /\ draft'[a].record = r /\ draft'[a].secret = s /\ at'[a] = "config" /\ lock' = a
    BY <2>1, <1>t DEF BeginUpdate, Goto
  <2>3. up /\ lock = None /\ UNCHANGED <<up, key, disk, settings, observed>>
    BY <2>1 DEF BeginUpdate, CanLock
  <2> QED BY <2>1, <2>2, <2>3, <1>b DEF disk, settings, observed, Encrypt
<1>2. ASSUME NEW a \in Admins, SaveConfig(a) PROVE UpdatesMerge'
  BY <1>0, <1>b, <1>t, <1>2 DEF SaveConfig, Goto, settings, Updating
<1>3. ASSUME NEW a \in Admins, SaveRecord(a) PROVE UpdatesMerge'
  BY <1>0, <1>b, <1>t, <1>3 DEF SaveRecord, StoredRecord, Goto, settings, Updating
<1>4. ASSUME NEW a \in Admins, SaveFails(a) PROVE UpdatesMerge'
  BY <1>0, <1>b, <1>t, <1>4
     DEF SaveFails, ConfigAfterFailure, Unlocked, Finish, Goto, disk, observed, Updating
<1>5. ASSUME NEW a \in Admins, ApplyUpdate(a) PROVE UpdatesMerge'
  BY <1>0, <1>b, <1>t, <1>5 DEF ApplyUpdate, Unlocked, Finish, Goto, disk, Updating
\* A request about the mute window is not inside UpdateConfig.
<1>6. ASSUME NEW a \in Admins, ~Updating(a), \A d \in Admins \ {a} : at'[d] = at[d] /\ draft'[d] = draft[d],
             ~Updating(a)', UNCHANGED <<up, key, dbConfig, dbRecord, settings, lock, asked, torn>>
      PROVE  UpdatesMerge'
  BY <1>6, <1>0, <1>b DEF settings, Updating
<1>7. ASSUME NEW a \in Admins, NEW t \in Times \cup {None}, Silence(a, t) PROVE UpdatesMerge'
  BY <1>6, <1>7, <1>t DEF Silence, Goto, disk, settings, Updating
<1>8. ASSUME NEW a \in Admins, SetMutedUntil(a) \/ SetMutedFails(a) \/ MuteInMemory(a)
      PROVE  UpdatesMerge'
  BY <1>6, <1>8, <1>t
     DEF SetMutedUntil, SetMutedFails, MuteInMemory, Finish, Goto, disk, settings, observed, Updating
<1>9. CASE Stop
  BY <1>9 DEF Stop
<1>10. ASSUME NEW k \in Keys \cup {None}, NewService(k) PROVE UpdatesMerge'
  <2>1. \A a \in Admins : ~Updating(a)'
    BY <1>10 DEF NewService, LockIsHeld, Updating
  <2>2. /\ secret' # None => record' = Encrypt(key', secret')
        /\ key' # None /\ record'.key = key' => secret' = record'.plain
    BY <1>10, <1>t DEF NewService, Decrypt, Record, NoCipher, Encrypt
  <2> QED BY <1>10, <2>1, <2>2 DEF NewService, disk
<1>11. CASE UNCHANGED vars
  BY <1>11 DEF vars, Updating
<1> QED
  BY <1>1, <1>2, <1>3, <1>4, <1>5, <1>7, <1>8, <1>9, <1>10, <1>11 DEF Next, Request
LEMMA UpdatesInit == Init => UpdatesMerge
BY DEF Init, UpdatesMerge

LEMMA UpdatesInvariant == Spec => [](SettingsType /\ LockIsHeld /\ UpdatesMerge)
BY TypeInit, TypeStep, UpdatesInit, UpdatesStep, PTL DEF Spec

\* Updates that overlap are merged, whichever of them fail or are cut short
\* (service.go:217-326).
THEOREM UpdatesAreMerged == Spec => []NoLostUpdate
<1>1. UpdatesMerge => NoLostUpdate
  BY DEF UpdatesMerge, NoLostUpdate
<1> QED BY <1>1, UpdatesInvariant, PTL

\* What is in force when no update is under way is what a restart brings back.
THEOREM SettingsComeBack == Spec => []SettingsOnDisk
<1>1. UpdatesMerge => SettingsOnDisk
  BY DEF UpdatesMerge, SettingsOnDisk
<1> QED BY <1>1, UpdatesInvariant, PTL

\* The secret in use is the one the stored ciphertext seals.
THEOREM SecretsAreOpened == Spec => []SecretIsOpened
<1>1. UpdatesMerge => SecretIsOpened
  BY DEF UpdatesMerge, SecretIsOpened
<1> QED BY <1>1, UpdatesInvariant, PTL

-----------------------------------------------------------------------------
(* The mute window.                                                          *)

\* As long as mute requests do not overlap there is one at most, and between its
\* two writes memory is behind by what it will write.
OneMutes ==
    up /\ ~crossed =>
        /\ \A a, b \in Admins : Muting(a) /\ Muting(b) => a = b
        /\ \A a \in Admins : at[a] = "muteMem" => dbMuted = draft[a].muted
        /\ (\A a \in Admins : at[a] # "muteMem") => muted = dbMuted

LEMMA OneMutesStep == SettingsType /\ LockIsHeld /\ OneMutes /\ [Next]_vars => OneMutes'
<1> SUFFICES ASSUME SettingsType, LockIsHeld, OneMutes, [Next]_vars PROVE OneMutes'
  OBVIOUS
<1> USE DEF OneMutes, Muting
<1>t. at \in [Admins -> Places] /\ draft \in [Admins -> Draft]
  BY DEF SettingsType
\* A step of UpdateConfig.
<1>1. ASSUME NEW a \in Admins, ~Muting(a), ~Muting(a)',
             \A d \in Admins \ {a} : at'[d] = at[d] /\ draft'[d] = draft[d],
             UNCHANGED <<up, dbMuted, muted, crossed>>
      PROVE  OneMutes'
  BY <1>1
<1>2. ASSUME NEW a \in Admins, UpdateConfig(a) PROVE OneMutes'
  <2>1. /\ at[a] = "idle" /\ Goto(a, "config")
        /\ UNCHANGED <<up, disk, muted, observed>>
        /\ \A d \in Admins \ {a} : draft'[d] = draft[d]
    BY <1>2, <1>t DEF UpdateConfig, BeginUpdate
  <2>2. ~Muting(a) /\ ~Muting(a)' /\ \A d \in Admins \ {a} : at'[d] = at[d]
    BY <1>t, <2>1 DEF Goto
  <2> QED BY <1>1, <2>1, <2>2 DEF disk, observed
<1>3. ASSUME NEW a \in Admins, SaveConfig(a) \/ SaveRecord(a) PROVE OneMutes'
  BY <1>1, <1>3, <1>t DEF SaveConfig, SaveRecord, Goto
<1>4. ASSUME NEW a \in Admins, SaveFails(a) \/ ApplyUpdate(a) PROVE OneMutes'
  <2>1. /\ at[a] \in {"config", "record", "apply"} /\ Finish(a)
        /\ UNCHANGED <<up, dbMuted, muted, crossed>>
    BY <1>4 DEF SaveFails, ApplyUpdate, disk, observed
  <2>2. ~Muting(a) /\ ~Muting(a)'
    BY <1>t, <2>1 DEF Finish, Goto
  <2>3. \A d \in Admins \ {a} : at'[d] = at[d] /\ draft'[d] = draft[d]
    BY <1>t, <2>1 DEF Finish, Goto
  <2> QED BY <1>1, <2>1, <2>2, <2>3
<1>5. ASSUME NEW a \in Admins, NEW t \in Times \cup {None}, Silence(a, t) PROVE OneMutes'
  BY <1>5, <1>t DEF Silence, Goto, disk
<1>6. ASSUME NEW a \in Admins, SetMutedUntil(a) PROVE OneMutes'
  BY <1>6, <1>t DEF SetMutedUntil, StoredMute, Goto, observed
<1>7. ASSUME NEW a \in Admins, SetMutedFails(a) PROVE OneMutes'
  BY <1>7, <1>t DEF SetMutedFails, Finish, Goto, disk, observed
<1>8. ASSUME NEW a \in Admins, MuteInMemory(a) PROVE OneMutes'
  BY <1>8, <1>t DEF MuteInMemory, Finish, Goto, disk, observed
<1>9. CASE Stop
  BY <1>9 DEF Stop
<1>10. ASSUME NEW k \in Keys \cup {None}, NewService(k) PROVE OneMutes'
  BY <1>10 DEF NewService, LockIsHeld, disk
<1>11. CASE UNCHANGED vars
  BY <1>11 DEF vars
<1> QED
  BY <1>2, <1>3, <1>4, <1>5, <1>6, <1>7, <1>8, <1>9, <1>10, <1>11 DEF Next, Request

\* The mute window comes back after a restart, if no two mute requests overlap.
THEOREM SilenceComesBack == Spec => []SilenceOnDisk
<1>1. Init => OneMutes
  BY DEF Init, OneMutes
<1>2. OneMutes => SilenceOnDisk
  BY DEF OneMutes, SilenceOnDisk, Muting
<1> QED BY <1>1, <1>2, TypeInit, TypeStep, OneMutesStep, PTL DEF Spec

-----------------------------------------------------------------------------
(* The delivery.                                                             *)

At == {"idle", "send", "failed", "asleep", "save"}
Delivering == step \in {"send", "failed", "asleep"}

Results == [Channel -> {"none", "success", "failure"}]

NotifierType ==
    /\ step \in At /\ channel \in Channel
    /\ cfgCopy \in NotifyConfig
    /\ attempts \in [Channel -> Nat] /\ late \in [Channel -> Nat]
    /\ next \in Chat /\ reached \in [Chat -> Nat] /\ mails \in Nat
    /\ result \in Results
    /\ ctxDone \in BOOLEAN

\* While a channel is tried it has no result and at least one attempt left to
\* end; the channel after it has not begun, the one before it has its result.
InTurn ==
    /\ Delivering =>
        /\ Enabled(channel) /\ result[channel] = "none"
        /\ channel = "telegram" => attempts["email"] = 0 /\ late["email"] = 0 /\ result["email"] = "none"
        /\ channel = "email" => (Enabled("telegram") <=> result["telegram"] # "none")
    /\ step = "save" => \A ch \in Channel : Enabled(ch) <=> result[ch] # "none"

\* The chats before next have this attempt's copy, those from next on do not.
CopiesFollow ==
    /\ \A i \in Chat : reached[i] <= attempts["telegram"]
    /\ mails <= attempts["email"]
    /\ step = "send" /\ channel = "telegram" =>
        \A i \in Chat : IF i < next THEN reached[i] > 0 ELSE reached[i] < attempts["telegram"]
    /\ step = "send" /\ channel = "email" => mails < attempts["email"]

SuccessIsTrue ==
    /\ result["telegram"] = "success" => \A i \in Chat : reached[i] > 0
    /\ result["email"] = "success" => mails > 0

\* An attempt is left for whoever sleeps, and none was begun late before.
AttemptsCounted ==
    /\ \A ch \in Channel : attempts[ch] <= cfgCopy.attempts /\ late[ch] <= 1
    /\ \A ch \in Channel : late[ch] > 0 => ctxDone
    /\ step = "asleep" => attempts[channel] < cfgCopy.attempts /\ late[channel] = 0

NotifierInv == NotifierType /\ InTurn /\ CopiesFollow /\ SuccessIsTrue /\ AttemptsCounted

LEMMA ChannelsAre == "telegram" \in Channel /\ "email" \in Channel
BY DEF Channel

LEMMA FirstChat == 1 \in Chat
BY AlertNotifierAssumption DEF Chat

LEMMA ConfigIs ==
    ASSUME NEW c \in NotifyConfig
    PROVE /\ c.attempts \in Nat /\ c.attempts >= 1
          /\ c["telegram"] = c.telegram /\ c["email"] = c.email
BY AlertNotifierAssumption DEF NotifyConfig

LEMMA NotifierInit == NotifyInit => NotifierInv
<1> SUFFICES ASSUME NotifyInit PROVE NotifierInv
  OBVIOUS
<1> USE DEF NotifyInit
<1>1. NotifierType
  BY FirstChat DEF NotifierType, At, Channel, Results, Nothing, NoResult
<1>2. InTurn /\ SuccessIsTrue
  BY DEF InTurn, SuccessIsTrue, Delivering, NoResult, Channel
<1>3. CopiesFollow
  BY DEF CopiesFollow, Nothing, Channel
<1>4. AttemptsCounted
  BY ConfigIs DEF AttemptsCounted, Nothing, Channel
<1> QED BY <1>1, <1>2, <1>3, <1>4 DEF NotifierInv

LEMMA StartKeeps == ASSUME NotifierInv, NEW c \in NotifyConfig, StartNotify(c) PROVE NotifierInv'
<1> USE ChannelsAre, FirstChat DEF NotifierInv, StartNotify, FirstChannel, Enabled
<1>0. cfgCopy' = c /\ c.attempts \in Nat /\ c.attempts >= 1
      /\ c["telegram"] = c.telegram /\ c["email"] = c.email
  BY ConfigIs
<1>1. NotifierType'
  BY DEF NotifierType, At, Channel, Results, Nothing, NoResult
<1>2. InTurn'
  BY <1>0 DEF NotifierType, InTurn, Delivering, Nothing, NoResult, Channel
<1>3. CopiesFollow'
  BY <1>0 DEF NotifierType, CopiesFollow, Nothing, Channel, Chat
<1>4. SuccessIsTrue'
  BY DEF SuccessIsTrue, NoResult
<1>5. AttemptsCounted'
  BY <1>0 DEF NotifierType, AttemptsCounted, Nothing, Channel
<1> QED BY <1>1, <1>2, <1>3, <1>4, <1>5

LEMMA TelegramSendsKeeps == ASSUME NotifierInv, TelegramSends PROVE NotifierInv'
<1> USE ChannelsAre, FirstChat, ConfigIs
    DEF NotifierInv, TelegramSends, Conclude, BeginAttempt, Enabled, Complete
<1>0. NumChats \in Nat /\ Chat = 1 .. NumChats
  BY AlertNotifierAssumption DEF Chat
<1>1. NotifierType'
  BY <1>0 DEF NotifierType, At, Channel, Results
<1>2. InTurn'
  BY DEF NotifierType, InTurn, Delivering, Channel, Results
<1>3. CopiesFollow'
  BY <1>0 DEF NotifierType, InTurn, Delivering, CopiesFollow, Channel
<1>4. SuccessIsTrue'
  BY <1>0 DEF NotifierType, InTurn, Delivering, CopiesFollow, SuccessIsTrue, Channel, Results
<1>5. AttemptsCounted'
  BY DEF NotifierType, InTurn, Delivering, AttemptsCounted, Channel
<1> QED BY <1>1, <1>2, <1>3, <1>4, <1>5

LEMMA TelegramFailsKeeps ==
    ASSUME NotifierInv, TelegramRefused \/ TelegramAnswerLost PROVE NotifierInv'
<1> USE ChannelsAre, FirstChat
    DEF NotifierInv, TelegramRefused, TelegramAnswerLost, Abandon, Enabled
<1>1. NotifierType'
  BY DEF NotifierType, At
<1>2. InTurn'
  BY DEF InTurn, Delivering
<1>3. CopiesFollow'
  <2>1. NumChats \in Nat /\ Chat = 1 .. NumChats
    BY AlertNotifierAssumption DEF Chat
  <2>2. CASE TelegramRefused
    BY <2>2 DEF NotifierType, CopiesFollow
  <2>3. CASE TelegramAnswerLost
    <3>1. reached[next] < attempts["telegram"]
      BY <2>1, <2>3 DEF NotifierType, CopiesFollow
    <3>2. \A i \in Chat : reached'[i] <= attempts["telegram"]
      BY <2>3, <3>1 DEF NotifierType, CopiesFollow
    <3> QED BY <2>3, <3>2 DEF CopiesFollow
  <2> QED BY <2>2, <2>3
<1>4. SuccessIsTrue'
  BY DEF NotifierType, InTurn, Delivering, SuccessIsTrue
<1>5. AttemptsCounted'
  BY DEF AttemptsCounted
<1> QED BY <1>1, <1>2, <1>3, <1>4, <1>5

LEMMA EmailKeeps == ASSUME NotifierInv, EmailSends \/ EmailFails PROVE NotifierInv'
<1> USE ChannelsAre, FirstChat
    DEF NotifierInv, EmailSends, EmailFails, Conclude, Enabled
<1>1. NotifierType'
  BY DEF NotifierType, At, Channel, Results
<1>2. InTurn'
  BY DEF NotifierType, InTurn, Delivering, Channel, Results
<1>3. CopiesFollow'
  BY DEF NotifierType, CopiesFollow, Channel
<1>4. SuccessIsTrue'
  BY DEF NotifierType, InTurn, Delivering, CopiesFollow, SuccessIsTrue, Results
<1>5. AttemptsCounted'
  BY DEF AttemptsCounted
<1> QED BY <1>1, <1>2, <1>3, <1>4, <1>5

LEMMA GiveUpKeeps == ASSUME NotifierInv, GiveUp PROVE NotifierInv'
<1> USE ChannelsAre, FirstChat, ConfigIs
    DEF NotifierInv, GiveUp, Conclude, BeginAttempt, Enabled, ResultOfFailure
<1>1. NotifierType'
  BY DEF NotifierType, At, Channel, Results
<1>2. InTurn'
  BY DEF NotifierType, InTurn, Delivering, Channel, Results
<1>3. CopiesFollow'
  BY DEF NotifierType, InTurn, Delivering, CopiesFollow, Channel, Chat
<1>4. SuccessIsTrue'
  BY DEF NotifierType, SuccessIsTrue, Results
<1>5. AttemptsCounted'
  BY DEF NotifierType, InTurn, Delivering, AttemptsCounted, Channel
<1> QED BY <1>1, <1>2, <1>3, <1>4, <1>5

LEMMA RetryKeeps == ASSUME NotifierInv, Sleep \/ Wake PROVE NotifierInv'
<1> USE ChannelsAre, FirstChat, ConfigIs
    DEF NotifierInv, Sleep, Wake, BeginAttempt, Enabled, IsLast, Noticed
<1>1. NotifierType'
  BY DEF NotifierType, At, Channel
<1>2. InTurn'
  BY DEF NotifierType, InTurn, Delivering, Channel
<1>3. CopiesFollow'
  <2>1. CASE Sleep
    BY <2>1 DEF CopiesFollow
  <2>2. CASE Wake
    <3>1. attempts'[channel] = attempts[channel] + 1 /\ \A i \in Chat : ~(i < 1)
      BY <2>2 DEF NotifierType, Chat
    <3>2. \A i \in Chat : reached[i] <= attempts'["telegram"]
      BY <2>2, <3>1 DEF NotifierType, CopiesFollow, Channel
    <3>3. mails <= attempts'["email"]
      BY <2>2, <3>1 DEF NotifierType, CopiesFollow, Channel
    <3>4. channel = "telegram" => \A i \in Chat : reached[i] < attempts'["telegram"]
      BY <2>2, <3>1 DEF NotifierType, CopiesFollow, Channel
    <3>5. channel = "email" => mails < attempts'["email"]
      BY <2>2, <3>1 DEF NotifierType, CopiesFollow, Channel
    <3> QED BY <2>2, <3>1, <3>2, <3>3, <3>4, <3>5 DEF CopiesFollow
  <2> QED BY <2>1, <2>2
<1>4. SuccessIsTrue'
  BY DEF SuccessIsTrue
<1>5. AttemptsCounted'
  BY DEF NotifierType, AttemptsCounted, Channel
<1> QED BY <1>1, <1>2, <1>3, <1>4, <1>5

LEMMA RestKeeps ==
    ASSUME NotifierInv, SaveEvent \/ SaveEventFails \/ CtxCancelled \/ UNCHANGED notifyVars
    PROVE NotifierInv'
<1> USE DEF NotifierInv, SaveEvent, SaveEventFails, CtxCancelled, notifyVars, Enabled
<1>1. NotifierType'
  BY DEF NotifierType, At
<1>2. InTurn'
  BY DEF InTurn, Delivering
<1>3. CopiesFollow' /\ SuccessIsTrue'
  BY DEF CopiesFollow, SuccessIsTrue
<1>4. AttemptsCounted'
  BY DEF NotifierType, AttemptsCounted
<1> QED BY <1>1, <1>2, <1>3, <1>4

LEMMA NotifierStep == NotifierInv /\ [NotifyNext]_notifyVars => NotifierInv'
BY StartKeeps, TelegramSendsKeeps, TelegramFailsKeeps, EmailKeeps, GiveUpKeeps, RetryKeeps, RestKeeps
   DEF NotifyNext, TelegramAttempt, EmailAttempt

LEMMA NotifierInvariant == NotifySpec => []NotifierInv
BY NotifierInit, NotifierStep, PTL DEF NotifySpec

\* What the history says of an alert is true: a success means that every chat,
\* or the recipients, have it, and channels that were off have no result
\* (notifier.go:36-78).
THEOREM HistoryIsTrue == NotifySpec => []ResultsAreTrue
<1>1. NotifierInv => ResultsAreTrue
  BY DEF NotifierInv, InTurn, SuccessIsTrue, ResultsAreTrue
<1> QED BY <1>1, NotifierInvariant, PTL

\* Nobody gets more copies than there were attempts, no channel makes more
\* attempts than there are delays, and once the context is cancelled it begins
\* at most one more (notifier.go:81-118).
THEOREM RetriesEnd == NotifySpec => []RetriesAreBounded
<1>1. NotifierInv => RetriesAreBounded
  BY DEF NotifierInv, CopiesFollow, AttemptsCounted, RetriesAreBounded
<1> QED BY <1>1, NotifierInvariant, PTL
=============================================================================
