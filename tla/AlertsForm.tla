----------------------------- MODULE AlertsForm -----------------------------
(* The card of the settings page that edits the alert configuration          *)
(* (pages/SettingsPage.tsx, lib/alerts.ts): the form is filled by one load,  *)
(* a save sends the whole form, and the secrets have controls of their own.  *)
(* The fields that are sent as they stand in the form are one field here.    *)
(* What the server does inside a save is the subject of AlertSettings.       *)
EXTENDS Integers, FiniteSets

CONSTANTS SecretNames, \* the secrets of the form
          NoConfig     \* no configuration loaded, no secret

VARIABLES
    manage,       \* canManageAlerts: the user is an admin, alerts are not read only
    writable,     \* the server has a key to seal secrets
    config,       \* the configuration of the server: its fields and secrets
    alertConfig,  \* what the page knows of it: which secrets there are
    fields,       \* the fields of the form
    rotate, clear, typed, \* the controls of each secret
    alertLoad,    \* the load of the mount: "sent", "off", or the answer
    save,         \* the save under way: "off", "sent", "refused" or "saved"
    payload,      \* what the save sends
    edited,       \* what the user has touched since the form last took the server's
    others        \* somebody else has changed the configuration

formVars == <<manage, writable, config, alertConfig, fields, rotate, clear, typed,
              alertLoad, save, payload, edited, others>>
Form == <<alertConfig, fields, rotate, clear, typed, edited>>
Setup == <<manage, writable>>

NoFlags == [s \in SecretNames |-> FALSE]

\* What a load or a save tells the page: never the secrets themselves.
ConfigView == [s \in SecretNames |-> config.secrets[s] # NoConfig]

NoPayload == [fields |-> "default", set |-> {}, clear |-> {}]

FormInit ==
    /\ manage \in BOOLEAN /\ writable \in BOOLEAN
    /\ \E has \in [SecretNames -> {NoConfig, "old"}] : config = [fields |-> "stored", secrets |-> has]
    /\ alertConfig = NoConfig /\ fields = "default"
    /\ rotate = NoFlags /\ clear = NoFlags /\ typed = NoFlags
    /\ alertLoad = "sent" /\ save = "off"
    /\ payload = NoPayload
    /\ edited = {} /\ others = FALSE

ResetSecrets == rotate' = NoFlags /\ clear' = NoFlags /\ typed' = NoFlags

\* A mutant: a load that leaves the fields of the form at their defaults.
KeepFields == fields

Loaded == config.fields

\* loadAlertConfig: the form takes what the server has.
LoadArrives ==
    /\ alertLoad = "sent"
    /\ alertLoad' = "off"
    /\ alertConfig' = ConfigView
    /\ fields' = Loaded
    /\ ResetSecrets /\ edited' = {}
    /\ UNCHANGED <<Setup, config, save, payload, others>>

\* It fails: an error is shown, and the form opens with the defaults of the code.
AlertLoadFails ==
    /\ alertLoad = "sent"
    /\ alertLoad' = "off"
    /\ UNCHANGED <<Setup, config, Form, save, payload, others>>

\* The form is open: the load has ended, and the controls are enabled.
Enabled == alertLoad = "off" /\ manage

Edit ==
    /\ Enabled
    /\ fields' = "edited" /\ edited' = edited \cup {"fields"}
    /\ UNCHANGED <<Setup, config, alertConfig, rotate, clear, typed, alertLoad, save, payload, others>>

\* The button that opens and closes the input of a new secret.
Rotate(s) ==
    /\ Enabled /\ alertConfig # NoConfig /\ writable
    /\ rotate' = [rotate EXCEPT ![s] = ~rotate[s]]
    /\ clear' = [clear EXCEPT ![s] = FALSE]
    /\ edited' = edited \cup {s}
    /\ UNCHANGED <<Setup, config, alertConfig, fields, typed, alertLoad, save, payload, others>>

TypeSecret(s) ==
    /\ Enabled /\ rotate[s] /\ writable
    /\ typed' = [typed EXCEPT ![s] = TRUE]
    /\ UNCHANGED <<Setup, config, alertConfig, fields, rotate, clear, edited, alertLoad, save, payload, others>>

\* The button that marks a secret for deletion.
ClearSecret(s) ==
    /\ Enabled /\ alertConfig # NoConfig /\ alertConfig[s]
    /\ clear' = [clear EXCEPT ![s] = TRUE]
    /\ rotate' = [rotate EXCEPT ![s] = FALSE] /\ typed' = [typed EXCEPT ![s] = FALSE]
    /\ edited' = edited \cup {s}
    /\ UNCHANGED <<Setup, config, alertConfig, fields, alertLoad, save, payload, others>>

\* handleSaveAlerts: the whole form is sent; a secret that was typed but whose
\* input is closed again is not. The button is disabled while a save is under
\* way, the controls are not.
SaveAlerts ==
    /\ Enabled /\ save = "off"
    /\ save' = "sent"
    /\ payload' = [fields |-> fields,
                   set |-> {s \in SecretNames : rotate[s] /\ typed[s]},
                   clear |-> {s \in SecretNames : clear[s]}]
    /\ UNCHANGED <<Setup, config, Form, alertLoad, others>>

\* UpdateConfig lays the payload over the configuration; a new secret takes a
\* key, and an invalid field or a failed write refuses the whole.
SaveAlertsServed ==
    /\ save = "sent"
    /\ \/ save' = "refused" /\ UNCHANGED config
       \/ /\ payload.set = {} \/ writable
          /\ save' \in {"saved", "refused"}
          /\ config' = [fields |-> payload.fields,
                        secrets |-> [s \in SecretNames |-> IF s \in payload.clear THEN NoConfig
                                        ELSE IF s \in payload.set THEN "new" ELSE config.secrets[s]]]
    /\ UNCHANGED <<Setup, Form, alertLoad, payload, others>>

\* The form keeps its fields, and forgets the secrets and their controls.
SaveAlertsSucceeds ==
    /\ save = "saved"
    /\ save' = "off" /\ payload' = NoPayload
    /\ alertConfig' = ConfigView
    /\ ResetSecrets
    /\ edited' = edited \cap {"fields"}
    /\ UNCHANGED <<Setup, config, fields, alertLoad, others>>

\* The save is refused, or its answer is lost: the form stays as it is.
SaveAlertsFails ==
    /\ save = "refused"
    /\ save' = "off" /\ payload' = NoPayload
    /\ UNCHANGED <<Setup, config, Form, alertLoad, others>>

\* Another administrator saves, without touching a secret.
OthersSave ==
    /\ ~others /\ others' = TRUE
    /\ config' = [config EXCEPT !.fields = "others"]
    /\ UNCHANGED <<Setup, Form, alertLoad, save, payload>>

FormStep ==
    \/ LoadArrives \/ AlertLoadFails \/ Edit
    \/ \E s \in SecretNames : Rotate(s) \/ TypeSecret(s) \/ ClearSecret(s)
    \/ SaveAlerts \/ SaveAlertsServed \/ SaveAlertsSucceeds \/ SaveAlertsFails
    \/ OthersSave

-----------------------------------------------------------------------------
\* A form that was loaded changes on the server only what the user touched on
\* it, as long as nobody else saves: fields and secrets that were left alone
\* come back as they were (SettingsPage.tsx:84-131 and 207-261). A form whose
\* load has failed can be saved too, and then writes the defaults of the code
\* over everything (SettingsPage.tsx:117-126 and 499-707).
OnlyTouchedChanges ==
    [][save = "sent" /\ alertConfig # NoConfig /\ ~others' =>
         /\ "fields" \notin edited => config'.fields = config.fields
         /\ \A s \in SecretNames \ edited : config'.secrets[s] = config.secrets[s]]_formVars
=============================================================================
