---------------------------- MODULE SettingsPage ----------------------------
(***************************************************************************)
(* SettingsView.vue: the providers, which are enabled or disabled, the     *)
(* paired runners, which may be revoked, and the pairing code issued last. *)
(* Providers and runners are two lists, loaded apart; loads catch their    *)
(* failures and return.                                                    *)
(***************************************************************************)
EXTENDS ListPage

Providers == {i \in Items : backend[i] \in {"enabled", "disabled"}}
Runners == {i \in Items : backend[i] \in {"active", "revoked"}}

\* Both lists are being loaded.
SettingsInit ==
  /\ page = "settings"
  /\ backend \in [Items -> {"enabled", "disabled", "active"}]
  /\ sheet = [k \in {"providers", "runners", "pairing"} |-> Blank]
  /\ flags = {} /\ errors = {} /\ clicks = 0
  /\ \E t \in Calls, u \in Calls :
       /\ t < u /\ \A v \in Calls : t <= v /\ (v # t => u <= v)
       /\ call = [v \in Calls |->
            IF v \in {t, u} THEN [NoCall EXCEPT !.at = IF v = t THEN "providers" ELSE "runners",
                                                !.newest = TRUE] ELSE NoCall]

PendingSetting(i) == <<"pending", i>>
PairingBusy == <<"pairing", NoItem>>

\* The list is hidden while it is loading; it says what the button does.
ProviderButton(i) ==
  IF i \in Providers /\ ~Loading("providers") /\ sheet["providers"].content # "none"
     /\ PendingSetting(i) \notin flags
  THEN {IF sheet["providers"].rows[i] = "enabled" THEN "disable" ELSE "enable"} ELSE {}

RunnerButton(i) ==
  IF i \in Runners /\ sheet["runners"].content # "none" /\ sheet["runners"].rows[i] = "active"
     /\ PendingSetting(i) \notin flags
  THEN {"revoke"} ELSE {}
-----------------------------------------------------------------------------
(* What the user does.                                                     *)

SetProvider(i) == \E fn \in ProviderButton(i) : SendChange(fn, i, PendingSetting(i))

RevokeRunner(i) == \E fn \in RunnerButton(i) : SendChange(fn, i, PendingSetting(i))

\* The code shown so far goes at once.
IssuePairingCode ==
  /\ Click /\ FreeCalls # {} /\ PairingBusy \notin flags
  /\ flags' = flags \cup {PairingBusy}
  /\ sheet' = [sheet EXCEPT !["pairing"] = Blank]
  /\ call' = [Shown("pairing", NoItem, <<>>) EXCEPT ![FreeCall].flag = PairingBusy]
  /\ UNCHANGED <<page, backend, errors>>
-----------------------------------------------------------------------------
(* What becomes of it.                                                     *)

ProviderSteps ==
  {<<"enable", p, "enabled">> : p \in {"enabled", "disabled"}} \cup
  {<<"disable", p, "disabled">> : p \in {"enabled", "disabled"}}

\* A runner that was revoked is revoked again without complaint.
RunnerSteps == {<<"revoke", r, "revoked">> : r \in {"active", "revoked"}}

ListOf(fn) == IF fn = "revoke" THEN "runners" ELSE "providers"

SettingServed(t) ==
  \/ ServeChange(t, ProviderSteps \cup RunnerSteps, {ListOf(call[t].fn)})
  \/ /\ call[t].at = "pairing" /\ ~call[t].served
     /\ call' = [call EXCEPT ![t].served = TRUE, ![t].fresh = TRUE]
     /\ UNCHANGED <<page, backend, sheet, flags, errors, clicks>>
  \/ call[t].at \in Lists /\ ServeFetch(t, {})

\* The change is made: its list is loaded.
SettingChanged(t) ==
  LET k == ListOf(call[t].fn) IN
  /\ call[t].at = "sending" /\ call[t].served
  /\ call' = Fetch(call, t, k)
  /\ errors' = errors \ {k}
  /\ UNCHANGED <<page, backend, sheet, flags, clicks>>

SettingFails(t) ==
  /\ call[t].at = "sending"
  /\ errors' = errors \cup {ListOf(call[t].fn)}
  /\ End(t)
  /\ UNCHANGED <<page, backend, sheet, clicks>>

\* loadProviders, loadRunners or issuePairingCode ends; only the newest is
\* noticed.
SettingFetched(t, k) ==
  LET me == call[t] IN
  /\ me.at = k
  /\ \/ /\ me.served
        /\ sheet' = IF me.newest THEN [sheet EXCEPT ![k] = Received(t, NoItem)] ELSE sheet
        /\ UNCHANGED errors
     \/ /\ errors' = IF me.newest THEN errors \cup {k} ELSE errors
        /\ UNCHANGED sheet
  /\ End(t)
  /\ UNCHANGED <<page, backend, clicks>>

SettingsPageNext ==
  /\ page = "settings"
  /\ \/ \E i \in Items : SetProvider(i) \/ RevokeRunner(i)
     \/ IssuePairingCode
     \/ \E t \in Calls :
          \/ SettingServed(t) \/ SettingChanged(t) \/ SettingFails(t)
          \/ \E k \in {"providers", "runners", "pairing"} : SettingFetched(t, k)
=============================================================================
