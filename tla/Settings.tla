------------------------------ MODULE Settings ------------------------------
(***************************************************************************)
(* internal/settings/store.go: Apply commits overrides to app_settings,    *)
(* re-reads them, publishes the effective configuration and then calls the *)
(* subscribers, all under applyMu.  The request that carries Apply may be  *)
(* abandoned between any two of these steps.                               *)
(***************************************************************************)
CONSTANT Config    \* effective configurations, as far as subscribers care

VARIABLES
    stored,     \* what app_settings resolves to, as last committed
    effective,  \* Store.effective
    apply       \* the step of the one Apply that holds applyMu

settingsVars == <<stored, effective, apply>>

SettingsType ==
    /\ stored \in Config /\ effective \in Config
    /\ apply \in {"idle", "reload", "notify", "join"}

\* InTx of Apply
CommitOverrides(c) ==
    /\ apply = "idle"
    /\ stored' = c
    /\ apply' = "reload"
    /\ UNCHANGED effective

\* reload and the publication of its result
Publish ==
    /\ apply = "reload"
    /\ effective' = stored
    /\ apply' = "notify"
    /\ UNCHANGED stored

\* reload fails after the commit: Apply returns the error, nobody is told.
ReloadFails ==
    /\ apply = "reload"
    /\ apply' = "idle"
    /\ UNCHANGED <<stored, effective>>

\* NewStore at process start
LoadSettings == effective' = stored /\ apply' = "idle" /\ UNCHANGED stored
=============================================================================
