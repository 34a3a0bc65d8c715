--------------------------- MODULE AccessProfile ---------------------------
(***************************************************************************)
(* The access configuration under the operator's commands `access set` and *)
(* `access lockdown`, and what it then decides about every request when no *)
(* grant helps.  The configuration may start as any file the operator wrote *)
(* (AccessConfig is read from TOML), not only as a profile's defaults.     *)
(***************************************************************************)
EXTENDS CapabilityPolicy

CONSTANT Judged  \* the requests the properties speak about

ASSUME RequestsAssumption == Judged \subseteq Request

VARIABLES
    config,   \* the manager's AccessConfig
    edited    \* history: config is not what set or lockdown makes of defaults

profileVars == <<config, edited>>

ProfileInit ==
    /\ config \in Config
    /\ edited = (\A p \in Profiles : config # ForProfile(p))

Set(p) ==
    /\ config' = SetProfileDefaults(config, p)
    /\ UNCHANGED edited

Lockdown ==
    /\ config' = LockConfig(config)
    /\ UNCHANGED edited

ProfileNext == (\E p \in Profiles : Set(p)) \/ Lockdown

ProfileSpec == ProfileInit /\ [][ProfileNext]_profileVars

-----------------------------------------------------------------------------
Allowed(c) == {r \in Judged : DecisionFromConfig(c, r) = "Allow"}

\* The configuration stays one that can be written to the file and read back.
ProfileTypeOK == config \in Config /\ edited \in BOOLEAN

\* Each profile of the README's table gives at least what the one before it
\* gives, whatever the file says about home access and approvals.
Rank == [Workspace |-> 0, Developer |-> 1, Computer |-> 2, Full |-> 3]

ProfilesAreOrdered ==
    \A p, q \in Profiles : Rank[p] <= Rank[q] =>
        Allowed(SetProfileDefaults(config, p))
            \subseteq Allowed(SetProfileDefaults(config, q))

\* A lockdown takes away and never gives: no request is allowed after it that
\* was not allowed before, not even one an edited file had closed.
LockdownOnlyNarrows ==
    [][Lockdown => Allowed(config)' \subseteq Allowed(config)]_profileVars

\* Under a lockdown no network, no search, no desktop and no file outside the
\* workspace is reached without a grant, until the profile is set again.
Outside(r) ==
    \/ r.kind \in {"Network", "WebSearch", "ComputerUse"}
    \/ r.kind = "Filesystem" /\ Place[r.target] # "workspace"

LockdownConfines ==
    \A r \in Allowed(LockConfig(config)) : ~Outside(r)

\* With the switches as shipped, no profile lets a high-impact request through
\* without an approval; and a secret path is never open by configuration, not
\* even with its switch off.
HighImpactIsAsked ==
    \A r \in Allowed(config) :
        /\ r.kind # "SecretRead"
        /\ HighImpact(r) => config.require_approval # Switches

\* What the README's table of profiles promises for the shipped defaults.
\* A request outside the column of its profile is asked about.
Documented(p, r) ==
    /\ ~HighImpact(r)
    /\ r.kind \notin {"SecretRead", "ExternalSend", "SystemService"}
    /\ r.kind \in {"Network", "WebSearch"} => p # "Workspace"
    /\ r.kind = "ComputerUse" => p \in {"Computer", "Full"}
    /\ r.kind = "Filesystem" => p = "Full" \/ Place[r.target] = "workspace"

DefaultsAreAsDocumented ==
    ~edited => Allowed(config) =
                  {r \in Judged : Documented(config.profile, r)}
=============================================================================
