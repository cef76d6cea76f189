------------------------------ MODULE Packages ------------------------------
(***************************************************************************)
(* The package of one main organization and the limits it grants           *)
(* (api/src/packages, with the places that count against the limits in     *)
(* role-templates, organizations and invitations): upgradePackage,         *)
(* purchaseFeature, cancelFeature, toggleAutoRenew, repairBranchLimits,    *)
(* createRoleFromTemplate, createBranch and the midnight job               *)
(* checkExpiredPackages.                                                   *)
(*                                                                         *)
(* An update() writes the columns it names; a save() selects the row, and  *)
(* in a step of its own writes the columns in which the call's copy of the *)
(* organization differs from it.  A unit of time is a day.                 *)
(***************************************************************************)
EXTENDS Integers, FiniteSets

CONSTANTS
  Package, Freemium, Top, \* the packages, the free one, those that bundle features
  Offered,                \* the packages an organization may register on
  Tier,                   \* packages.sort_order
  Base,                   \* Base[k][r]: the limit package k grants for resource r
  Feature, Bundled,       \* what can be bought, and what Top packages include
  Raises, Value,          \* the resource a feature raises ("support": none), to what
  Call,                   \* slots for API calls running at the same time
  Period,                 \* days one payment buys
  MaxLimit,               \* the largest number a column of limits holds
  MaxTime, MaxUsage,      \* bounds: days, and members, roles and branches
  None

Resource == {"users", "roles", "branches"}
Unlimited == -1
NoDate == -1
Limit == 0..MaxLimit \cup {Unlimited}

ASSUME FreemiumIsAPackage == Freemium \in Package
ASSUME TopAndBundleAreKnown ==
  Top \subseteq Package /\ Offered \subseteq Package /\ Bundled \subseteq Feature
ASSUME TiersAreNumbers == Tier \in [Package -> Nat]
ASSUME LimitsAreBounded == MaxLimit \in Nat
ASSUME BasesAreLimits == Base \in [Package -> [Resource -> Limit]]
ASSUME FeaturesRaise ==
  /\ Raises \in [Feature -> {"users", "roles", "support"}]
  /\ Value \in [Feature -> Limit]
ASSUME SpansAreNumbers == Period \in Nat \ {0} /\ MaxTime \in Nat /\ MaxUsage \in Nat \ {0}
ASSUME NoneIsNoPackageOrFeature == None \notin Package \cup Feature

VARIABLES
  now,
  org,      \* the row of the organization
  feature,  \* the row in organization_package_features, per feature
  usage,    \* active members, custom roles, branches
  mixed,    \* history: has a save fallen across another write (see Torn)?
  call,     \* what each call has read and where it stands
  listed    \* has the midnight job listed the organization as expired?

vars == <<now, org, mixed, feature, usage, call, listed>>
row  == <<org, mixed>>

Organization == [pkg : Package, limit : [Resource -> Limit], expires : Nat \cup {NoDate},
                 upgraded : BOOLEAN, autoRenew : BOOLEAN]

\* registerOrganization takes any package, without an end; the columns user_limit
\* and role_limit keep their defaults, which are what the free package grants.
Registered(k) ==
  [pkg |-> k, limit |-> [Base[Freemium] EXCEPT !["branches"] = Base[k]["branches"]],
   expires |-> NoDate, upgraded |-> FALSE, autoRenew |-> FALSE]

Stage == {"idle", "limits", "updating", "verifying", "listing", "tidying", "bundling",
          "inserting", "dropping", "reading", "recalculating", "saving", "writing", "checking",
          "refused", "adding"}

\* A call at rest.  `org` is the copy it works on, `mixed` what `mixed` was when it
\* was read, `seen` the row its save has compared the copy with, `todo` the
\* features it has still to cancel or to bundle.
Idle == [at |-> "idle", op |-> "none", org |-> Registered(Freemium), mixed |-> FALSE,
         seen |-> Registered(Freemium), pkg |-> None,
         feature |-> None, resource |-> "roles", todo |-> {}]

Calls == [at : Stage,
          op : {"none", "upgrade", "purchase", "cancel", "settings", "add"},
          org : Organization, mixed : BOOLEAN, seen : Organization, pkg : Package \cup {None}, feature : Feature \cup {None},
          resource : Resource, todo : SUBSET Feature]

PackagesTypeOK ==
  /\ now \in 0..MaxTime
  /\ org \in Organization /\ mixed \in BOOLEAN
  /\ feature \in [Feature -> {"none", "active", "cancelled"}]
  /\ usage \in [Resource -> 0..MaxUsage] /\ usage["users"] > 0
  /\ call \in [Call -> Calls]
  /\ listed \in BOOLEAN

Init ==
  /\ now = 0
  /\ \E k \in Offered : org = Registered(k)
  /\ mixed = FALSE
  /\ feature = [f \in Feature |-> "none"]
  /\ usage = [r \in Resource |-> IF r = "users" THEN 1 ELSE 0]
  /\ call = [c \in Call |-> Idle]
  /\ listed = FALSE

-----------------------------------------------------------------------------
(* Limits *)

Active == {f \in Feature : feature[f] = "active"}

\* calculateLimits: the package's base, raised by the active features.
LimitsOf(k, F) ==
  [r \in Resource |->
     LET grants == {Base[k][r]} \cup {Value[f] : f \in {g \in F : Raises[g] = r}}
     IN  IF Unlimited \in grants THEN Unlimited
         ELSE CHOOSE m \in grants : \A n \in grants : n <= m]

Fits(n, limit) == limit = Unlimited \/ n <= limit

At(c, stage) == call[c].at = stage
Finish(c) == call' = [call EXCEPT ![c] = Idle]
Go(c, stage) == call' = [call EXCEPT ![c].at = stage]

-----------------------------------------------------------------------------
(* upgradePackage *)

Downgrade(c) == Tier[call[c].org.pkg] > Tier[call[c].pkg]

ReadForUpgrade(c, k) ==
  /\ At(c, "idle")
  /\ org.pkg # k
  /\ ~(k = Freemium /\ org.upgraded)
  /\ ~(Tier[org.pkg] > Tier[k] /\ org.expires # NoDate /\ org.expires > now)
  /\ call' = [call EXCEPT ![c] =
       [Idle EXCEPT !.at = "limits", !.op = "upgrade", !.org = org, !.pkg = k]]
  /\ UNCHANGED <<now, row, feature, usage, listed>>

\* calculateLimits, then, for a downgrade, validateDowngrade counts the members,
\* the roles and the branches.  What is read here is independent of each other,
\* so one step stands for the reads.
CalculateLimits(c) ==
  LET limit == LimitsOf(call[c].pkg, Active)
  IN  /\ At(c, "limits")
      /\ IF Downgrade(c) /\ \E r \in Resource : ~Fits(usage[r], limit[r])
         THEN Finish(c)
         ELSE call' = [call EXCEPT ![c].at = "updating", ![c].org.limit = limit]
      /\ UNCHANGED <<now, row, feature, usage, listed>>

\* An upgrade in mid-period is added to the period that runs.
NewExpiry(c) ==
  LET old == call[c].org.expires
  IN  IF call[c].pkg = Freemium THEN NoDate
      ELSE IF Tier[call[c].org.pkg] < Tier[call[c].pkg] /\ old # NoDate /\ old > now
           THEN old + Period
      ELSE now + Period

\* update(): every column but package_auto_renew.
UpdatePackage(c) ==
  /\ At(c, "updating")
  /\ org' = [org EXCEPT !.pkg = call[c].pkg, !.limit = call[c].org.limit, !.expires = NewExpiry(c),
                        !.upgraded = call[c].org.pkg = Freemium \/ call[c].org.upgraded]
  /\ mixed' = FALSE
  /\ Go(c, "verifying")
  /\ UNCHANGED <<now, feature, usage, listed>>

\* The row is read back; another package in it ends the call with an error.
VerifyPackage(c) ==
  /\ At(c, "verifying")
  /\ IF org.pkg # call[c].pkg THEN Finish(c)
     ELSE IF \E r \in {"users", "roles"} : call[c].org.limit[r] = Unlimited THEN Go(c, "listing")
     ELSE call' = [call EXCEPT ![c].at = "bundling",
                               ![c].todo = IF call[c].pkg \in Top THEN Bundled ELSE {}]
  /\ UNCHANGED <<now, row, feature, usage, listed>>

\* Features that raise what is now unlimited are redundant.
ListRedundant(c) ==
  /\ At(c, "listing")
  /\ call' = [call EXCEPT ![c].at = "tidying", ![c].todo =
       {f \in Active : Raises[f] \in {"users", "roles"} /\ call[c].org.limit[Raises[f]] = Unlimited}]
  /\ UNCHANGED <<now, row, feature, usage, listed>>

CancelRedundant(c) ==
  /\ At(c, "tidying")
  /\ \/ \E f \in call[c].todo :
          /\ feature' = [feature EXCEPT ![f] = "cancelled"]
          /\ call' = [call EXCEPT ![c].todo = @ \ {f}]
     \/ /\ call[c].todo = {}
        /\ call' = [call EXCEPT ![c].at = "bundling",
                                ![c].todo = IF call[c].pkg \in Top THEN Bundled ELSE {}]
        /\ UNCHANGED feature
  /\ UNCHANGED <<now, row, usage, listed>>

\* Chat and tickets come with a Top package, unless they are active already.
LookUpBundled(c) ==
  /\ At(c, "bundling")
  /\ \/ \E f \in call[c].todo :
          call' = [call EXCEPT ![c].todo = @ \ {f}, ![c].feature = f,
                               ![c].at = IF feature[f] = "active" THEN "bundling" ELSE "inserting"]
     \/ call[c].todo = {} /\ Finish(c)
  /\ UNCHANGED <<now, row, feature, usage, listed>>

-----------------------------------------------------------------------------
(* purchaseFeature and cancelFeature *)

ReadForPurchase(c, f) ==
  /\ At(c, "idle")
  /\ feature[f] # "active"
  /\ call' = [call EXCEPT ![c] =
       [Idle EXCEPT !.at = "inserting", !.op = "purchase", !.feature = f]]
  /\ UNCHANGED <<now, row, feature, usage, listed>>

\* A new row; the unique index on (organization_id, feature_id) refuses it when
\* there is one, active or cancelled, and the call throws.
InsertFeature(c) ==
  /\ At(c, "inserting")
  /\ IF feature[call[c].feature] # "none"
     THEN Finish(c) /\ UNCHANGED feature
     ELSE /\ feature' = [feature EXCEPT ![call[c].feature] = "active"]
          /\ Go(c, IF call[c].op = "upgrade" THEN "bundling" ELSE "reading")
  /\ UNCHANGED <<now, row, usage, listed>>

ReadForCancel(c, f) ==
  /\ At(c, "idle")
  /\ feature[f] = "active"
  /\ call' = [call EXCEPT ![c] =
       [Idle EXCEPT !.at = "dropping", !.op = "cancel", !.feature = f]]
  /\ UNCHANGED <<now, row, feature, usage, listed>>

DropFeature(c) ==
  /\ At(c, "dropping")
  /\ feature' = [feature EXCEPT ![call[c].feature] = "cancelled"]
  /\ Go(c, "reading")
  /\ UNCHANGED <<now, row, usage, listed>>

\* updateOrganizationLimits reads the organization, then the features, and saves.
ReadOrganization(c) ==
  /\ At(c, "reading")
  /\ call' = [call EXCEPT ![c].at = "recalculating", ![c].org = org, ![c].mixed = mixed]
  /\ UNCHANGED <<now, row, feature, usage, listed>>

Recalculate(c) ==
  /\ At(c, "recalculating")
  /\ call' = [call EXCEPT ![c].at = "saving", ![c].org.limit = LimitsOf(call[c].org.pkg, Active)]
  /\ UNCHANGED <<now, row, feature, usage, listed>>

\* save(organization) selects the row to compare the copy with ...
CompareOrganization(c) ==
  /\ At(c, "saving")
  /\ call' = [call EXCEPT ![c].at = "writing", ![c].seen = org]
  /\ UNCHANGED <<now, row, feature, usage, listed>>

\* Mutant: only the limits are written.
LimitsOnly(c) == [org EXCEPT !.limit = call[c].org.limit]

\* ... and updates the columns that differed, in the row as it is by then.
Saved(c) ==
  LET copy == call[c].org
      seen == call[c].seen
  IN  [pkg |-> IF copy.pkg = seen.pkg THEN org.pkg ELSE copy.pkg,
       limit |-> [r \in Resource |-> IF copy.limit[r] = seen.limit[r] THEN org.limit[r] ELSE copy.limit[r]],
       expires |-> IF copy.expires = seen.expires THEN org.expires ELSE copy.expires,
       upgraded |-> IF copy.upgraded = seen.upgraded THEN org.upgraded ELSE copy.upgraded,
       autoRenew |-> IF copy.autoRenew = seen.autoRenew THEN org.autoRenew ELSE copy.autoRenew]

\* The save writes a part of what belongs together, and the row has changed since
\* it was compared.
Belongs(o) == <<o.pkg, o.expires, o.limit["users"], o.limit["roles"]>>
Torn(c) ==
  /\ Belongs(call[c].org) # Belongs(call[c].seen)
  /\ Belongs(org) # Belongs(call[c].seen)

WriteOrganization(c) ==
  /\ At(c, "writing")
  /\ org' = Saved(c)
  /\ mixed' = IF Belongs(call[c].org) = Belongs(call[c].seen) THEN mixed
              ELSE Torn(c) \/ call[c].mixed
  /\ IF call[c].op = "cancel" THEN Go(c, "checking") ELSE Finish(c)
  /\ UNCHANGED <<now, feature, usage, listed>>

\* cancelFeature compares the use with the new limits only now, the users without
\* regard to -1, and throws if it is too high; branches are not looked at.
CheckUsage(c) ==
  /\ At(c, "checking")
  /\ IF usage["users"] <= org.limit["users"] /\ Fits(usage["roles"], org.limit["roles"])
     THEN Finish(c)
     ELSE Go(c, "refused")
  /\ UNCHANGED <<now, row, feature, usage, listed>>

Refuse(c) ==
  /\ At(c, "refused")
  /\ Finish(c)
  /\ UNCHANGED <<now, row, feature, usage, listed>>

-----------------------------------------------------------------------------
(* toggleAutoRenew and repairBranchLimits: a copy, one column of it changed *)

ReadForAutoRenew(c, enabled) ==
  /\ At(c, "idle")
  /\ call' = [call EXCEPT ![c] = [Idle EXCEPT !.at = "saving", !.op = "settings", !.mixed = mixed,
                                              !.org = [org EXCEPT !.autoRenew = enabled]]]
  /\ UNCHANGED <<now, row, feature, usage, listed>>

ReadForRepair(c) ==
  /\ At(c, "idle")
  /\ org.limit["branches"] # Base[org.pkg]["branches"]
  /\ call' = [call EXCEPT ![c] = [Idle EXCEPT !.at = "saving", !.op = "settings", !.mixed = mixed,
       !.org = [org EXCEPT !.limit["branches"] = Base[org.pkg]["branches"]]]]
  /\ UNCHANGED <<now, row, feature, usage, listed>>

-----------------------------------------------------------------------------
(* What counts against the limits *)

\* createRoleFromTemplate.
RoleAllowed ==
  /\ org.pkg # Freemium
  /\ org.limit["roles"] = Unlimited \/ usage["roles"] < org.limit["roles"]

\* createBranch looks at the package's limit, at the members (-1 is no exception)
\* and at branch_limit, in which the main organization counts as one and a 1
\* gives way to the package's limit.
BranchAllowed ==
  LET ofPackage == Base[org.pkg]["branches"]
      ofRow == org.limit["branches"]
  IN  /\ usage["branches"] < (IF ofPackage = 0 THEN 1 ELSE ofPackage)
      /\ usage["users"] < org.limit["users"]
      /\ usage["branches"] + 1 < (IF ofRow = 1 /\ ofPackage > 1 THEN ofPackage ELSE ofRow)

CheckLimit(c, r) ==
  /\ At(c, "idle")
  /\ \/ r = "roles" /\ RoleAllowed
     \/ r = "branches" /\ BranchAllowed
  /\ call' = [call EXCEPT ![c] = [Idle EXCEPT !.at = "adding", !.op = "add", !.resource = r]]
  /\ UNCHANGED <<now, row, feature, usage, listed>>

Add(c) ==
  /\ At(c, "adding")
  /\ usage[call[c].resource] < MaxUsage
  /\ usage' = [usage EXCEPT ![call[c].resource] = @ + 1]
  /\ Finish(c)
  /\ UNCHANGED <<now, row, feature, listed>>

\* acceptInvitation does not look at the limit.
MemberJoins ==
  /\ usage["users"] < MaxUsage
  /\ usage' = [usage EXCEPT !["users"] = @ + 1]
  /\ UNCHANGED <<now, row, feature, call, listed>>

\* Mutant: the owner's access can be revoked.
RemoveAnyone(r) ==
  /\ usage[r] > 0
  /\ usage' = [usage EXCEPT ![r] = @ - 1]
  /\ UNCHANGED <<now, row, feature, call, listed>>

\* deleteRole, deleteBranch, revokeAccess; the owner stays.
Remove(r) ==
  /\ usage[r] > (IF r = "users" THEN 1 ELSE 0)
  /\ usage' = [usage EXCEPT ![r] = @ - 1]
  /\ UNCHANGED <<now, row, feature, call, listed>>

-----------------------------------------------------------------------------
(* checkExpiredPackages *)

\* Mutant: only packages that end today.
EndsToday == org.expires = now

\* package_expires_at <= this midnight (a missing date compares to nothing).
Due == org.expires # NoDate /\ org.expires <= now

ListExpired ==
  /\ ~listed
  /\ Due /\ org.pkg # Freemium
  /\ listed' = TRUE
  /\ UNCHANGED <<now, row, feature, usage, call>>

\* update(): the base limits of the free package, whatever features are active;
\* branch_limit is not written.
Reverted ==
  [org EXCEPT !.pkg = Freemium, !.expires = NoDate,
              !.limit = [Base[Freemium] EXCEPT !["branches"] = org.limit["branches"]]]

RevertListed ==
  /\ listed
  /\ org' = Reverted
  /\ mixed' = FALSE
  /\ listed' = FALSE
  /\ UNCHANGED <<now, feature, usage, call>>

NextDay ==
  /\ now < MaxTime
  /\ now' = now + 1
  /\ UNCHANGED <<row, feature, usage, call, listed>>

\* A restart forgets the calls and the run of the job.
Restart ==
  /\ listed \/ \E c \in Call : ~At(c, "idle")
  /\ call' = [c \in Call |-> Idle]
  /\ listed' = FALSE
  /\ UNCHANGED <<now, row, feature, usage>>

Upgrades(c) ==
  \/ \E k \in Package : ReadForUpgrade(c, k)
  \/ CalculateLimits(c) \/ UpdatePackage(c) \/ VerifyPackage(c)
  \/ ListRedundant(c) \/ CancelRedundant(c) \/ LookUpBundled(c)

Features(c) ==
  \/ \E f \in Feature : ReadForPurchase(c, f) \/ ReadForCancel(c, f)
  \/ InsertFeature(c) \/ DropFeature(c) \/ ReadOrganization(c) \/ Recalculate(c)
  \/ CheckUsage(c) \/ Refuse(c)

Settings(c) ==
  \/ \E enabled \in BOOLEAN : ReadForAutoRenew(c, enabled)
  \/ ReadForRepair(c)
  \/ CompareOrganization(c) \/ WriteOrganization(c)

Usage ==
  \/ \E c \in Call : (\E r \in Resource : CheckLimit(c, r)) \/ Add(c)
  \/ MemberJoins
  \/ \E r \in Resource : Remove(r)

Next ==
  \/ \E c \in Call : Upgrades(c) \/ Features(c) \/ Settings(c)
  \/ Usage
  \/ ListExpired \/ RevertListed
  \/ NextDay
  \/ Restart

Spec == Init /\ [][Next]_vars

\* The midnight job runs every day the process is up, and a run goes on; that the
\* process is not restarted for ever is assumed.
FairSpec == Spec /\ WF_vars(ListExpired) /\ SF_vars(RevertListed)

-----------------------------------------------------------------------------
(* Properties *)

\* A row some call meant as a whole: the free package has no end, and the limits
\* for users and roles are those of the row's package with some set of features
\* (or, until something is bought, the column defaults).
Consistent(o) ==
  /\ o.pkg = Freemium => o.expires = NoDate
  /\ \/ \E F \in SUBSET Feature : \A r \in {"users", "roles"} : o.limit[r] = LimitsOf(o.pkg, F)[r]
     \/ o.expires = NoDate /\ \A r \in {"users", "roles"} : o.limit[r] = Base[Freemium][r]

\* Stale copies may undo an upgrade or a reversion, but upgrades, purchases,
\* cancellations, settings and the midnight job do not mix: the organization is
\* left with the limits of one package and the name or end of another only where
\* a save, between its SELECT and its UPDATE, was overtaken by another write.
RowIsConsistent == mixed \/ Consistent(org)

Expired == org.expires # NoDate /\ org.expires <= now

\* A paid period ends: at a midnight after its last day the organization is on the
\* free package or has a new period, even if stale saves bring the old row back.
PackageEnds == Expired ~> ~Expired

\* cancelFeature answers "Cannot cancel feature ... Please remove users first":
\* a refused cancellation has cancelled nothing.
RefusedIsNotCancelled ==
  \A c \in Call : At(c, "refused") => feature[call[c].feature] = "active"
=============================================================================
