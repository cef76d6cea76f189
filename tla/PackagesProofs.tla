---------------------------- MODULE PackagesProofs ----------------------------
(***************************************************************************)
(* Proofs about Packages, for any packages, features, limits, overlapping   *)
(* calls, runs of the midnight job and restarts.                            *)
(***************************************************************************)
EXTENDS Packages, WellFoundedInduction, TLAPS

-----------------------------------------------------------------------------
(* calculateLimits *)

\* Grants that are bounded numbers have a largest one, however many there are.
LEMMA LargestGrant ==
  ASSUME NEW G, G \subseteq 0..MaxLimit, G # {}
  PROVE  \E m \in G : \A n \in G : n <= m
<1> DEFINE R == {ss \in Nat \X Nat : ss[1] < ss[2]}
           T == {MaxLimit - n : n \in G}
<1>1. \A n \in G : n \in Nat /\ MaxLimit - n \in Nat
  BY LimitsAreBounded, SMT
<1>2. T \subseteq Nat
  BY <1>1
<1>3. T # {}
  <2>1. PICK n \in G : TRUE
    OBVIOUS
  <2>2. MaxLimit - n \in T
    OBVIOUS
  <2> QED BY <2>2
<1>4. IsWellFoundedOn(R, Nat)
  BY NatLessThanWellFounded DEF OpToRel
<1>5. \A x, y \in Nat : <<y, x>> \in R <=> y < x
  OBVIOUS
<1>6. \A x : x \in T => \E n \in G : x = MaxLimit - n
  OBVIOUS
<1>7. \A n \in G : MaxLimit - n \in T
  OBVIOUS
<1> HIDE DEF T, R
<1>8. PICK x \in T : \A y \in T : ~(<<y, x>> \in R)
  BY <1>2, <1>3, <1>4, WFMin
<1>9. PICK m \in G : x = MaxLimit - m
  BY <1>6, <1>8
<1>10. ASSUME NEW n \in G PROVE n <= m
  <2>1. ~(MaxLimit - n < MaxLimit - m)
    BY <1>1, <1>5, <1>7, <1>8, <1>9
  <2> QED BY <1>1, <2>1, LimitsAreBounded, SMT
<1> QED BY <1>10

\* The limits of a package with any features are limits the columns can hold.
LEMMA LimitsAreTyped ==
  ASSUME NEW k \in Package, NEW F, F \subseteq Feature
  PROVE  LimitsOf(k, F) \in [Resource -> Limit]
<1> SUFFICES ASSUME NEW r \in Resource PROVE LimitsOf(k, F)[r] \in Limit
  BY DEF LimitsOf
<1> DEFINE grants == {Base[k][r]} \cup {Value[f] : f \in {g \in F : Raises[g] = r}}
<1>1. LimitsOf(k, F)[r] = IF Unlimited \in grants THEN Unlimited
                          ELSE CHOOSE m \in grants : \A n \in grants : n <= m
  BY DEF LimitsOf
<1>2. Base[k][r] \in grants /\ grants \subseteq Limit
  <2>1. Base[k][r] \in Limit
    BY BasesAreLimits
  <2>2. \A f \in F : Value[f] \in Limit
    BY FeaturesRaise
  <2> QED BY <2>1, <2>2
<1> HIDE DEF grants
<1>3. CASE Unlimited \in grants
  BY <1>1, <1>3 DEF Limit
<1>4. CASE Unlimited \notin grants
  <2>1. grants \subseteq 0..MaxLimit
    BY <1>2, <1>4 DEF Limit
  <2>2. \E m \in grants : \A n \in grants : n <= m
    BY <1>2, <2>1, LargestGrant
  <2>3. (CHOOSE m \in grants : \A n \in grants : n <= m) \in grants
    BY <2>2
  <2> QED BY <1>1, <1>2, <1>4, <2>3
<1> QED BY <1>3, <1>4

LEMMA ActiveAreFeatures == Active \subseteq Feature
BY DEF Active

-----------------------------------------------------------------------------
(* Types *)

\* A call holds the package or the feature it was made for as long as it needs it.
CallsKnowTheirWork ==
  \A c \in Call :
    /\ call[c].at \in {"limits", "updating", "verifying"} => call[c].pkg \in Package
    /\ call[c].at \in {"inserting", "dropping"} => call[c].feature \in Feature

TypeInv == PackagesTypeOK /\ CallsKnowTheirWork

LEMMA RegisteredIsTyped ==
  ASSUME NEW k \in Package
  PROVE  Registered(k) \in Organization
<1>1. Base[Freemium] \in [Resource -> Limit] /\ Base[k]["branches"] \in Limit
  BY BasesAreLimits, FreemiumIsAPackage DEF Resource
<1>2. [Base[Freemium] EXCEPT !["branches"] = Base[k]["branches"]] \in [Resource -> Limit]
  BY <1>1
<1> QED BY <1>2 DEF Registered, Organization, NoDate

LEMMA IdleIsTyped == Idle \in Calls
BY RegisteredIsTyped, FreemiumIsAPackage DEF Idle, Calls, Stage, Resource

LEMMA TypeInvInit == Init => TypeInv
<1> SUFFICES ASSUME Init PROVE TypeInv
  OBVIOUS
<1>1. org \in Organization /\ mixed \in BOOLEAN
  BY RegisteredIsTyped, TopAndBundleAreKnown DEF Init
<1>2. usage \in [Resource -> 0..MaxUsage] /\ usage["users"] > 0
  BY SpansAreNumbers DEF Init, Resource
<1>3. call \in [Call -> Calls]
  BY IdleIsTyped DEF Init
<1>4. CallsKnowTheirWork
  BY DEF Init, CallsKnowTheirWork, Idle
<1>5. now \in 0..MaxTime
  BY SpansAreNumbers DEF Init
<1>6. listed \in BOOLEAN
  BY DEF Init
<1>7. feature \in [Feature -> {"none", "active", "cancelled"}]
  BY DEF Init
<1> QED BY <1>1, <1>2, <1>3, <1>4, <1>5, <1>6, <1>7 DEF TypeInv, PackagesTypeOK

\* A step of one call keeps the types of all when it leaves that call well typed.
LEMMA CallStep ==
  ASSUME TypeInv, NEW c \in Call, NEW r \in Calls,
         call' = [call EXCEPT ![c] = r],
         r.at \in {"limits", "updating", "verifying"} => r.pkg \in Package,
         r.at \in {"inserting", "dropping"} => r.feature \in Feature
  PROVE  call' \in [Call -> Calls] /\ CallsKnowTheirWork'
BY DEF TypeInv, PackagesTypeOK, CallsKnowTheirWork

LEMMA FinishStep ==
  ASSUME TypeInv, NEW c \in Call, Finish(c)
  PROVE  call' \in [Call -> Calls] /\ CallsKnowTheirWork'
<1>1. call' = [call EXCEPT ![c] = Idle] /\ Idle.at = "idle"
  BY DEF Finish, Idle
<1> QED BY <1>1, IdleIsTyped, CallStep

LEMMA GoStep ==
  ASSUME TypeInv, NEW c \in Call, NEW stage \in Stage, Go(c, stage),
         stage \in {"limits", "updating", "verifying"} => call[c].pkg \in Package,
         stage \in {"inserting", "dropping"} => call[c].feature \in Feature
  PROVE  call' \in [Call -> Calls] /\ CallsKnowTheirWork'
<1> DEFINE r == [call[c] EXCEPT !.at = stage]
<1>1. call[c] \in Calls
  BY DEF TypeInv, PackagesTypeOK
<1>2. r \in Calls /\ r.at = stage /\ r.pkg = call[c].pkg /\ r.feature = call[c].feature
  BY <1>1 DEF Calls
<1>3. call' = [call EXCEPT ![c] = r]
  BY DEF Go
<1> HIDE DEF r
<1> QED BY <1>2, <1>3, CallStep

\* What a save writes is a row, whatever it has been merged with.
LEMMA SavedIsTyped ==
  ASSUME TypeInv, NEW c \in Call
  PROVE  Saved(c) \in Organization
<1> DEFINE copy == call[c].org
           seen == call[c].seen
<1>1. copy \in Organization /\ org \in Organization
  BY DEF TypeInv, PackagesTypeOK, Calls
<1>2. [r \in Resource |-> IF copy.limit[r] = seen.limit[r] THEN org.limit[r] ELSE copy.limit[r]]
        \in [Resource -> Limit]
  BY <1>1 DEF Organization
<1>3. Saved(c) = [pkg |-> IF copy.pkg = seen.pkg THEN org.pkg ELSE copy.pkg,
       limit |-> [r \in Resource |-> IF copy.limit[r] = seen.limit[r] THEN org.limit[r] ELSE copy.limit[r]],
       expires |-> IF copy.expires = seen.expires THEN org.expires ELSE copy.expires,
       upgraded |-> IF copy.upgraded = seen.upgraded THEN org.upgraded ELSE copy.upgraded,
       autoRenew |-> IF copy.autoRenew = seen.autoRenew THEN org.autoRenew ELSE copy.autoRenew]
  BY DEF Saved
<1> HIDE DEF copy, seen
<1> QED BY <1>1, <1>2, <1>3 DEF Organization

LEMMA TypeInvNext == TypeInv /\ [Next]_vars => TypeInv'
<1> SUFFICES ASSUME TypeInv, [Next]_vars PROVE TypeInv'
  OBVIOUS
<1> USE DEF TypeInv, PackagesTypeOK, row
<1>1. ASSUME NEW c \in Call, Upgrades(c) PROVE TypeInv'
  <2>0. call[c] \in Calls /\ call[c].todo \subseteq Feature /\ call[c].org \in Organization
    BY DEF Calls
  <2>1. ASSUME NEW k \in Package, ReadForUpgrade(c, k) PROVE TypeInv'
    <3> DEFINE r == [Idle EXCEPT !.at = "limits", !.op = "upgrade", !.org = org, !.pkg = k]
    <3>1. r \in Calls /\ r.pkg \in Package /\ r.at = "limits"
      BY IdleIsTyped DEF Calls, Stage, Idle
    <3>2. call' = [call EXCEPT ![c] = r]
      BY <2>1 DEF ReadForUpgrade
    <3> HIDE DEF r
    <3>3. call' \in [Call -> Calls] /\ CallsKnowTheirWork'
      BY <3>1, <3>2, CallStep
    <3> QED BY <2>1, <3>3 DEF ReadForUpgrade
  <2>2. ASSUME CalculateLimits(c) PROVE TypeInv'
    <3> DEFINE limit == LimitsOf(call[c].pkg, Active)
               r == [call[c] EXCEPT !.at = "updating", !.org.limit = limit]
    <3>1. call[c].pkg \in Package
      BY <2>2 DEF CalculateLimits, At, CallsKnowTheirWork
    <3>2. limit \in [Resource -> Limit]
      BY <3>1, LimitsAreTyped, ActiveAreFeatures
    <3>3. Finish(c) \/ call' = [call EXCEPT ![c] = r]
      BY <2>2 DEF CalculateLimits
    <3> HIDE DEF limit
    <3>4. r \in Calls /\ r.pkg \in Package /\ r.at = "updating"
      BY <2>0, <3>1, <3>2 DEF Calls, Stage, Organization
    <3> HIDE DEF r
    <3>5. call' \in [Call -> Calls] /\ CallsKnowTheirWork'
      BY <3>3, <3>4, CallStep, FinishStep
    <3> QED BY <2>2, <3>5 DEF CalculateLimits
  <2>3. ASSUME UpdatePackage(c) PROVE TypeInv'
    <3>1. call[c].pkg \in Package
      BY <2>3 DEF UpdatePackage, At, CallsKnowTheirWork
    <3>2. NewExpiry(c) \in Nat \cup {NoDate}
      BY <2>0, SpansAreNumbers DEF NewExpiry, Organization
    <3>3. org' \in Organization
      <4> DEFINE upgraded == call[c].org.pkg = Freemium \/ call[c].org.upgraded
      <4>1. upgraded \in BOOLEAN
        BY <2>0 DEF Organization
      <4>2. org' = [org EXCEPT !.pkg = call[c].pkg, !.limit = call[c].org.limit,
                               !.expires = NewExpiry(c), !.upgraded = upgraded]
        BY <2>3 DEF UpdatePackage
      <4> HIDE DEF upgraded
      <4> QED BY <2>0, <3>1, <3>2, <4>1, <4>2 DEF Organization
    <3>4. call' \in [Call -> Calls] /\ CallsKnowTheirWork'
      BY <2>3, <3>1, GoStep DEF UpdatePackage, Stage
    <3> QED BY <2>3, <3>3, <3>4 DEF UpdatePackage
  <2>4. ASSUME VerifyPackage(c) \/ ListRedundant(c) \/ CancelRedundant(c) PROVE TypeInv'
    <3>1. ASSUME NEW stage \in {"tidying", "bundling"}, NEW F, F \subseteq Feature,
                 call' = [call EXCEPT ![c].at = stage, ![c].todo = F]
          PROVE  call' \in [Call -> Calls] /\ CallsKnowTheirWork'
      <4> DEFINE r == [call[c] EXCEPT !.at = stage, !.todo = F]
      <4>0. F \in SUBSET Feature
        BY <3>1
      <4>1. stage \in Stage /\ r \in Calls /\ r.at = stage
        BY <2>0, <3>1, <4>0 DEF Calls, Stage
      <4>2. call' = [call EXCEPT ![c] = r]
        BY <3>1
      <4> HIDE DEF r
      <4> QED BY <4>1, <4>2, CallStep
    <3>2. CASE VerifyPackage(c)
      <4> DEFINE F == IF call[c].pkg \in Top THEN Bundled ELSE {}
      <4>1. F \subseteq Feature
        BY TopAndBundleAreKnown
      <4>2. Finish(c) \/ Go(c, "listing") \/ call' = [call EXCEPT ![c].at = "bundling", ![c].todo = F]
        BY <3>2 DEF VerifyPackage
      <4> HIDE DEF F
      <4>3. call' \in [Call -> Calls] /\ CallsKnowTheirWork'
        BY <3>1, <4>1, <4>2, FinishStep, GoStep DEF Stage
      <4> QED BY <3>2, <4>3 DEF VerifyPackage
    <3>3. CASE ListRedundant(c)
      <4> DEFINE F == {f \in Active : /\ Raises[f] \in {"users", "roles"}
                                      /\ call[c].org.limit[Raises[f]] = Unlimited}
      <4>1. F \subseteq Feature
        BY ActiveAreFeatures
      <4>2. call' = [call EXCEPT ![c].at = "tidying", ![c].todo = F]
        BY <3>3 DEF ListRedundant
      <4> HIDE DEF F
      <4>3. call' \in [Call -> Calls] /\ CallsKnowTheirWork'
        BY <3>1, <4>1, <4>2
      <4> QED BY <3>3, <4>3 DEF ListRedundant
    <3>4. CASE CancelRedundant(c)
      <4>1. ASSUME NEW f \in call[c].todo,
                   feature' = [feature EXCEPT ![f] = "cancelled"],
                   call' = [call EXCEPT ![c].todo = @ \ {f}]
            PROVE  /\ feature' \in [Feature -> {"none", "active", "cancelled"}]
                   /\ call' \in [Call -> Calls] /\ CallsKnowTheirWork'
        <5> DEFINE r == [call[c] EXCEPT !.todo = @ \ {f}]
        <5>1. r \in Calls /\ r.at = "tidying"
          BY <2>0, <3>4 DEF CancelRedundant, At, Calls
        <5>2. call' = [call EXCEPT ![c] = r]
          BY <4>1
        <5> HIDE DEF r
        <5>3. call' \in [Call -> Calls] /\ CallsKnowTheirWork'
          BY <5>1, <5>2, CallStep
        <5>4. f \in Feature
          BY <2>0
        <5> QED BY <4>1, <5>3, <5>4
      <4> DEFINE F == IF call[c].pkg \in Top THEN Bundled ELSE {}
      <4>2. F \subseteq Feature
        BY TopAndBundleAreKnown
      <4>3. ASSUME call' = [call EXCEPT ![c].at = "bundling", ![c].todo = F]
            PROVE  call' \in [Call -> Calls] /\ CallsKnowTheirWork'
        <5> HIDE DEF F
        <5> QED BY <3>1, <4>2, <4>3
      <4> QED BY <3>4, <4>1, <4>3 DEF CancelRedundant
    <3> QED BY <2>4, <3>2, <3>3, <3>4
  <2>5. ASSUME LookUpBundled(c) PROVE TypeInv'
    <3>1. CASE Finish(c)
      BY <2>5, <3>1, FinishStep DEF LookUpBundled
    <3>2. ASSUME NEW f \in call[c].todo, NEW stage \in {"bundling", "inserting"},
                 call' = [call EXCEPT ![c].todo = @ \ {f}, ![c].feature = f, ![c].at = stage]
          PROVE  call' \in [Call -> Calls] /\ CallsKnowTheirWork'
      <4> DEFINE r == [call[c] EXCEPT !.todo = @ \ {f}, !.feature = f, !.at = stage]
      <4>1. r \in Calls /\ r.at = stage /\ r.feature \in Feature
        BY <2>0 DEF Calls, Stage
      <4>2. call' = [call EXCEPT ![c] = r]
        BY <3>2
      <4> HIDE DEF r
      <4> QED BY <4>1, <4>2, CallStep
    <3> QED BY <2>5, <3>1, <3>2 DEF LookUpBundled
  <2> QED BY <1>1, <2>1, <2>2, <2>3, <2>4, <2>5 DEF Upgrades
<1>2. ASSUME NEW c \in Call, Features(c) PROVE TypeInv'
  <2>0. call[c] \in Calls /\ call[c].org \in Organization
    BY DEF Calls
  <2>1. ASSUME NEW f \in Feature, ReadForPurchase(c, f) \/ ReadForCancel(c, f) PROVE TypeInv'
    <3> DEFINE r(stage, op) == [Idle EXCEPT !.at = stage, !.op = op, !.feature = f]
    <3>1. /\ r("inserting", "purchase") \in Calls /\ r("inserting", "purchase").feature = f
          /\ r("inserting", "purchase").at = "inserting"
      BY IdleIsTyped DEF Calls, Stage, Idle
    <3>2. /\ r("dropping", "cancel") \in Calls /\ r("dropping", "cancel").feature = f
          /\ r("dropping", "cancel").at = "dropping"
      BY IdleIsTyped DEF Calls, Stage, Idle
    <3>3. \/ call' = [call EXCEPT ![c] = r("inserting", "purchase")]
          \/ call' = [call EXCEPT ![c] = r("dropping", "cancel")]
      BY <2>1 DEF ReadForPurchase, ReadForCancel
    <3> HIDE DEF r
    <3>4. call' \in [Call -> Calls] /\ CallsKnowTheirWork'
      BY <3>1, <3>2, <3>3, CallStep
    <3> QED BY <2>1, <3>4 DEF ReadForPurchase, ReadForCancel
  <2>2. ASSUME InsertFeature(c) PROVE TypeInv'
    <3>1. call' \in [Call -> Calls] /\ CallsKnowTheirWork'
      BY <2>2, FinishStep, GoStep DEF InsertFeature, Stage
    <3>2. feature' \in [Feature -> {"none", "active", "cancelled"}]
      BY <2>2 DEF InsertFeature
    <3> QED BY <2>2, <3>1, <3>2 DEF InsertFeature
  <2>3. ASSUME DropFeature(c) PROVE TypeInv'
    <3>1. call' \in [Call -> Calls] /\ CallsKnowTheirWork'
      BY <2>3, GoStep DEF DropFeature, Stage
    <3> QED BY <2>3, <3>1 DEF DropFeature
  <2>4. ASSUME ReadOrganization(c) PROVE TypeInv'
    <3> DEFINE r == [call[c] EXCEPT !.at = "recalculating", !.org = org, !.mixed = mixed]
    <3>1. r \in Calls /\ r.at = "recalculating" /\ call' = [call EXCEPT ![c] = r]
      BY <2>0, <2>4 DEF ReadOrganization, Calls, Stage
    <3> HIDE DEF r
    <3>2. call' \in [Call -> Calls] /\ CallsKnowTheirWork'
      BY <3>1, CallStep
    <3> QED BY <2>4, <3>2 DEF ReadOrganization
  <2>5. ASSUME Recalculate(c) PROVE TypeInv'
    <3> DEFINE limit == LimitsOf(call[c].org.pkg, Active)
               r == [call[c] EXCEPT !.at = "saving", !.org.limit = limit]
    <3>1. call' = [call EXCEPT ![c] = r]
      BY <2>5 DEF Recalculate
    <3>2. limit \in [Resource -> Limit]
      BY <2>0, LimitsAreTyped, ActiveAreFeatures DEF Organization
    <3> HIDE DEF limit
    <3>3. r \in Calls /\ r.at = "saving"
      BY <2>0, <3>2 DEF Calls, Stage, Organization
    <3> HIDE DEF r
    <3>4. call' \in [Call -> Calls] /\ CallsKnowTheirWork'
      BY <3>1, <3>3, CallStep
    <3> QED BY <2>5, <3>4 DEF Recalculate
  <2>6. ASSUME CheckUsage(c) \/ Refuse(c) PROVE TypeInv'
    <3>1. call' \in [Call -> Calls] /\ CallsKnowTheirWork'
      BY <2>6, FinishStep, GoStep DEF CheckUsage, Refuse, Stage
    <3> QED BY <2>6, <3>1 DEF CheckUsage, Refuse
  <2> QED BY <1>2, <2>1, <2>2, <2>3, <2>4, <2>5, <2>6 DEF Features
<1>3. ASSUME NEW c \in Call, Settings(c) PROVE TypeInv'
  <2>1. ASSUME NEW copy \in Organization,
               call' = [call EXCEPT ![c] = [Idle EXCEPT !.at = "saving", !.op = "settings", !.mixed = mixed, !.org = copy]]
        PROVE  call' \in [Call -> Calls] /\ CallsKnowTheirWork'
    <3> DEFINE r == [Idle EXCEPT !.at = "saving", !.op = "settings", !.mixed = mixed, !.org = copy]
    <3>1. r \in Calls /\ r.at = "saving" /\ call' = [call EXCEPT ![c] = r]
      BY <2>1, IdleIsTyped DEF Calls, Stage, Idle
    <3> HIDE DEF r
    <3> QED BY <3>1, CallStep
  <2>2. ASSUME NEW enabled \in BOOLEAN, ReadForAutoRenew(c, enabled) PROVE TypeInv'
    <3>1. [org EXCEPT !.autoRenew = enabled] \in Organization
      BY DEF Organization
    <3> QED BY <2>1, <2>2, <3>1 DEF ReadForAutoRenew
  <2>3. ASSUME ReadForRepair(c) PROVE TypeInv'
    <3>1. Base[org.pkg]["branches"] \in Limit
      BY BasesAreLimits DEF Organization, Resource
    <3>2. [org EXCEPT !.limit["branches"] = Base[org.pkg]["branches"]] \in Organization
      BY <3>1 DEF Organization
    <3> QED BY <2>1, <2>3, <3>2 DEF ReadForRepair
  <2>4. ASSUME CompareOrganization(c) PROVE TypeInv'
    <3> DEFINE r == [call[c] EXCEPT !.at = "writing", !.seen = org]
    <3>1. r \in Calls /\ r.at = "writing" /\ call' = [call EXCEPT ![c] = r]
      BY <2>4 DEF CompareOrganization, Calls, Stage
    <3> HIDE DEF r
    <3>2. call' \in [Call -> Calls] /\ CallsKnowTheirWork'
      BY <3>1, CallStep
    <3> QED BY <2>4, <3>2 DEF CompareOrganization
  <2>5. ASSUME WriteOrganization(c) PROVE TypeInv'
    <3>1. call' \in [Call -> Calls] /\ CallsKnowTheirWork'
      BY <2>5, FinishStep, GoStep DEF WriteOrganization, Stage
    <3>2. Saved(c) \in Organization
      BY SavedIsTyped
    <3>3. mixed' \in BOOLEAN
      BY <2>5 DEF WriteOrganization, Torn, Calls
    <3> QED BY <2>5, <3>1, <3>2, <3>3 DEF WriteOrganization
  <2> QED BY <1>3, <2>2, <2>3, <2>4, <2>5 DEF Settings
<1>4. ASSUME Usage PROVE TypeInv'
  <2>1. ASSUME NEW c \in Call, NEW r \in Resource, CheckLimit(c, r) PROVE TypeInv'
    <3> DEFINE s == [Idle EXCEPT !.at = "adding", !.op = "add", !.resource = r]
    <3>1. s \in Calls /\ s.at = "adding" /\ call' = [call EXCEPT ![c] = s]
      BY <2>1, IdleIsTyped DEF CheckLimit, Calls, Stage, Idle
    <3> HIDE DEF s
    <3>2. call' \in [Call -> Calls] /\ CallsKnowTheirWork'
      BY <3>1, CallStep
    <3> QED BY <2>1, <3>2 DEF CheckLimit
  <2>2. ASSUME NEW c \in Call, Add(c) PROVE TypeInv'
    <3>1. call[c].resource \in Resource
      BY DEF Calls
    <3>2. usage' \in [Resource -> 0..MaxUsage] /\ usage'["users"] > 0
      BY <2>2, <3>1, SpansAreNumbers DEF Add, Resource
    <3> QED BY <2>2, <3>2, FinishStep DEF Add
  <2>3. ASSUME MemberJoins PROVE TypeInv'
    <3>1. usage' \in [Resource -> 0..MaxUsage] /\ usage'["users"] > 0
      BY <2>3, SpansAreNumbers DEF MemberJoins, Resource
    <3> QED BY <2>3, <3>1 DEF MemberJoins, CallsKnowTheirWork
  <2>4. ASSUME NEW r \in Resource, Remove(r) PROVE TypeInv'
    <3>1. usage' \in [Resource -> 0..MaxUsage] /\ usage'["users"] > 0
      BY <2>4, SpansAreNumbers DEF Remove, Resource
    <3> QED BY <2>4, <3>1 DEF Remove, CallsKnowTheirWork
  <2> QED BY <1>4, <2>1, <2>2, <2>3, <2>4 DEF Usage
<1>5. CASE ListExpired
  BY <1>5 DEF ListExpired, CallsKnowTheirWork
<1>6. CASE RevertListed
  <2>1. org.limit["branches"] \in Limit /\ Base[Freemium] \in [Resource -> Limit]
    BY BasesAreLimits, FreemiumIsAPackage DEF Organization, Resource
  <2>2. [Base[Freemium] EXCEPT !["branches"] = org.limit["branches"]] \in [Resource -> Limit]
    BY <2>1
  <2>3. Reverted \in Organization
    BY <2>2, FreemiumIsAPackage DEF Reverted, Organization
  <2> QED BY <1>6, <2>3 DEF RevertListed, CallsKnowTheirWork
<1>7. CASE NextDay
  BY <1>7, SpansAreNumbers DEF NextDay, CallsKnowTheirWork
<1>8. CASE Restart
  BY <1>8, IdleIsTyped DEF Restart, CallsKnowTheirWork, Idle
<1>9. CASE UNCHANGED vars
  BY <1>9 DEF vars, CallsKnowTheirWork
<1> QED BY <1>1, <1>2, <1>3, <1>4, <1>5, <1>6, <1>7, <1>8, <1>9 DEF Next

\* Whatever overlaps and restarts, every column keeps its type: limits are never
\* undefined, ends are dates, and the founder is always counted.
THEOREM PackagesTypeCorrect == Spec => []PackagesTypeOK
<1>1. TypeInv => PackagesTypeOK
  BY DEF TypeInv
<1> QED BY <1>1, TypeInvInit, TypeInvNext, PTL DEF Spec

-----------------------------------------------------------------------------
(* The row of the organization *)

\* What a call is about to write is a row as a whole: a copy that is saved was a
\* consistent row when it was read (or one that a save had mixed) and keeps its
\* package, and the limits of an upgrade are those of the package it upgrades to.
CopiesAreConsistent ==
  \A c \in Call :
    /\ call[c].at \in {"recalculating", "saving", "writing"} =>
         call[c].mixed \/ Consistent(call[c].org)
    /\ call[c].at = "updating" =>
         \E F \in SUBSET Feature : call[c].org.limit = LimitsOf(call[c].pkg, F)

RowInv == TypeInv /\ RowIsConsistent /\ CopiesAreConsistent

\* Columns besides the package, its end and its limits for users and roles do
\* not matter, and neither do the features it is recalculated with.
LEMMA SameIsConsistent ==
  ASSUME NEW o, NEW p, Consistent(o), p.pkg = o.pkg, p.expires = o.expires,
         \A r \in {"users", "roles"} : p.limit[r] = o.limit[r]
  PROVE  Consistent(p)
BY DEF Consistent

LEMMA RecalculatedIsConsistent ==
  ASSUME NEW o, o.pkg = Freemium => o.expires = NoDate,
         NEW F \in SUBSET Feature, o.limit = LimitsOf(o.pkg, F)
  PROVE  Consistent(o)
BY DEF Consistent

LEMMA RegisteredIsConsistent ==
  ASSUME NEW k \in Package
  PROVE  Consistent(Registered(k))
<1>1. Base[Freemium] \in [Resource -> Limit]
  BY BasesAreLimits, FreemiumIsAPackage
<1>2. \A r \in {"users", "roles"} : Registered(k).limit[r] = Base[Freemium][r]
  BY <1>1 DEF Registered, Resource
<1> QED BY <1>2 DEF Registered, Consistent

LEMMA RowInvInit == Init => RowInv
<1> SUFFICES ASSUME Init PROVE RowInv
  OBVIOUS
<1>1. RowIsConsistent
  BY RegisteredIsConsistent, TopAndBundleAreKnown DEF Init, RowIsConsistent
<1>2. CopiesAreConsistent
  BY DEF Init, CopiesAreConsistent, Idle
<1> QED BY <1>1, <1>2, TypeInvInit DEF RowInv

\* A step that leaves the row alone and moves one call keeps the invariant when
\* that call's copy is consistent or no longer of use.
LEMMA CopyStep ==
  ASSUME RowInv, NEW c \in Call, NEW r, call' = [call EXCEPT ![c] = r],
         r.at \in {"recalculating", "saving", "writing"} => r.mixed \/ Consistent(r.org),
         r.at = "updating" => \E F \in SUBSET Feature : r.org.limit = LimitsOf(r.pkg, F)
  PROVE  CopiesAreConsistent'
<1> SUFFICES ASSUME NEW d \in Call
             PROVE  /\ call'[d].at \in {"recalculating", "saving", "writing"} =>
                         call'[d].mixed \/ Consistent(call'[d].org)
                    /\ call'[d].at = "updating" =>
                         \E F \in SUBSET Feature : call'[d].org.limit = LimitsOf(call'[d].pkg, F)
  BY DEF CopiesAreConsistent, Consistent, LimitsOf
<1>1. call'[c] = r /\ (d # c => call'[d] = call[d])
  BY DEF RowInv, TypeInv, PackagesTypeOK
<1> QED BY <1>1 DEF RowInv, CopiesAreConsistent

\* ... whatever else the step does to the call.
LEMMA QuietStep ==
  ASSUME RowInv, NEW c \in Call, \A d \in Call : d # c => call'[d] = call[d],
         call'[c].at \notin {"recalculating", "saving", "writing", "updating"}
  PROVE  CopiesAreConsistent'
<1> SUFFICES ASSUME NEW d \in Call
             PROVE  /\ call'[d].at \in {"recalculating", "saving", "writing"} =>
                         call'[d].mixed \/ Consistent(call'[d].org)
                    /\ call'[d].at = "updating" =>
                         \E F \in SUBSET Feature : call'[d].org.limit = LimitsOf(call'[d].pkg, F)
  BY DEF CopiesAreConsistent, Consistent, LimitsOf
<1> QED BY DEF RowInv, CopiesAreConsistent

LEMMA PassStep ==
  ASSUME RowInv, NEW c \in Call, NEW stage \in Stage, Go(c, stage) \/ Finish(c),
         stage \notin {"recalculating", "saving", "writing", "updating"}
  PROVE  CopiesAreConsistent'
<1>1. call[c] \in Calls
  BY DEF RowInv, TypeInv, PackagesTypeOK
<1> DEFINE r == [call[c] EXCEPT !.at = stage]
<1>2. r.at = stage
  BY <1>1 DEF Calls
<1>3. call' = [call EXCEPT ![c] = r] \/ call' = [call EXCEPT ![c] = Idle]
  BY DEF Go, Finish
<1>4. Idle.at = "idle"
  BY DEF Idle
<1> HIDE DEF r
<1> QED BY <1>2, <1>3, <1>4, CopyStep

LEMMA CallsUnchanged == RowInv /\ UNCHANGED call => CopiesAreConsistent'
<1> SUFFICES ASSUME RowInv, UNCHANGED call, NEW d \in Call
             PROVE  /\ call'[d].at \in {"recalculating", "saving", "writing"} =>
                         call'[d].mixed \/ Consistent(call'[d].org)
                    /\ call'[d].at = "updating" =>
                         \E F \in SUBSET Feature : call'[d].org.limit = LimitsOf(call'[d].pkg, F)
  BY DEF CopiesAreConsistent, Consistent, LimitsOf
<1> QED BY DEF RowInv, CopiesAreConsistent

LEMMA RowInvNext == RowInv /\ [Next]_vars => RowInv'
<1> SUFFICES ASSUME RowInv, [Next]_vars PROVE RowInv'
  OBVIOUS
<1>1. TypeInv'
  BY TypeInvNext DEF RowInv
<1> USE DEF row
<1>2. ASSUME UNCHANGED row PROVE RowIsConsistent'
  BY <1>2 DEF RowInv, RowIsConsistent
<1>3. org \in Organization /\ mixed \in BOOLEAN /\ (mixed \/ Consistent(org))
  BY DEF RowInv, TypeInv, PackagesTypeOK, RowIsConsistent
<1>4. ASSUME NEW c \in Call, Upgrades(c) PROVE RowIsConsistent' /\ CopiesAreConsistent'
  <2>0. call \in [Call -> Calls] /\ call[c] \in Calls /\ call[c].org \in Organization
    BY DEF RowInv, TypeInv, PackagesTypeOK, Calls
  <2>1. ASSUME NEW k \in Package, ReadForUpgrade(c, k) PROVE RowIsConsistent' /\ CopiesAreConsistent'
    <3> DEFINE r == [Idle EXCEPT !.at = "limits", !.op = "upgrade", !.org = org, !.pkg = k]
    <3>1. r.at = "limits" /\ call' = [call EXCEPT ![c] = r]
      BY <2>1 DEF ReadForUpgrade, Idle
    <3> HIDE DEF r
    <3> QED BY <1>2, <2>1, <3>1, CopyStep DEF ReadForUpgrade
  <2>2. ASSUME CalculateLimits(c) PROVE RowIsConsistent' /\ CopiesAreConsistent'
    <3> DEFINE limit == LimitsOf(call[c].pkg, Active)
               r == [call[c] EXCEPT !.at = "updating", !.org.limit = limit]
    <3>1. Finish(c) \/ call' = [call EXCEPT ![c] = r]
      BY <2>2 DEF CalculateLimits
    <3>2. r.at = "updating" /\ r.pkg = call[c].pkg /\ r.org.limit = limit
      BY <2>0 DEF Calls, Organization
    <3> HIDE DEF r
    <3>3. \E F \in SUBSET Feature : r.org.limit = LimitsOf(r.pkg, F)
      BY <3>2, ActiveAreFeatures
    <3>4. CopiesAreConsistent'
      BY <3>1, <3>2, <3>3, CopyStep, PassStep DEF Stage
    <3> QED BY <1>2, <2>2, <3>4 DEF CalculateLimits
  <2>3. ASSUME UpdatePackage(c) PROVE RowIsConsistent' /\ CopiesAreConsistent'
    <3>1. PICK F \in SUBSET Feature : call[c].org.limit = LimitsOf(call[c].pkg, F)
      BY <2>3 DEF UpdatePackage, At, RowInv, CopiesAreConsistent
    <3>2. /\ org'.pkg = call[c].pkg /\ org'.limit = call[c].org.limit
          /\ org'.expires = NewExpiry(c)
      BY <1>3, <2>3 DEF UpdatePackage, Organization
    <3>3. Consistent(org')
      BY <3>1, <3>2, RecalculatedIsConsistent DEF NewExpiry
    <3>4. CopiesAreConsistent'
      BY <2>3, PassStep DEF UpdatePackage, Stage
    <3> QED BY <3>3, <3>4 DEF RowIsConsistent, Consistent, LimitsOf
  <2>4. ASSUME VerifyPackage(c) \/ ListRedundant(c) \/ CancelRedundant(c) \/ LookUpBundled(c)
        PROVE  RowIsConsistent' /\ CopiesAreConsistent'
    <3>1. /\ \A d \in Call : d # c => call'[d] = call[d]
          /\ call'[c].at \in {"idle", "listing", "tidying", "bundling", "inserting"}
      <4>1. CASE VerifyPackage(c)
        BY <2>0, <4>1 DEF VerifyPackage, Finish, Go, Idle, Calls
      <4>2. CASE ListRedundant(c)
        BY <2>0, <4>2 DEF ListRedundant, Calls
      <4>3. CASE CancelRedundant(c)
        <5>1. call[c].at = "tidying"
          BY <4>3 DEF CancelRedundant, At
        <5>2. ASSUME NEW f \in call[c].todo, call' = [call EXCEPT ![c].todo = @ \ {f}]
              PROVE  (\A d \in Call : d # c => call'[d] = call[d]) /\ call'[c].at = "tidying"
          BY <2>0, <5>1, <5>2 DEF Calls
        <5>3. ASSUME NEW F, call' = [call EXCEPT ![c].at = "bundling", ![c].todo = F]
              PROVE  (\A d \in Call : d # c => call'[d] = call[d]) /\ call'[c].at = "bundling"
          BY <2>0, <5>3 DEF Calls
        <5> QED BY <4>3, <5>2, <5>3 DEF CancelRedundant
      <4>4. CASE LookUpBundled(c)
        <5>1. CASE Finish(c)
          BY <2>0, <5>1 DEF Finish, Idle
        <5>2. ASSUME NEW f \in call[c].todo, NEW stage \in {"bundling", "inserting"},
                     call' = [call EXCEPT ![c].todo = @ \ {f}, ![c].feature = f, ![c].at = stage]
              PROVE  (\A d \in Call : d # c => call'[d] = call[d]) /\ call'[c].at = stage
          BY <2>0, <5>2 DEF Calls
        <5> QED BY <4>4, <5>1, <5>2 DEF LookUpBundled
      <4> QED BY <2>4, <4>1, <4>2, <4>3, <4>4
    <3>2. CopiesAreConsistent'
      BY <3>1, QuietStep
    <3> QED BY <1>2, <2>4, <3>2 DEF VerifyPackage, ListRedundant, CancelRedundant, LookUpBundled
  <2> QED BY <1>4, <2>1, <2>2, <2>3, <2>4 DEF Upgrades
<1>5. ASSUME NEW c \in Call, Features(c) PROVE RowIsConsistent' /\ CopiesAreConsistent'
  <2>0. call[c] \in Calls /\ call[c].org \in Organization
    BY DEF RowInv, TypeInv, PackagesTypeOK, Calls
  <2>1. UNCHANGED row
    BY <1>5 DEF Features, ReadForPurchase, ReadForCancel, InsertFeature, DropFeature,
                ReadOrganization, Recalculate, CheckUsage, Refuse
  <2>2. ASSUME NEW f \in Feature, ReadForPurchase(c, f) \/ ReadForCancel(c, f)
        PROVE  CopiesAreConsistent'
    <3>1. call \in [Call -> Calls]
      BY DEF RowInv, TypeInv, PackagesTypeOK
    <3>2. /\ \A d \in Call : d # c => call'[d] = call[d]
          /\ call'[c].at \in {"inserting", "dropping"}
      BY <2>2, <3>1 DEF ReadForPurchase, ReadForCancel, Idle
    <3> QED BY <3>2, QuietStep
  <2>3. ASSUME InsertFeature(c) \/ DropFeature(c) \/ CheckUsage(c) \/ Refuse(c)
        PROVE  CopiesAreConsistent'
    BY <2>3, PassStep DEF InsertFeature, DropFeature, CheckUsage, Refuse, Stage
  <2>4. ASSUME ReadOrganization(c) PROVE CopiesAreConsistent'
    <3> DEFINE r == [call[c] EXCEPT !.at = "recalculating", !.org = org, !.mixed = mixed]
    <3>1. r.at = "recalculating" /\ r.org = org /\ r.mixed = mixed /\ call' = [call EXCEPT ![c] = r]
      BY <2>0, <2>4 DEF ReadOrganization, Calls
    <3> HIDE DEF r
    <3> QED BY <1>3, <3>1, CopyStep
  <2>5. ASSUME Recalculate(c) PROVE CopiesAreConsistent'
    <3> DEFINE limit == LimitsOf(call[c].org.pkg, Active)
               r == [call[c] EXCEPT !.at = "saving", !.org.limit = limit]
    <3>1. call[c].mixed \/ Consistent(call[c].org)
      BY <2>5 DEF Recalculate, At, RowInv, CopiesAreConsistent
    <3>2. call' = [call EXCEPT ![c] = r]
      BY <2>5 DEF Recalculate
    <3>3. /\ r.at = "saving" /\ r.org.pkg = call[c].org.pkg /\ r.mixed = call[c].mixed
          /\ r.org.expires = call[c].org.expires /\ r.org.limit = limit
      BY <2>0 DEF Calls, Organization
    <3> HIDE DEF r
    <3>4. Active \in SUBSET Feature
      BY ActiveAreFeatures
    <3>5. r.mixed \/ (r.org.pkg = Freemium => r.org.expires = NoDate)
      BY <3>1, <3>3 DEF Consistent
    <3>6. r.mixed \/ Consistent(r.org)
      BY <3>3, <3>4, <3>5, RecalculatedIsConsistent
    <3> QED BY <3>2, <3>3, <3>6, CopyStep
  <2> QED BY <1>2, <1>5, <2>1, <2>2, <2>3, <2>4, <2>5 DEF Features
<1>6. ASSUME NEW c \in Call, Settings(c) PROVE RowIsConsistent' /\ CopiesAreConsistent'
  <2>1. ASSUME NEW copy, mixed \/ Consistent(copy),
               call' = [call EXCEPT ![c] = [Idle EXCEPT !.at = "saving", !.op = "settings", !.mixed = mixed, !.org = copy]]
        PROVE  CopiesAreConsistent'
    <3> DEFINE r == [Idle EXCEPT !.at = "saving", !.op = "settings", !.mixed = mixed, !.org = copy]
    <3>1. r.at = "saving" /\ r.org = copy /\ r.mixed = mixed /\ call' = [call EXCEPT ![c] = r]
      BY <2>1 DEF Idle
    <3> HIDE DEF r
    <3> QED BY <2>1, <3>1, CopyStep
  <2>2. ASSUME NEW enabled \in BOOLEAN, ReadForAutoRenew(c, enabled)
        PROVE  RowIsConsistent' /\ CopiesAreConsistent'
    <3> DEFINE copy == [org EXCEPT !.autoRenew = enabled]
    <3>1. copy.pkg = org.pkg /\ copy.expires = org.expires /\ copy.limit = org.limit
      BY <1>3 DEF Organization
    <3>2. call' = [call EXCEPT ![c] = [Idle EXCEPT !.at = "saving", !.op = "settings", !.mixed = mixed, !.org = copy]]
      BY <2>2 DEF ReadForAutoRenew
    <3> HIDE DEF copy
    <3>3. mixed \/ Consistent(copy)
      BY <1>3, <3>1, SameIsConsistent
    <3> QED BY <1>2, <2>1, <2>2, <3>2, <3>3 DEF ReadForAutoRenew
  <2>3. ASSUME ReadForRepair(c) PROVE RowIsConsistent' /\ CopiesAreConsistent'
    <3> DEFINE copy == [org EXCEPT !.limit["branches"] = Base[org.pkg]["branches"]]
    <3>1. /\ copy.pkg = org.pkg /\ copy.expires = org.expires
          /\ \A r \in {"users", "roles"} : copy.limit[r] = org.limit[r]
      BY <1>3 DEF Organization, Resource
    <3>2. call' = [call EXCEPT ![c] = [Idle EXCEPT !.at = "saving", !.op = "settings", !.mixed = mixed, !.org = copy]]
      BY <2>3 DEF ReadForRepair
    <3> HIDE DEF copy
    <3>3. mixed \/ Consistent(copy)
      BY <1>3, <3>1, SameIsConsistent
    <3> QED BY <1>2, <2>1, <2>3, <3>2, <3>3 DEF ReadForRepair
  <2>4. ASSUME CompareOrganization(c) PROVE RowIsConsistent' /\ CopiesAreConsistent'
    <3> DEFINE r == [call[c] EXCEPT !.at = "writing", !.seen = org]
    <3>0. call[c] \in Calls
      BY DEF RowInv, TypeInv, PackagesTypeOK
    <3>1. /\ r.at = "writing" /\ r.org = call[c].org /\ r.mixed = call[c].mixed
          /\ call' = [call EXCEPT ![c] = r]
      BY <2>4, <3>0 DEF CompareOrganization, Calls
    <3>2. call[c].mixed \/ Consistent(call[c].org)
      BY <2>4 DEF CompareOrganization, At, RowInv, CopiesAreConsistent
    <3> HIDE DEF r
    <3>3. CopiesAreConsistent'
      BY <3>1, <3>2, CopyStep
    <3> QED BY <1>2, <2>4, <3>3 DEF CompareOrganization
  <2>5. ASSUME WriteOrganization(c) PROVE RowIsConsistent' /\ CopiesAreConsistent'
    <3>0. call[c].org \in Organization /\ call[c].seen \in Organization /\ call[c].mixed \in BOOLEAN
      BY DEF RowInv, TypeInv, PackagesTypeOK, Calls
    <3>1. call[c].mixed \/ Consistent(call[c].org)
      BY <2>5 DEF WriteOrganization, At, RowInv, CopiesAreConsistent
    <3>2. CopiesAreConsistent'
      BY <2>5, PassStep DEF WriteOrganization, Stage
    <3>3. CASE Belongs(call[c].org) = Belongs(call[c].seen)
      <4>1. mixed' = mixed /\ org' = Saved(c)
        BY <2>5, <3>3 DEF WriteOrganization
      <4>2. /\ Saved(c).pkg = org.pkg /\ Saved(c).expires = org.expires
            /\ \A r \in {"users", "roles"} : Saved(c).limit[r] = org.limit[r]
        BY <1>3, <3>0, <3>3 DEF Saved, Belongs, Resource
      <4>3. mixed \/ Consistent(Saved(c))
        BY <1>3, <4>2, SameIsConsistent
      <4>4. mixed' \/ Consistent(org')
        BY <4>1, <4>3
      <4> QED BY <3>2, <4>4 DEF RowIsConsistent, Consistent, LimitsOf
    <3>4. CASE Belongs(call[c].org) # Belongs(call[c].seen) /\ Belongs(org) = Belongs(call[c].seen)
      <4>1. mixed' = call[c].mixed /\ org' = Saved(c)
        BY <2>5, <3>0, <3>4 DEF WriteOrganization, Torn
      <4>2. /\ Saved(c).pkg = call[c].org.pkg /\ Saved(c).expires = call[c].org.expires
            /\ \A r \in {"users", "roles"} : Saved(c).limit[r] = call[c].org.limit[r]
        BY <1>3, <3>0, <3>4 DEF Saved, Belongs, Resource
      <4>3. call[c].mixed \/ Consistent(Saved(c))
        BY <3>1, <4>2, SameIsConsistent
      <4>4. mixed' \/ Consistent(org')
        BY <4>1, <4>3
      <4> QED BY <3>2, <4>4 DEF RowIsConsistent, Consistent, LimitsOf
    <3>5. CASE Torn(c)
      <4>1. mixed' = (Torn(c) \/ call[c].mixed)
        BY <2>5, <3>5 DEF WriteOrganization, Torn
      <4>2. mixed'
        BY <3>5, <4>1
      <4> QED BY <3>2, <4>2 DEF RowIsConsistent
    <3> QED BY <3>3, <3>4, <3>5 DEF Torn
  <2> QED BY <1>6, <2>2, <2>3, <2>4, <2>5 DEF Settings
<1>7. CASE Usage
  <2>1. UNCHANGED row
    BY <1>7 DEF Usage, CheckLimit, Add, MemberJoins, Remove
  <2>2. ASSUME NEW c \in Call, NEW r \in Resource, CheckLimit(c, r) PROVE CopiesAreConsistent'
    <3>1. call \in [Call -> Calls]
      BY DEF RowInv, TypeInv, PackagesTypeOK
    <3>2. (\A d \in Call : d # c => call'[d] = call[d]) /\ call'[c].at = "adding"
      BY <2>2, <3>1 DEF CheckLimit, Idle
    <3> QED BY <3>2, QuietStep
  <2>3. ASSUME NEW c \in Call, Add(c) PROVE CopiesAreConsistent'
    BY <2>3, PassStep DEF Add, Stage
  <2>4. CopiesAreConsistent'
    BY <1>7, <2>2, <2>3, CallsUnchanged DEF Usage, MemberJoins, Remove
  <2> QED BY <1>1, <1>2, <2>1, <2>4 DEF RowInv
<1>8. CASE RevertListed
  <2>1. Base[Freemium] \in [Resource -> Limit]
    BY BasesAreLimits, FreemiumIsAPackage
  <2>2. /\ Reverted.pkg = Freemium /\ Reverted.expires = NoDate
        /\ \A r \in {"users", "roles"} : Reverted.limit[r] = Base[Freemium][r]
    BY <1>3, <2>1 DEF Reverted, Organization, Resource
  <2>3. Consistent(org')
    BY <1>8, <2>2 DEF RevertListed, Consistent
  <2>4. CopiesAreConsistent'
    BY <1>8, CallsUnchanged DEF RevertListed
  <2>5. RowIsConsistent'
    BY <2>3 DEF RowIsConsistent, Consistent, LimitsOf
  <2> QED BY <1>1, <2>4, <2>5 DEF RowInv
<1>9. CASE Restart
  <2>1. UNCHANGED row /\ \A c \in Call : call'[c].at = "idle"
    BY <1>9 DEF Restart, Idle
  <2>2. CopiesAreConsistent'
    BY <2>1 DEF CopiesAreConsistent
  <2> QED BY <1>1, <1>2, <2>1, <2>2 DEF RowInv
<1>10. CASE ListExpired \/ NextDay \/ UNCHANGED vars
  <2>1. UNCHANGED <<row, call>>
    BY <1>10 DEF ListExpired, NextDay, vars
  <2> QED BY <1>1, <1>2, <2>1, CallsUnchanged DEF RowInv
<1> QED BY <1>1, <1>4, <1>5, <1>6, <1>7, <1>8, <1>9, <1>10 DEF RowInv, Next

\* Stale copies, the midnight job and restarts never leave the organization with the
\* limits of one package and the name or the end of another: what is needed for that
\* is a save that another write overtakes between its SELECT and its UPDATE.
THEOREM RowNeverMixed == Spec => []RowIsConsistent
<1>1. RowInv => RowIsConsistent
  BY DEF RowInv
<1> QED BY <1>1, RowInvInit, RowInvNext, PTL DEF Spec

=============================================================================
