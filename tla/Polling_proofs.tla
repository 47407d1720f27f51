-------------------------- MODULE Polling_proofs --------------------------
(***************************************************************************)
(* Proofs about Polling, for any number of instances, any documents, retry *)
(* intervals, event table and limit of errors: TypeOK, ChangesReact,       *)
(* TriggerFollowsEvents, RecoveryWhenUnreachable, AppliesReceived,         *)
(* OneInstance and Settled.                                                *)
(*                                                                         *)
(* What a document does to the settings is a fold over the children of a   *)
(* tag, and over theirs.  Each fold is shown to stay in a set of settings  *)
(* (Reached) in the same way: its operator is a function step[i] on that   *)
(* set for each child i, so a function that solves the fold's equation     *)
(* exists (FoldingExists), the fold is such a function, and it stays where *)
(* its steps stay (FoldStays).                                             *)
(*                                                                         *)
(* Settled compares two such folds: a document that is applied, and the    *)
(* same one applied to what came out.  Step by step a setting of the       *)
(* second is either what the first one has there now or what it ends with  *)
(* (Follows, and Again with the event table), so they end alike            *)
(* (FoldsFollow).                                                          *)
(***************************************************************************)
EXTENDS Polling, FiniteSetTheorems, TLAPS

-----------------------------------------------------------------------------
(* Folds.  FoldLeft is a recursive function on the subsets of the domain   *)
(* of a sequence; that it exists and where it stays are proved by           *)
(* induction, which follows from the well-foundedness of strict inclusion.  *)

\* A set of numbers has a least one.
LEMMA Least ==
  ASSUME NEW T, T \subseteq Nat, T # {}
  PROVE  \E x \in T : \A y \in T : x <= y
<1> DEFINE Initials == {1..x : x \in T}
<1>1. Initials \subseteq FiniteSubsetsOf(Nat)
  BY FS_Interval DEF FiniteSubsetsOf
<1>2. Initials # {}
  OBVIOUS
<1>3. PICK s \in Initials : \A t \in Initials : ~(<<t, s>> \in StrictSubsetOrdering(Nat))
  <2> HIDE DEF Initials
  <2> QED
    BY <1>1, <1>2, WFMin, FS_StrictSubsetOrderingWellFounded
<1>4. PICK x \in T : s = 1..x
  BY <1>3
<1>5. ASSUME NEW y \in T, ~(x <= y) PROVE FALSE
  <2>1. 1..y \in Initials /\ x \in Nat /\ y \in Nat /\ y < x
    BY <1>5
  <2>2. 1..y \subseteq 1..x /\ x \in 1..x /\ x \notin 1..y
    BY <2>1
  <2>3. 1..y \in SUBSET Nat /\ 1..x \in SUBSET Nat /\ 1..y # 1..x
    BY <2>2
  <2>4. <<1..y, 1..x>> \in StrictSubsetOrdering(Nat)
    BY <2>2, <2>3 DEF StrictSubsetOrdering
  <2> QED
    BY <1>3, <1>4, <2>1, <2>4
<1> QED
  BY <1>5

\* Induction, with the set of the numbers that have the property.
LEMMA Induction ==
  ASSUME NEW G, 0 \in G, \A k \in Nat : k \in G => k + 1 \in G
  PROVE  Nat \subseteq G
<1> SUFFICES ASSUME Nat \ G # {} PROVE FALSE
  OBVIOUS
<1>1. PICK x \in Nat \ G : \A y \in Nat \ G : x <= y
  BY Least
<1>2. x # 0 /\ x - 1 \in Nat /\ x - 1 \in G
  BY <1>1
<1> QED
  BY <1>1, <1>2

\* What FoldLeft takes next.
LEMMA MaxOf ==
  ASSUME NEW n \in Nat, NEW t \in SUBSET (1..n), t # {}
  PROVE  Seqs!Max(t) \in t /\ \A k \in t : Seqs!Max(t) >= k
<1> DEFINE T == {n - k : k \in t}
<1>1. T \subseteq Nat /\ T # {}
  <2>1. \A k \in t : n - k \in Nat
    OBVIOUS
  <2>2. PICK k : k \in t
    OBVIOUS
  <2> QED
    BY <2>1, <2>2
<1>2. PICK x \in T : \A y \in T : x <= y
  <2> HIDE DEF T
  <2> QED
    BY <1>1, Least
<1>3. PICK m \in t : x = n - m
  BY <1>2
<1>4. m \in t /\ \A k \in t : m >= k
  <2>1. \A k \in t : n - m <= n - k /\ k \in Nat /\ m \in Nat
    BY <1>2, <1>3
  <2> QED
    BY <2>1
<1> QED
  BY <1>4 DEF Seqs!Max

\* What FoldLeft computes with step[i] for the item i, on the subsets of 1..n.
Folding(n, R, base, step) ==
  {f \in [SUBSET (1..n) -> R] :
     \A t \in SUBSET (1..n) :
       f[t] = IF t = {} THEN base ELSE step[Seqs!Max(t)][f[t \ {Seqs!Max(t)}]]}

\* Where the steps stay in R there is such a function: it grows with n.
LEMMA FoldingExists ==
  ASSUME NEW N \in Nat, NEW R, NEW base \in R, NEW step \in [1..N -> [R -> R]]
  PROVE  Folding(N, R, base, step) # {}
<1> DEFINE G == {n \in Nat : n <= N => Folding(n, R, base, step) # {}}
<1>1. 0 \in G
  <2>1. SUBSET (1..0) = {{}}
    OBVIOUS
  <2>2. [t \in SUBSET (1..0) |-> base] \in Folding(0, R, base, step)
    BY <2>1 DEF Folding
  <2> QED
    BY <2>2
<1>2. ASSUME NEW n \in Nat, n \in G, n + 1 <= N PROVE Folding(n + 1, R, base, step) # {}
  <2>1. PICK f : f \in Folding(n, R, base, step)
    BY <1>2
  <2>2. /\ f \in [SUBSET (1..n) -> R]
        /\ \A t \in SUBSET (1..n) :
             f[t] = IF t = {} THEN base ELSE step[Seqs!Max(t)][f[t \ {Seqs!Max(t)}]]
    BY <2>1 DEF Folding
  <2> DEFINE g == [t \in SUBSET (1..n + 1) |->
                     IF n + 1 \in t THEN step[n + 1][f[t \ {n + 1}]] ELSE f[t]]
  <2>3. ASSUME NEW t \in SUBSET (1..n + 1)
        PROVE  g[t] \in R /\ g[t] = IF t = {} THEN base ELSE step[Seqs!Max(t)][g[t \ {Seqs!Max(t)}]]
    <3>1. CASE n + 1 \in t
      <4>1. Seqs!Max(t) = n + 1
        <5>1. n + 1 \in Nat /\ t # {}
          BY <3>1
        <5>2. Seqs!Max(t) \in t /\ Seqs!Max(t) >= n + 1
          BY <3>1, <5>1, MaxOf
        <5>3. Seqs!Max(t) \in 1..n + 1
          BY <5>2
        <5> QED
          BY <5>2, <5>3
      <4>2. t \ {n + 1} \in SUBSET (1..n) /\ t \ {n + 1} \in SUBSET (1..n + 1)
        OBVIOUS
      <4>3. g[t] = step[n + 1][f[t \ {n + 1}]] /\ g[t \ {n + 1}] = f[t \ {n + 1}]
        BY <3>1, <4>2
      <4>4. n + 1 \in 1..N /\ f[t \ {n + 1}] \in R
        BY <1>2, <2>2, <4>2
      <4> QED
        BY <3>1, <4>1, <4>3, <4>4
    <3>2. CASE n + 1 \notin t
      <4>1. t \in SUBSET (1..n)
        BY <3>2
      <4>2. CASE t = {}
        BY <2>2, <4>1, <4>2
      <4>3. CASE t # {}
        <5>1. t \ {Seqs!Max(t)} \in SUBSET (1..n) /\ t \ {Seqs!Max(t)} \in SUBSET (1..n + 1)
              /\ n + 1 \notin t \ {Seqs!Max(t)}
          BY <3>2, <4>1
        <5> QED
          BY <2>2, <3>2, <4>1, <4>3, <5>1
      <4> QED
        BY <4>2, <4>3
    <3> QED
      BY <3>1, <3>2
  <2> HIDE DEF g
  <2>4. g \in [SUBSET (1..n + 1) -> R]
    BY <2>3 DEF g
  <2> QED
    BY <2>3, <2>4 DEF Folding
<1>3. \A n \in Nat : n \in G => n + 1 \in G
  BY <1>2
<1>4. Nat \subseteq G
  <2> HIDE DEF G
  <2> QED
    BY <1>1, <1>3, Induction
<1> QED
  BY <1>4

\* An initial part of 1..N, and what is left without its last number.
LEMMA Interval ==
  ASSUME NEW N \in Nat, NEW n \in Nat, n + 1 <= N
  PROVE  /\ 1..n + 1 \in SUBSET (1..N) /\ n + 1 \in 1..N /\ n + 1 \in 1..n + 1
         /\ Seqs!Max(1..n + 1) = n + 1 /\ (1..n + 1) \ {n + 1} = 1..n
<1>1. 1..n + 1 \in SUBSET (1..n + 1) /\ n + 1 \in Nat /\ n + 1 \in 1..n + 1
  OBVIOUS
<1>2. Seqs!Max(1..n + 1) \in 1..n + 1 /\ \A k \in 1..n + 1 : Seqs!Max(1..n + 1) >= k
  <2>1. 1..n + 1 # {}
    BY <1>1
  <2> QED
    BY <1>1, <2>1, MaxOf
<1>3. Seqs!Max(1..n + 1) >= n + 1
  BY <1>1, <1>2
<1> QED
  BY <1>1, <1>2, <1>3

\* What a fold knows of its values as long as they stay in R.
FoldsBy(g, N, R, base, step) ==
  \A t \in SUBSET (1..N) :
    /\ t = {} => g[t] = base
    /\ t # {} /\ g[t \ {Seqs!Max(t)}] \in R
         => g[t] = step[Seqs!Max(t)][g[t \ {Seqs!Max(t)}]]

\* A fold stays where its steps stay.
LEMMA FoldByStays ==
  ASSUME NEW N \in Nat, NEW R, NEW base \in R, NEW step \in [1..N -> [R -> R]], NEW g,
         FoldsBy(g, N, R, base, step)
  PROVE  g[1..N] \in R
<1> DEFINE G == {n \in Nat : n <= N => g[1..n] \in R}
<1>1. 0 \in G
  <2>1. 1..0 = {} /\ {} \in SUBSET (1..N)
    OBVIOUS
  <2>2. g[{}] = base
    BY <2>1 DEF FoldsBy
  <2> QED
    BY <2>1, <2>2
<1>2. ASSUME NEW n \in Nat, n \in G PROVE n + 1 \in G
  <2> SUFFICES ASSUME n + 1 <= N PROVE g[1..n + 1] \in R
    <3>1. n + 1 \in Nat
      OBVIOUS
    <3> QED
      BY <3>1
  <2>1. g[1..n] \in R
    BY <1>2
  <2>2. 1..n + 1 \in SUBSET (1..N) /\ n + 1 \in 1..N
        /\ Seqs!Max(1..n + 1) = n + 1 /\ (1..n + 1) \ {n + 1} = 1..n
    BY Interval
  <2>3. 1..n + 1 # {}
    BY Interval
  <2>4. g[1..n + 1] = step[n + 1][g[1..n]]
    BY <2>1, <2>2, <2>3 DEF FoldsBy
  <2>5. step[n + 1] \in [R -> R]
    BY <2>2
  <2> QED
    BY <2>1, <2>4, <2>5
<1>3. Nat \subseteq G
  <2> HIDE DEF G
  <2> QED
    BY <1>1, <1>2, Induction
<1> QED
  BY <1>3

\* The steps stay in R, and value is what they make of base.
Folds(step, R, base, value, N) ==
  /\ N \in Nat /\ base \in R /\ step \in [1..N -> [R -> R]]
  /\ \E g : FoldsBy(g, N, R, base, step) /\ value = g[1..N]

LEMMA FoldStays ==
  ASSUME NEW step, NEW R, NEW base, NEW value, NEW N, Folds(step, R, base, value, N)
  PROVE  value \in R
BY FoldByStays DEF Folds

-----------------------------------------------------------------------------
(* Settings, as functions of the names of their fields. *)

LEMMA FieldType ==
  /\ FieldTypes["polling_interval"] = Nat /\ FieldTypes["polling_url"] = Urls
  /\ FieldTypes["polling_auth"] = Texts /\ FieldTypes["dn_threshold"] = Int \X Int
  /\ FieldTypes["mot"] = BOOLEAN /\ FieldTypes["md_mode"] = BOOLEAN
  /\ FieldTypes["scene"] = Texts /\ FieldTypes["sensitivity"] = Int
  /\ FieldTypes["enable"] = BOOLEAN /\ FieldTypes["video_address"] = Urls
  /\ FieldTypes["video_auth"] = Texts /\ FieldTypes["video_timeout"] = Nat
  /\ FieldTypes["video_duration"] = Nat /\ FieldTypes["video_format"] = Texts
  /\ FieldTypes["resolution"] = Resolutions /\ FieldTypes["frate"] = Int
  /\ FieldTypes["gov_length"] = Int /\ FieldTypes["abr"] = [Resolutions -> Bitrates]
  /\ FieldTypes["dataset"] = [1..3 -> Datasets]
  /\ FieldTypes["http_url"] = Urls /\ FieldTypes["http_auth"] = Texts
  /\ FieldTypes["http_event_timeout"] = Nat /\ FieldTypes["event_quiet_time"] = Nat
  /\ FieldTypes["items"] = [1..EVENT_TRIGGER_ITEM_NUMBER_MAX -> Items]
  /\ FieldTypes["trig"] = BOOLEAN /\ FieldTypes["human_detect"] = Int
  /\ FieldTypes["chg"] = BOOLEAN /\ FieldTypes["broken"] = SUBSET Breakable
BY DEF FieldTypes

LEMMA FieldNames ==
  Fields = {"polling_interval", "polling_url", "polling_auth", "dn_threshold", "mot", "md_mode",
            "scene", "sensitivity", "enable", "video_address", "video_auth", "video_timeout",
            "video_duration", "video_format", "resolution", "frate", "gov_length", "abr",
            "dataset", "http_url", "http_auth", "http_event_timeout", "event_quiet_time",
            "items", "trig", "human_detect", "chg", "broken"}
BY DEF Fields, FieldTypes

\* What applying a document may change without marking it, or does not change at all.
Unmarked == {"md_mode", "event_quiet_time", "chg", "broken"}

\* What the settings c0 may have become while the calls in b fail.
Reached(c0, b) ==
  {c \in [Fields -> UNION {FieldTypes[f] : f \in Fields}] :
     /\ \A f \in Fields : c[f] \in FieldTypes[f]
     /\ c["broken"] = b
     /\ c["chg"] \/ \A f \in Fields \ Unmarked : c[f] = c0[f]
     /\ ComcastPartner /\ "trig" \notin b /\ c0["trig"] = AnyEnabled(c0["items"])
          => c["trig"] = AnyEnabled(c["items"])}

\* A setting is replaced.
LEMMA Replaced ==
  ASSUME NEW c0, NEW b, NEW c \in Reached(c0, b),
         NEW f \in Fields \ {"chg", "broken", "trig", "items"}, NEW v \in FieldTypes[f],
         NEW chg \in BOOLEAN, chg \/ f \in Unmarked \/ c[f] = v, c["chg"] => chg
  PROVE  [g \in Fields |-> IF g = "chg" THEN chg ELSE IF g = f THEN v ELSE c[g]] \in Reached(c0, b)
<1> DEFINE d == [g \in Fields |-> IF g = "chg" THEN chg ELSE IF g = f THEN v ELSE c[g]]
<1>1. ASSUME NEW g \in Fields PROVE d[g] \in FieldTypes[g]
  BY FieldType DEF Reached
<1>2. d \in [Fields -> UNION {FieldTypes[g] : g \in Fields}]
  BY <1>1
<1>3. d["broken"] = c["broken"] /\ d["items"] = c["items"] /\ d["trig"] = c["trig"] /\ d["chg"] = chg
  BY FieldNames
<1>4. chg \/ \A g \in Fields \ Unmarked : d[g] = c0[g]
  BY DEF Reached, Unmarked
<1> HIDE DEF d
<1>5. d \in Reached(c0, b)
  BY <1>1, <1>2, <1>3, <1>4 DEF Reached
<1> QED
  BY <1>5 DEF d

\* One set_* call.
LEMMA SetStays ==
  ASSUME NEW c0, NEW b, NEW c \in Reached(c0, b),
         NEW f \in Fields \ {"chg", "broken", "trig", "items"}, NEW v \in FieldTypes[f]
  PROVE  Set(c, f, v) \in Reached(c0, b)
<1>1. c = [g \in Fields |-> c[g]] /\ c.chg = c["chg"] /\ c["chg"] \in BOOLEAN
  BY FieldType, FieldNames DEF Reached
<1> DEFINE chg == c["chg"] \/ c[f] # v
<1>2. [c EXCEPT ![f] = v, !.chg = @ \/ c[f] # v]
        = [g \in Fields |-> IF g = "chg" THEN chg ELSE IF g = f THEN v ELSE c[g]]
  BY <1>1, FieldNames
<1>3. CASE f \in c.broken
  BY <1>3 DEF Set
<1>4. CASE f \notin c.broken
  <2>1. [g \in Fields |-> IF g = "chg" THEN chg ELSE IF g = f THEN v ELSE c[g]] \in Reached(c0, b)
    <3>1. chg \in BOOLEAN /\ (chg \/ c[f] = v) /\ (c["chg"] => chg)
      BY <1>1
    <3> HIDE DEF chg
    <3> QED
      BY <3>1, Replaced
  <2>2. Set(c, f, v) = [c EXCEPT ![f] = v, !.chg = @ \/ c[f] # v]
    BY <1>1, <1>4 DEF Set, Reached
  <2> QED
    BY <1>2, <2>1, <2>2
<1> QED
  BY <1>3, <1>4

-----------------------------------------------------------------------------
(* What a document makes of settings that are well-formed: the attributes of a tag and <detection>. *)

\* What is read from a tag has the type of the attribute, there or not.
LEMMA Attributes ==
  ASSUME NEW t, IsTag(t)
  PROVE  /\ \A a \in {"auth", "enabled", "env", "format", "resolution"} : Text(t, a) \in Texts
         /\ \A a \in {"day2night", "night2day", "sensitivity", "fps", "gop",
                      "min", "med", "low", "max"} : Number(t, a) \in Int
         /\ \A a \in {"interval", "quietInterval", "duration", "timeout"} : Period(t, a) \in Nat
         /\ Url(t) \in Urls
<1>1. \A a \in {"auth", "enabled", "env", "format", "resolution"} : AttributeTypes[a] = Texts
  BY DEF AttributeTypes
<1>2. \A a \in {"day2night", "night2day", "sensitivity", "fps", "gop", "min", "med", "low", "max"} :
         AttributeTypes[a] = Int
  BY DEF AttributeTypes
<1>3. \A a \in {"interval", "quietInterval", "duration", "timeout"} : AttributeTypes[a] = Periods
  BY DEF AttributeTypes
<1>4. AttributeTypes["url"] = Urls
  BY DEF AttributeTypes
<1>5. \A a \in DOMAIN t.attrs : t.attrs[a] \in AttributeTypes[a]
  BY DEF IsTag
<1>6. \A p \in Periods : XPC_parse_period_time_iso8601(p) \in Nat
  <2> SUFFICES ASSUME NEW p \in Periods PROVE XPC_parse_period_time_iso8601(p) \in Nat
    OBVIOUS
  <2>1. p.Y \in Nat /\ p.M \in Nat /\ p.D \in Nat /\ p.h \in Nat /\ p.m \in Nat /\ p.s \in Nat
    BY DEF Periods
  <2>2. \A m, n \in Nat, k \in {365, 30, 24, 60} : m + k * n \in Nat
    OBVIOUS
  <2>3. p.M + 365 * p.Y \in Nat
    BY <2>1, <2>2
  <2>4. p.D + 30 * (p.M + 365 * p.Y) \in Nat
    BY <2>1, <2>2, <2>3
  <2>5. p.h + 24 * (p.D + 30 * (p.M + 365 * p.Y)) \in Nat
    BY <2>1, <2>2, <2>4
  <2>6. p.m + 60 * (p.h + 24 * (p.D + 30 * (p.M + 365 * p.Y))) \in Nat
    BY <2>1, <2>2, <2>5
  <2> QED
    BY <2>1, <2>2, <2>6 DEF XPC_parse_period_time_iso8601
<1>7. ASSUME NEW a \in {"auth", "enabled", "env", "format", "resolution"} PROVE Text(t, a) \in Texts
  BY <1>1, <1>5, TextsAssumption DEF Text, Has
<1>8. ASSUME NEW a \in {"day2night", "night2day", "sensitivity", "fps", "gop", "min", "med", "low", "max"}
      PROVE  Number(t, a) \in Int
  BY <1>2, <1>5 DEF Number, Has
<1>9. ASSUME NEW a \in {"interval", "quietInterval", "duration", "timeout"} PROVE Period(t, a) \in Nat
  BY <1>3, <1>5, <1>6 DEF Period, Has
<1>10. Url(t) \in Urls
  <2>1. NoUrl \in Urls
    BY TextsAssumption DEF NoUrl, Urls
  <2>2. Has(t, "url") => t.attrs["url"] \in Urls
    BY <1>4, <1>5 DEF Has
  <2> QED
    BY <2>1, <2>2 DEF Url
<1> QED
  BY <1>7, <1>8, <1>9, <1>10

LEMMA SensitivityType == \A n \in Int : Sensitivity(n) \in Int
<1> SUFFICES ASSUME NEW n \in Int PROVE Sensitivity(n) \in Int
  OBVIOUS
<1> DEFINE m == IF n \in 1..59 \/ n > 100 THEN 60 ELSE n
<1>1. m \in Int
  OBVIOUS
<1>2. Sensitivity(n) = m \div 10
  BY DEF Sensitivity
<1> HIDE DEF m
<1> QED
  BY <1>1, <1>2

LEMMA MotionAttr ==
  ASSUME NEW c0, NEW b, NEW c \in Reached(c0, b), NEW t, IsTag(t)
  PROVE  XPC_parse_motion_attr(c, t) \in Reached(c0, b)
<1> DEFINE on == Text(t, "enabled") = "true"
           env == Text(t, "env")
           c1 == IF "md_mode" \in c.broken THEN c ELSE [c EXCEPT !.md_mode = on]
           c2 == Set(c1, "mot", on)
           c3 == IF env \in {"indoor", "outdoor"} THEN Set(c2, "scene", env) ELSE c2
           c4 == Set(c3, "sensitivity", Sensitivity(Number(t, "sensitivity")))
<1> USE FieldNames, FieldType
<1>1. on \in BOOLEAN /\ (env \in {"indoor", "outdoor"} => env \in Texts)
  BY TextsAssumption
<1>2. Sensitivity(Number(t, "sensitivity")) \in Int
  BY Attributes, SensitivityType
<1> HIDE DEF on, env
<1>3. c1 \in Reached(c0, b)
  <2>1. c = [g \in Fields |-> c[g]] /\ c["chg"] \in BOOLEAN
    BY DEF Reached
  <2>2. [g \in Fields |-> IF g = "chg" THEN c["chg"] ELSE IF g = "md_mode" THEN on ELSE c[g]] \in Reached(c0, b)
    BY <1>1, <2>1, Replaced DEF Unmarked
  <2>3. [c EXCEPT !.md_mode = on]
          = [g \in Fields |-> IF g = "chg" THEN c["chg"] ELSE IF g = "md_mode" THEN on ELSE c[g]]
    BY <2>1
  <2> QED
    BY <2>2, <2>3
<1>4. c2 \in Reached(c0, b)
  BY <1>1, <1>3, SetStays
<1>5. c3 \in Reached(c0, b)
  BY <1>1, <1>4, SetStays
<1>6. c4 \in Reached(c0, b)
  BY <1>2, <1>5, SetStays
<1> QED
  BY <1>6 DEF XPC_parse_motion_attr, on, env

\* What the children of a tag make of the settings, one after the other.
MotionOf(c, u) == IF u.name = "motion" THEN XPC_parse_motion_attr(c, u) ELSE c
MotionSteps(R, t) == [i \in 1..Len(t.children) |-> [x \in R |-> MotionOf(x, t.children[i])]]

LEMMA MotionFolds ==
  ASSUME NEW c0, NEW b, NEW c \in Reached(c0, b), NEW t, IsTag(t),
         \A u \in Children(t) : IsTag(u)
  PROVE  Folds(MotionSteps(Reached(c0, b), t), Reached(c0, b), c, Seqs!FoldLeft(MotionOf, c, t.children),
               Len(t.children))
<1> DEFINE R == Reached(c0, b)
           s == t.children
           N == Len(s)
           Step(x, u) == MotionOf(x, u)
           step == [i \in 1..N |-> [x \in R |-> Step(x, s[i])]]
           Fold(g) == [T \in SUBSET (DOMAIN s) |->
                         IF T = {} THEN c ELSE Step(g[T \ {Seqs!Max(T)}], s[Seqs!Max(T)])]
           iter == CHOOSE g : g = Fold(g)
<1>1. N \in Nat /\ DOMAIN s = 1..N /\ c \in R
  BY DEF IsTag
<1>2. step \in [1..N -> [R -> R]]
  <2>1. ASSUME NEW i \in 1..N, NEW x \in R PROVE Step(x, s[i]) \in R
    <3>1. IsTag(s[i])
      BY <1>1 DEF Children
    <3> QED
      BY <3>1, MotionAttr DEF MotionOf
  <2> HIDE DEF Step, R
  <2> QED
    BY <2>1
<1>3. ASSUME NEW T \in SUBSET (1..N), T # {}, NEW x \in R
      PROVE  step[Seqs!Max(T)][x] = Step(x, s[Seqs!Max(T)])
  <2>1. Seqs!Max(T) \in 1..N
    BY <1>1, <1>3, MaxOf
  <2> HIDE DEF R, Step
  <2> QED
    BY <2>1
<1>4. iter = Fold(iter)
  <2>1. PICK g : g \in Folding(N, R, c, step)
    <3> HIDE DEF R, step, N
    <3>1. Folding(N, R, c, step) # {}
      BY <1>1, <1>2, FoldingExists
    <3> QED
      BY <3>1
  <2>2. g = Fold(g)
    <3> HIDE DEF R, Step, step
    <3> QED
      BY <1>1, <1>3, <2>1 DEF Folding
  <2> HIDE DEF Fold
  <2> QED
    BY <2>2
<1>5. FoldsBy(iter, N, R, c, step)
  <2> HIDE DEF iter, Step, R, step
  <2> QED
    BY <1>1, <1>3, <1>4 DEF FoldsBy
<1>6. Seqs!FoldLeft(MotionOf, c, s) = iter[1..N]
  BY <1>1 DEF Seqs!FoldLeft, Seqs!MapThenFoldSet
<1>7. MotionSteps(R, t) = step
  BY DEF MotionSteps
<1> HIDE DEF iter, step, N, R
<1>8. Folds(step, R, c, Seqs!FoldLeft(MotionOf, c, s), N)
  BY <1>1, <1>2, <1>5, <1>6 DEF Folds
<1> QED
  BY <1>7, <1>8 DEF N, R

LEMMA MotionSegment ==
  ASSUME NEW c0, NEW b, NEW c \in Reached(c0, b), NEW t, IsTag(t), \A u \in Children(t) : IsTag(u)
  PROVE  XPC_parse_motion_segment(c, t) \in Reached(c0, b)
<1>1. Seqs!FoldLeft(MotionOf, c, t.children) \in Reached(c0, b)
  BY MotionFolds, FoldStays
<1> QED
  BY <1>1 DEF XPC_parse_motion_segment, MotionOf, Seqs!FoldLeft, Seqs!MapThenFoldSet

-----------------------------------------------------------------------------
(* <system> *)

LEMMA ThresholdAttr ==
  ASSUME NEW c0, NEW b, NEW c \in Reached(c0, b), NEW t, IsTag(t)
  PROVE  XPC_parse_threshold_attr(c, t) \in Reached(c0, b)
<1>1. <<Number(t, "day2night"), Number(t, "night2day")>> \in FieldTypes["dn_threshold"]
  BY Attributes, FieldType
<1> QED
  BY <1>1, FieldNames, SetStays DEF XPC_parse_threshold_attr

\* The thresholds are two levels down.
Lux(c, u) == IF u.name = "threshold" THEN XPC_parse_threshold_attr(c, u) ELSE c
Luxes(c, u) == Seqs!FoldLeft(Lux, c, u.children)

LuxSteps(R, t) == [i \in 1..Len(t.children) |-> [x \in R |-> Lux(x, t.children[i])]]

LEMMA LuxFolds ==
  ASSUME NEW c0, NEW b, NEW c \in Reached(c0, b), NEW t, IsTag(t),
         \A u \in Children(t) : IsTag(u)
  PROVE  Folds(LuxSteps(Reached(c0, b), t), Reached(c0, b), c, Seqs!FoldLeft(Lux, c, t.children),
               Len(t.children))
<1> DEFINE R == Reached(c0, b)
           s == t.children
           N == Len(s)
           Step(x, u) == Lux(x, u)
           step == [i \in 1..N |-> [x \in R |-> Step(x, s[i])]]
           Fold(g) == [T \in SUBSET (DOMAIN s) |->
                         IF T = {} THEN c ELSE Step(g[T \ {Seqs!Max(T)}], s[Seqs!Max(T)])]
           iter == CHOOSE g : g = Fold(g)
<1>1. N \in Nat /\ DOMAIN s = 1..N /\ c \in R
  BY DEF IsTag
<1>2. step \in [1..N -> [R -> R]]
  <2>1. ASSUME NEW i \in 1..N, NEW x \in R PROVE Step(x, s[i]) \in R
    <3>1. IsTag(s[i])
      BY <1>1 DEF Children
    <3> QED
      BY <3>1, ThresholdAttr DEF Lux
  <2> HIDE DEF Step, R
  <2> QED
    BY <2>1
<1>3. ASSUME NEW T \in SUBSET (1..N), T # {}, NEW x \in R
      PROVE  step[Seqs!Max(T)][x] = Step(x, s[Seqs!Max(T)])
  <2>1. Seqs!Max(T) \in 1..N
    BY <1>1, <1>3, MaxOf
  <2> HIDE DEF R, Step
  <2> QED
    BY <2>1
<1>4. iter = Fold(iter)
  <2>1. PICK g : g \in Folding(N, R, c, step)
    <3> HIDE DEF R, step, N
    <3>1. Folding(N, R, c, step) # {}
      BY <1>1, <1>2, FoldingExists
    <3> QED
      BY <3>1
  <2>2. g = Fold(g)
    <3> HIDE DEF R, Step, step
    <3> QED
      BY <1>1, <1>3, <2>1 DEF Folding
  <2> HIDE DEF Fold
  <2> QED
    BY <2>2
<1>5. FoldsBy(iter, N, R, c, step)
  <2> HIDE DEF iter, Step, R, step
  <2> QED
    BY <1>1, <1>3, <1>4 DEF FoldsBy
<1>6. Seqs!FoldLeft(Lux, c, s) = iter[1..N]
  BY <1>1 DEF Seqs!FoldLeft, Seqs!MapThenFoldSet
<1>7. LuxSteps(R, t) = step
  BY DEF LuxSteps
<1> HIDE DEF iter, step, N, R
<1>8. Folds(step, R, c, Seqs!FoldLeft(Lux, c, s), N)
  BY <1>1, <1>2, <1>5, <1>6 DEF Folds
<1> QED
  BY <1>7, <1>8 DEF N, R

LEMMA LuxesStay ==
  ASSUME NEW c0, NEW b, NEW c \in Reached(c0, b), NEW t, IsTag(t), \A u \in Children(t) : IsTag(u)
  PROVE  Luxes(c, t) \in Reached(c0, b)
BY LuxFolds, FoldStays DEF Luxes

SystemOf(c, u) == IF u.name = "lux" THEN Luxes(c, u) ELSE c
SystemSteps(R, t) == [i \in 1..Len(t.children) |-> [x \in R |-> SystemOf(x, t.children[i])]]

LEMMA SystemFolds ==
  ASSUME NEW c0, NEW b, NEW c \in Reached(c0, b), NEW t, IsTag(t),
         \A u \in Children(t) : IsTag(u) /\ \A v \in Children(u) : IsTag(v)
  PROVE  Folds(SystemSteps(Reached(c0, b), t), Reached(c0, b), c, Seqs!FoldLeft(SystemOf, c, t.children),
               Len(t.children))
<1> DEFINE R == Reached(c0, b)
           s == t.children
           N == Len(s)
           Step(x, u) == SystemOf(x, u)
           step == [i \in 1..N |-> [x \in R |-> Step(x, s[i])]]
           Fold(g) == [T \in SUBSET (DOMAIN s) |->
                         IF T = {} THEN c ELSE Step(g[T \ {Seqs!Max(T)}], s[Seqs!Max(T)])]
           iter == CHOOSE g : g = Fold(g)
<1>1. N \in Nat /\ DOMAIN s = 1..N /\ c \in R
  BY DEF IsTag
<1>2. step \in [1..N -> [R -> R]]
  <2>1. ASSUME NEW i \in 1..N, NEW x \in R PROVE Step(x, s[i]) \in R
    <3>1. IsTag(s[i]) /\ \A v \in Children(s[i]) : IsTag(v)
      BY <1>1 DEF Children
    <3> QED
      BY <3>1, LuxesStay DEF SystemOf
  <2> HIDE DEF Step, R
  <2> QED
    BY <2>1
<1>3. ASSUME NEW T \in SUBSET (1..N), T # {}, NEW x \in R
      PROVE  step[Seqs!Max(T)][x] = Step(x, s[Seqs!Max(T)])
  <2>1. Seqs!Max(T) \in 1..N
    BY <1>1, <1>3, MaxOf
  <2> HIDE DEF R, Step
  <2> QED
    BY <2>1
<1>4. iter = Fold(iter)
  <2>1. PICK g : g \in Folding(N, R, c, step)
    <3> HIDE DEF R, step, N
    <3>1. Folding(N, R, c, step) # {}
      BY <1>1, <1>2, FoldingExists
    <3> QED
      BY <3>1
  <2>2. g = Fold(g)
    <3> HIDE DEF R, Step, step
    <3> QED
      BY <1>1, <1>3, <2>1 DEF Folding
  <2> HIDE DEF Fold
  <2> QED
    BY <2>2
<1>5. FoldsBy(iter, N, R, c, step)
  <2> HIDE DEF iter, Step, R, step
  <2> QED
    BY <1>1, <1>3, <1>4 DEF FoldsBy
<1>6. Seqs!FoldLeft(SystemOf, c, s) = iter[1..N]
  BY <1>1 DEF Seqs!FoldLeft, Seqs!MapThenFoldSet
<1>7. SystemSteps(R, t) = step
  BY DEF SystemSteps
<1> HIDE DEF iter, step, N, R
<1>8. Folds(step, R, c, Seqs!FoldLeft(SystemOf, c, s), N)
  BY <1>1, <1>2, <1>5, <1>6 DEF Folds
<1> QED
  BY <1>7, <1>8 DEF N, R

LEMMA SystemSegment ==
  ASSUME NEW c0, NEW b, NEW c \in Reached(c0, b), NEW t, IsTag(t),
         \A u \in Children(t) : IsTag(u) /\ \A v \in Children(u) : IsTag(v)
  PROVE  XPC_parse_system_segment(c, t) \in Reached(c0, b)
<1>1. Seqs!FoldLeft(SystemOf, c, t.children) \in Reached(c0, b)
  BY SystemFolds, FoldStays
<1> QED
  BY <1>1 DEF XPC_parse_system_segment, SystemOf, Luxes, Lux, Seqs!FoldLeft, Seqs!MapThenFoldSet

-----------------------------------------------------------------------------
(* <cvr> *)

LEMMA SetUrlStays ==
  ASSUME NEW c0, NEW b, NEW c \in Reached(c0, b), NEW u \in Urls,
         NEW f \in {"video_address", "http_url"}
  PROVE  SetUrl(c, f, u) \in Reached(c0, b)
<1>1. XPC_append_mac_to_url(c, u) \in Urls
  BY TextsAssumption DEF XPC_append_mac_to_url, Urls, NoUrl
<1>2. f \in Fields /\ FieldTypes[f] = Urls
  BY FieldNames, FieldType
<1>3. Set(c, f, XPC_append_mac_to_url(c, u)) \in Reached(c0, b)
  BY <1>1, <1>2, SetStays
<1> QED
  BY <1>3 DEF SetUrl

LEMMA CvrAttr ==
  ASSUME NEW c0, NEW b, NEW c \in Reached(c0, b), NEW t, IsTag(t)
  PROVE  XPC_parse_cvr_attr(c, t) \in Reached(c0, b)
<1> DEFINE on == Text(t, "enabled") = "true"
           c1 == Set(c, "enable", on)
           c2 == SetUrl(c1, "video_address", Url(t))
           c3 == Set(c2, "video_auth", Text(t, "auth"))
           c4 == Set(c3, "video_timeout", Period(t, "timeout"))
<1>1. on \in BOOLEAN
  OBVIOUS
<1> HIDE DEF on
<1>2. c1 \in Reached(c0, b)
  BY <1>1, FieldNames, FieldType, SetStays
<1>3. c2 \in Reached(c0, b)
  BY <1>2, Attributes, SetUrlStays
<1>4. c3 \in Reached(c0, b)
  BY <1>3, Attributes, FieldNames, FieldType, SetStays
<1>5. c4 \in Reached(c0, b)
  BY <1>4, Attributes, FieldNames, FieldType, SetStays
<1> QED
  BY <1>5 DEF XPC_parse_cvr_attr, on

LEMMA SegmentsAttr ==
  ASSUME NEW c0, NEW b, NEW c \in Reached(c0, b), NEW t, IsTag(t)
  PROVE  XPC_parse_segments_attr(c, t) \in Reached(c0, b)
<1> DEFINE format == IF Text(t, "format") = "video/mp2t" THEN "TS" ELSE "MP4"
           c1 == Set(c, "video_duration", Period(t, "duration"))
           c2 == Set(c1, "video_format", format)
<1>1. format \in Texts
  BY TextsAssumption
<1> HIDE DEF format
<1>2. c1 \in Reached(c0, b)
  BY Attributes, FieldNames, FieldType, SetStays
<1>3. c2 \in Reached(c0, b)
  BY <1>1, <1>2, FieldNames, FieldType, SetStays
<1> QED
  BY <1>3 DEF XPC_parse_segments_attr, format

LEMMA H264Attr ==
  ASSUME NEW c0, NEW b, NEW c \in Reached(c0, b), NEW t, IsTag(t)
  PROVE  XPC_parse_h264_attr(c, t) \in Reached(c0, b)
<1> DEFINE r == Text(t, "resolution")
           fps == Number(t, "fps")
           c1 == IF r \in Resolutions THEN Set(c, "resolution", r) ELSE c
           c2 == IF fps \in 1..30 THEN Set(c1, "frate", fps) ELSE c1
           c3 == Set(c2, "gov_length", Number(t, "gop"))
<1>1. fps \in Int
  BY Attributes
<1> HIDE DEF r, fps
<1>2. c1 \in Reached(c0, b)
  BY FieldNames, FieldType, SetStays
<1>3. c2 \in Reached(c0, b)
  BY <1>1, <1>2, FieldNames, FieldType, SetStays
<1>4. c3 \in Reached(c0, b)
  BY <1>3, Attributes, FieldNames, FieldType, SetStays
<1> QED
  BY <1>4 DEF XPC_parse_h264_attr, r, fps

LEMMA Percent == \A n \in Int : (n * 70) \div 100 \in Int
<1> SUFFICES ASSUME NEW n \in Int PROVE (n * 70) \div 100 \in Int
  OBVIOUS
<1> DEFINE m == n * 70
<1>1. m \in Int
  OBVIOUS
<1> HIDE DEF m
<1>2. m \div 100 \in Int
  BY <1>1
<1> QED
  BY <1>2 DEF m

LEMMA LbrAttr ==
  ASSUME NEW t, IsTag(t)
  PROVE  XPC_parse_lbr_attr(t) \in Bitrates
<1> DEFINE high == Number(t, "max")
           mid == IF Number(t, "med") > 0 THEN Number(t, "med") ELSE (high * 70) \div 100
           low == IF Number(t, "low") > 0 THEN Number(t, "low") ELSE (mid * 70) \div 100
           none == Number(t, "min")
<1>1. high \in Int /\ none \in Int
  BY Attributes
<1>2. mid \in Int
  BY <1>1, Attributes, Percent
<1> HIDE DEF mid
<1>3. low \in Int
  BY <1>2, Attributes, Percent
<1> HIDE DEF high, low, none
<1>4. [no |-> none, low |-> low, mid |-> mid, high |-> high] \in Bitrates
  BY <1>1, <1>2, <1>3 DEF Bitrates
<1>5. ZeroBitrate \in Bitrates
  BY DEF ZeroBitrate, Bitrates
<1> QED
  BY <1>4, <1>5 DEF XPC_parse_lbr_attr, high, mid, low, none

\* The children of <segments>.
BitrateAndSettings(c0, b) == [bitrate : Bitrates, c : Reached(c0, b)]
ChildOf(s, t) ==
  LET bitrate == IF t.name = "LBR" THEN XPC_parse_lbr_attr(t) ELSE s.bitrate
      c1 == IF t.name = "H264" THEN XPC_parse_h264_attr(s.c, t) ELSE s.c
  IN  [bitrate |-> bitrate, c |-> Set(c1, "abr", [c1.abr EXCEPT ![c1.resolution] = bitrate])]

LEMMA ChildStays ==
  ASSUME NEW c0, NEW b, NEW s \in BitrateAndSettings(c0, b), NEW t, IsTag(t)
  PROVE  ChildOf(s, t) \in BitrateAndSettings(c0, b)
<1> DEFINE bitrate == IF t.name = "LBR" THEN XPC_parse_lbr_attr(t) ELSE s.bitrate
           c1 == IF t.name = "H264" THEN XPC_parse_h264_attr(s.c, t) ELSE s.c
           abr == [c1.abr EXCEPT ![c1.resolution] = bitrate]
           c2 == Set(c1, "abr", abr)
<1>1. bitrate \in Bitrates
  BY LbrAttr DEF BitrateAndSettings
<1>2. c1 \in Reached(c0, b)
  BY H264Attr DEF BitrateAndSettings
<1> HIDE DEF bitrate, c1
<1>3. abr \in [Resolutions -> Bitrates]
  <2>1. c1["abr"] \in [Resolutions -> Bitrates]
    BY <1>2, FieldNames, FieldType DEF Reached
  <2>2. c1.abr = c1["abr"]
    OBVIOUS
  <2> QED
    BY <1>1, <2>1, <2>2
<1> HIDE DEF abr
<1>4. c2 \in Reached(c0, b)
  BY <1>2, <1>3, FieldNames, FieldType, SetStays
<1> HIDE DEF c2
<1>5. [bitrate |-> bitrate, c |-> c2] \in BitrateAndSettings(c0, b)
  BY <1>1, <1>4 DEF BitrateAndSettings
<1> QED
  BY <1>5 DEF ChildOf, bitrate, c1, abr, c2

SegmentsOf(s, t) ==
  IF t.name # "segments" THEN s
  ELSE Seqs!FoldLeft(ChildOf, [s EXCEPT !.c = XPC_parse_segments_attr(@, t)], t.children)

ChildSteps(R, t) == [i \in 1..Len(t.children) |-> [x \in R |-> ChildOf(x, t.children[i])]]

LEMMA ChildFolds ==
  ASSUME NEW c0, NEW b, NEW c \in BitrateAndSettings(c0, b), NEW t, IsTag(t),
         \A u \in Children(t) : IsTag(u)
  PROVE  Folds(ChildSteps(BitrateAndSettings(c0, b), t), BitrateAndSettings(c0, b), c, Seqs!FoldLeft(ChildOf, c, t.children),
               Len(t.children))
<1> DEFINE R == BitrateAndSettings(c0, b)
           s == t.children
           N == Len(s)
           Step(x, u) == ChildOf(x, u)
           step == [i \in 1..N |-> [x \in R |-> Step(x, s[i])]]
           Fold(g) == [T \in SUBSET (DOMAIN s) |->
                         IF T = {} THEN c ELSE Step(g[T \ {Seqs!Max(T)}], s[Seqs!Max(T)])]
           iter == CHOOSE g : g = Fold(g)
<1>1. N \in Nat /\ DOMAIN s = 1..N /\ c \in R
  BY DEF IsTag
<1>2. step \in [1..N -> [R -> R]]
  <2>1. ASSUME NEW i \in 1..N, NEW x \in R PROVE Step(x, s[i]) \in R
    <3>1. IsTag(s[i])
      BY <1>1 DEF Children
    <3> QED
      BY <3>1, ChildStays
  <2> HIDE DEF Step, R
  <2> QED
    BY <2>1
<1>3. ASSUME NEW T \in SUBSET (1..N), T # {}, NEW x \in R
      PROVE  step[Seqs!Max(T)][x] = Step(x, s[Seqs!Max(T)])
  <2>1. Seqs!Max(T) \in 1..N
    BY <1>1, <1>3, MaxOf
  <2> HIDE DEF R, Step
  <2> QED
    BY <2>1
<1>4. iter = Fold(iter)
  <2>1. PICK g : g \in Folding(N, R, c, step)
    <3> HIDE DEF R, step, N
    <3>1. Folding(N, R, c, step) # {}
      BY <1>1, <1>2, FoldingExists
    <3> QED
      BY <3>1
  <2>2. g = Fold(g)
    <3> HIDE DEF R, Step, step
    <3> QED
      BY <1>1, <1>3, <2>1 DEF Folding
  <2> HIDE DEF Fold
  <2> QED
    BY <2>2
<1>5. FoldsBy(iter, N, R, c, step)
  <2> HIDE DEF iter, Step, R, step
  <2> QED
    BY <1>1, <1>3, <1>4 DEF FoldsBy
<1>6. Seqs!FoldLeft(ChildOf, c, s) = iter[1..N]
  BY <1>1 DEF Seqs!FoldLeft, Seqs!MapThenFoldSet
<1>7. ChildSteps(R, t) = step
  BY DEF ChildSteps
<1> HIDE DEF iter, step, N, R
<1>8. Folds(step, R, c, Seqs!FoldLeft(ChildOf, c, s), N)
  BY <1>1, <1>2, <1>5, <1>6 DEF Folds
<1> QED
  BY <1>7, <1>8 DEF N, R

\* <segments> itself.
SegmentsStart(s, t) == [s EXCEPT !.c = XPC_parse_segments_attr(@, t)]

LEMMA SegmentsStartStays ==
  ASSUME NEW c0, NEW b, NEW z \in BitrateAndSettings(c0, b), NEW t, IsTag(t)
  PROVE  SegmentsStart(z, t) \in BitrateAndSettings(c0, b)
<1>1. z.c \in Reached(c0, b) /\ z = [bitrate |-> z.bitrate, c |-> z.c] /\ z.bitrate \in Bitrates
  BY DEF BitrateAndSettings
<1>2. XPC_parse_segments_attr(z.c, t) \in Reached(c0, b)
  BY <1>1, SegmentsAttr
<1> QED
  BY <1>1, <1>2 DEF SegmentsStart, BitrateAndSettings

LEMMA SegmentsStay ==
  ASSUME NEW c0, NEW b, NEW z \in BitrateAndSettings(c0, b), NEW t, IsTag(t), \A u \in Children(t) : IsTag(u)
  PROVE  SegmentsOf(z, t) \in BitrateAndSettings(c0, b)
<1>1. Seqs!FoldLeft(ChildOf, SegmentsStart(z, t), t.children) \in BitrateAndSettings(c0, b)
  BY SegmentsStartStays, ChildFolds, FoldStays
<1> QED
  BY <1>1 DEF SegmentsOf, SegmentsStart

SegmentsSteps(R, t) == [i \in 1..Len(t.children) |-> [x \in R |-> SegmentsOf(x, t.children[i])]]

LEMMA SegmentsFolds ==
  ASSUME NEW c0, NEW b, NEW c \in BitrateAndSettings(c0, b), NEW t, IsTag(t),
         \A u \in Children(t) : IsTag(u) /\ \A v \in Children(u) : IsTag(v)
  PROVE  Folds(SegmentsSteps(BitrateAndSettings(c0, b), t), BitrateAndSettings(c0, b), c, Seqs!FoldLeft(SegmentsOf, c, t.children),
               Len(t.children))
<1> DEFINE R == BitrateAndSettings(c0, b)
           s == t.children
           N == Len(s)
           Step(x, u) == SegmentsOf(x, u)
           step == [i \in 1..N |-> [x \in R |-> Step(x, s[i])]]
           Fold(g) == [T \in SUBSET (DOMAIN s) |->
                         IF T = {} THEN c ELSE Step(g[T \ {Seqs!Max(T)}], s[Seqs!Max(T)])]
           iter == CHOOSE g : g = Fold(g)
<1>1. N \in Nat /\ DOMAIN s = 1..N /\ c \in R
  BY DEF IsTag
<1>2. step \in [1..N -> [R -> R]]
  <2>1. ASSUME NEW i \in 1..N, NEW x \in R PROVE Step(x, s[i]) \in R
    <3>1. IsTag(s[i]) /\ \A v \in Children(s[i]) : IsTag(v)
      BY <1>1 DEF Children
    <3> QED
      BY <3>1, SegmentsStay
  <2> HIDE DEF Step, R
  <2> QED
    BY <2>1
<1>3. ASSUME NEW T \in SUBSET (1..N), T # {}, NEW x \in R
      PROVE  step[Seqs!Max(T)][x] = Step(x, s[Seqs!Max(T)])
  <2>1. Seqs!Max(T) \in 1..N
    BY <1>1, <1>3, MaxOf
  <2> HIDE DEF R, Step
  <2> QED
    BY <2>1
<1>4. iter = Fold(iter)
  <2>1. PICK g : g \in Folding(N, R, c, step)
    <3> HIDE DEF R, step, N
    <3>1. Folding(N, R, c, step) # {}
      BY <1>1, <1>2, FoldingExists
    <3> QED
      BY <3>1
  <2>2. g = Fold(g)
    <3> HIDE DEF R, Step, step
    <3> QED
      BY <1>1, <1>3, <2>1 DEF Folding
  <2> HIDE DEF Fold
  <2> QED
    BY <2>2
<1>5. FoldsBy(iter, N, R, c, step)
  <2> HIDE DEF iter, Step, R, step
  <2> QED
    BY <1>1, <1>3, <1>4 DEF FoldsBy
<1>6. Seqs!FoldLeft(SegmentsOf, c, s) = iter[1..N]
  BY <1>1 DEF Seqs!FoldLeft, Seqs!MapThenFoldSet
<1>7. SegmentsSteps(R, t) = step
  BY DEF SegmentsSteps
<1> HIDE DEF iter, step, N, R
<1>8. Folds(step, R, c, Seqs!FoldLeft(SegmentsOf, c, s), N)
  BY <1>1, <1>2, <1>5, <1>6 DEF Folds
<1> QED
  BY <1>7, <1>8 DEF N, R

CvrStart(c, t) == [bitrate |-> Uninitialized, c |-> XPC_parse_cvr_attr(c, t)]

LEMMA CvrStartStays ==
  ASSUME NEW c0, NEW b, NEW c \in Reached(c0, b), NEW t, IsTag(t)
  PROVE  CvrStart(c, t) \in BitrateAndSettings(c0, b)
BY CvrAttr DEF CvrStart, BitrateAndSettings, Uninitialized, Bitrates

LEMMA CvrSegmentIs ==
  ASSUME NEW c, NEW t
  PROVE  XPC_parse_cvr_segment(c, t) = Seqs!FoldLeft(SegmentsOf, CvrStart(c, t), t.children).c
BY DEF XPC_parse_cvr_segment, CvrStart, SegmentsOf, ChildOf, Seqs!FoldLeft, Seqs!MapThenFoldSet

LEMMA CvrSegment ==
  ASSUME NEW c0, NEW b, NEW c \in Reached(c0, b), NEW t, IsTag(t),
         \A u \in Children(t) : IsTag(u) /\ \A v \in Children(u) : IsTag(v)
  PROVE  XPC_parse_cvr_segment(c, t) \in Reached(c0, b)
<1>1. Seqs!FoldLeft(SegmentsOf, CvrStart(c, t), t.children) \in BitrateAndSettings(c0, b)
  BY CvrStartStays, SegmentsFolds, FoldStays
<1> QED
  BY <1>1, CvrSegmentIs DEF BitrateAndSettings

-----------------------------------------------------------------------------
(* <metrics> *)

Reports == SUBSET (Dataset1 \cup Dataset2 \cup Dataset3)

LEMMA DatasetReplaced ==
  ASSUME NEW d \in Datasets, NEW f, NEW v,
         \/ f \in {"interval", "timeout"} /\ v \in Nat
         \/ f = "url" /\ v \in Urls
         \/ f = "auth" /\ v \in Texts
         \/ f = "enabled" /\ v \in Reports
  PROVE  [d EXCEPT ![f] = v] \in Datasets
<1>1. d = [interval |-> d.interval, url |-> d.url, auth |-> d.auth, timeout |-> d.timeout,
           enabled |-> d.enabled]
      /\ d.interval \in Nat /\ d.url \in Urls /\ d.auth \in Texts /\ d.timeout \in Nat /\ d.enabled \in Reports
  BY DEF Datasets, Reports
<1>2. CASE f = "interval"
  BY <1>1, <1>2 DEF Datasets, Reports
<1>3. CASE f = "timeout"
  BY <1>1, <1>3 DEF Datasets, Reports
<1>4. CASE f = "url"
  BY <1>1, <1>4 DEF Datasets, Reports
<1>5. CASE f = "auth"
  BY <1>1, <1>5 DEF Datasets, Reports
<1>6. CASE f = "enabled"
  BY <1>1, <1>6 DEF Datasets, Reports
<1> QED
  BY <1>2, <1>3, <1>4, <1>5, <1>6

LEMMA SetDatasetStays ==
  ASSUME NEW c0, NEW b, NEW c \in Reached(c0, b), NEW i \in 1..3, NEW f, NEW v,
         \/ f \in {"interval", "timeout"} /\ v \in Nat
         \/ f = "url" /\ v \in Urls
         \/ f = "auth" /\ v \in Texts
         \/ f = "enabled" /\ v \in Reports
  PROVE  SetDataset(c, i, f, v) \in Reached(c0, b)
<1> DEFINE old == c["dataset"]
           new == [old EXCEPT ![i] = [old[i] EXCEPT ![f] = v]]
           chg == c["chg"] \/ old[i][f] # v
           d == [g \in Fields |-> IF g = "chg" THEN chg ELSE IF g = "dataset" THEN new ELSE c[g]]
<1>1. c = [g \in Fields |-> c[g]] /\ c["chg"] \in BOOLEAN /\ old \in [1..3 -> Datasets]
  BY FieldType, FieldNames DEF Reached
<1>2. new \in [1..3 -> Datasets]
  <2>1. old[i] \in Datasets
    BY <1>1
  <2>2. [old[i] EXCEPT ![f] = v] \in Datasets
    BY <2>1, DatasetReplaced
  <2> QED
    BY <1>1, <2>2
<1>3. old[i][f] = v => old = new
  <2> SUFFICES ASSUME old[i][f] = v PROVE old = new
    OBVIOUS
  <2>1. [old[i] EXCEPT ![f] = v] = old[i]
    BY <1>1 DEF Datasets
  <2> QED
    BY <1>1, <2>1
<1>4. d \in Reached(c0, b)
  <2>1. chg \in BOOLEAN /\ (chg \/ c["dataset"] = new) /\ (c["chg"] => chg)
    BY <1>1, <1>3
  <2> HIDE DEF chg, new
  <2> QED
    BY <1>2, <2>1, FieldNames, FieldType, Replaced
<1>5. SetDataset(c, i, f, v) = d
  BY <1>1, FieldNames DEF SetDataset
<1> QED
  BY <1>4, <1>5

LEMMA DatasetAttr ==
  ASSUME NEW c0, NEW b, NEW c \in Reached(c0, b), NEW t, IsTag(t), NEW i \in 1..3
  PROVE  XPC_parse_dataset_attr(c, t, i) \in Reached(c0, b)
<1> DEFINE u  == Url(t)
           c1 == SetDataset(c, i, "interval", Period(t, "interval"))
           c2 == IF u = NoUrl \/ IsHttp(u) THEN c1
                 ELSE SetDataset(c1, i, "url", XPC_append_mac_to_url(c, u))
           c3 == SetDataset(c2, i, "auth", Text(t, "auth"))
           c4 == SetDataset(c3, i, "timeout", Period(t, "timeout"))
<1>1. c1 \in Reached(c0, b)
  BY Attributes, SetDatasetStays
<1>2. XPC_append_mac_to_url(c, u) \in Urls
  <2>1. u \in Urls
    BY Attributes
  <2> HIDE DEF u
  <2> QED
    BY <2>1, TextsAssumption DEF XPC_append_mac_to_url, Urls, NoUrl
<1>3. c2 \in Reached(c0, b)
  BY <1>1, <1>2, SetDatasetStays
<1>4. c3 \in Reached(c0, b)
  BY <1>3, Attributes, SetDatasetStays
<1>5. c4 \in Reached(c0, b)
  BY <1>4, Attributes, SetDatasetStays
<1> QED
  BY <1>5 DEF XPC_parse_dataset_attr

\* What is left of the bits e after one tag of data set i.
DisabledOf(i, e, u) ==
  IF u.name # "disabled" THEN e
  ELSE CASE i = 1 -> XPC_parse_dataset1_disabled(e, u)
         [] i = 2 -> XPC_parse_dataset2_disabled(e, u)
         [] i = 3 -> XPC_parse_dataset3_disabled(e, u)
EnableOf(i, all, t) == Seqs!FoldLeft(LAMBDA e, d : DisabledOf(i, e, d), all, t.children)

LEMMA DisabledStays ==
  ASSUME NEW i \in 1..3, NEW e \in Reports, NEW u
  PROVE  DisabledOf(i, e, u) \in Reports
<1>1. ASSUME NEW S PROVE e \ S \in Reports
  BY DEF Reports
<1>2. CASE u.name # "disabled"
  BY <1>2 DEF DisabledOf
<1>3. CASE u.name = "disabled" /\ i = 1
  <2>1. DisabledOf(i, e, u) = XPC_parse_dataset1_disabled(e, u)
    BY <1>3 DEF DisabledOf
  <2> QED
    BY <1>1, <2>1 DEF XPC_parse_dataset1_disabled
<1>4. CASE u.name = "disabled" /\ i = 2
  <2>1. DisabledOf(i, e, u) = XPC_parse_dataset2_disabled(e, u)
    BY <1>4 DEF DisabledOf
  <2> QED
    BY <1>1, <2>1 DEF XPC_parse_dataset2_disabled
<1>5. CASE u.name = "disabled" /\ i = 3
  <2>1. DisabledOf(i, e, u) = XPC_parse_dataset3_disabled(e, u)
    BY <1>5 DEF DisabledOf
  <2> QED
    BY <1>1, <2>1 DEF XPC_parse_dataset3_disabled
<1> QED
  BY <1>2, <1>3, <1>4, <1>5

LEMMA EnableStays ==
  ASSUME NEW i \in 1..3, NEW all \in Reports, NEW t, IsTag(t)
  PROVE  EnableOf(i, all, t) \in Reports
<1> DEFINE R == Reports
           s == t.children
           N == Len(s)
           Step(x, u) == DisabledOf(i, x, u)
           step == [k \in 1..N |-> [x \in R |-> Step(x, s[k])]]
           Fold(g) == [T \in SUBSET (DOMAIN s) |->
                         IF T = {} THEN all
                         ELSE Step(g[T \ {Seqs!Max(T)}], s[Seqs!Max(T)])]
           iter == CHOOSE g : g = Fold(g)
<1>1. N \in Nat /\ DOMAIN s = 1..N /\ all \in R
  BY DEF IsTag
<1>2. step \in [1..N -> [R -> R]]
  <2>1. ASSUME NEW k \in 1..N, NEW x \in R PROVE Step(x, s[k]) \in R
    BY DisabledStays
  <2> HIDE DEF Step, R
  <2> QED
    BY <2>1
<1>3. ASSUME NEW T \in SUBSET (1..N), T # {}, NEW x \in R
      PROVE  step[Seqs!Max(T)][x] = Step(x, s[Seqs!Max(T)])
  <2>1. Seqs!Max(T) \in 1..N
    BY <1>1, <1>3, MaxOf
  <2> HIDE DEF R, Step
  <2> QED
    BY <2>1
<1>4. iter = Fold(iter)
  <2>1. PICK g : g \in Folding(N, R, all, step)
    <3> HIDE DEF R, step, N
    <3>1. Folding(N, R, all, step) # {}
      BY <1>1, <1>2, FoldingExists
    <3> QED
      BY <3>1
  <2>2. g = Fold(g)
    <3> HIDE DEF R, Step, step
    <3> QED
      BY <1>1, <1>3, <2>1 DEF Folding
  <2> HIDE DEF Fold
  <2> QED
    BY <2>2
<1>5. FoldsBy(iter, N, R, all, step)
  <2> HIDE DEF iter, Step, R, step
  <2> QED
    BY <1>1, <1>3, <1>4 DEF FoldsBy
<1>6. iter[1..N] \in R
  <2> HIDE DEF iter, step, R, N
  <2> QED
    BY <1>1, <1>2, <1>5, FoldByStays
<1>7. Seqs!FoldLeft(LAMBDA e, d : DisabledOf(i, e, d), all, s) = iter[DOMAIN s]
  BY DEF Seqs!FoldLeft, Seqs!MapThenFoldSet
<1> QED
  BY <1>1, <1>6, <1>7 DEF EnableOf

DatasetOf(c, t) ==
  LET One(i, all) == SetDataset(XPC_parse_dataset_attr(c, t, i), i, "enabled", EnableOf(i, all, t))
  IN  CASE t.name = "dataset1" -> One(1, Dataset1)
        [] t.name = "dataset2" -> One(2, Dataset2)
        [] t.name = "dataset3" -> One(3, Dataset3)
        [] OTHER -> c

LEMMA DatasetStays ==
  ASSUME NEW c0, NEW b, NEW c \in Reached(c0, b), NEW t, IsTag(t)
  PROVE  DatasetOf(c, t) \in Reached(c0, b)
<1>1. ASSUME NEW i \in 1..3, NEW all \in Reports
      PROVE  SetDataset(XPC_parse_dataset_attr(c, t, i), i, "enabled", EnableOf(i, all, t)) \in Reached(c0, b)
  BY DatasetAttr, EnableStays, SetDatasetStays
<1>2. Dataset1 \in Reports /\ Dataset2 \in Reports /\ Dataset3 \in Reports
  BY DEF Reports
<1>3. CASE t.name = "dataset1"
  BY <1>1, <1>2, <1>3 DEF DatasetOf
<1>4. CASE t.name = "dataset2"
  BY <1>1, <1>2, <1>4 DEF DatasetOf
<1>5. CASE t.name = "dataset3"
  BY <1>1, <1>2, <1>5 DEF DatasetOf
<1>6. CASE t.name \notin {"dataset1", "dataset2", "dataset3"}
  BY <1>6 DEF DatasetOf
<1> QED
  BY <1>3, <1>4, <1>5, <1>6

DatasetSteps(R, t) == [i \in 1..Len(t.children) |-> [x \in R |-> DatasetOf(x, t.children[i])]]

LEMMA DatasetFolds ==
  ASSUME NEW c0, NEW b, NEW c \in Reached(c0, b), NEW t, IsTag(t),
         \A u \in Children(t) : IsTag(u)
  PROVE  Folds(DatasetSteps(Reached(c0, b), t), Reached(c0, b), c, Seqs!FoldLeft(DatasetOf, c, t.children),
               Len(t.children))
<1> DEFINE R == Reached(c0, b)
           s == t.children
           N == Len(s)
           Step(x, u) == DatasetOf(x, u)
           step == [i \in 1..N |-> [x \in R |-> Step(x, s[i])]]
           Fold(g) == [T \in SUBSET (DOMAIN s) |->
                         IF T = {} THEN c ELSE Step(g[T \ {Seqs!Max(T)}], s[Seqs!Max(T)])]
           iter == CHOOSE g : g = Fold(g)
<1>1. N \in Nat /\ DOMAIN s = 1..N /\ c \in R
  BY DEF IsTag
<1>2. step \in [1..N -> [R -> R]]
  <2>1. ASSUME NEW i \in 1..N, NEW x \in R PROVE Step(x, s[i]) \in R
    <3>1. IsTag(s[i])
      BY <1>1 DEF Children
    <3> QED
      BY <3>1, DatasetStays
  <2> HIDE DEF Step, R
  <2> QED
    BY <2>1
<1>3. ASSUME NEW T \in SUBSET (1..N), T # {}, NEW x \in R
      PROVE  step[Seqs!Max(T)][x] = Step(x, s[Seqs!Max(T)])
  <2>1. Seqs!Max(T) \in 1..N
    BY <1>1, <1>3, MaxOf
  <2> HIDE DEF R, Step
  <2> QED
    BY <2>1
<1>4. iter = Fold(iter)
  <2>1. PICK g : g \in Folding(N, R, c, step)
    <3> HIDE DEF R, step, N
    <3>1. Folding(N, R, c, step) # {}
      BY <1>1, <1>2, FoldingExists
    <3> QED
      BY <3>1
  <2>2. g = Fold(g)
    <3> HIDE DEF R, Step, step
    <3> QED
      BY <1>1, <1>3, <2>1 DEF Folding
  <2> HIDE DEF Fold
  <2> QED
    BY <2>2
<1>5. FoldsBy(iter, N, R, c, step)
  <2> HIDE DEF iter, Step, R, step
  <2> QED
    BY <1>1, <1>3, <1>4 DEF FoldsBy
<1>6. Seqs!FoldLeft(DatasetOf, c, s) = iter[1..N]
  BY <1>1 DEF Seqs!FoldLeft, Seqs!MapThenFoldSet
<1>7. DatasetSteps(R, t) = step
  BY DEF DatasetSteps
<1> HIDE DEF iter, step, N, R
<1>8. Folds(step, R, c, Seqs!FoldLeft(DatasetOf, c, s), N)
  BY <1>1, <1>2, <1>5, <1>6 DEF Folds
<1> QED
  BY <1>7, <1>8 DEF N, R

LEMMA MetricsSegmentIs ==
  ASSUME NEW c, NEW t
  PROVE  XPC_parse_metrics_segment(c, t) = Seqs!FoldLeft(DatasetOf, c, t.children)
BY DEF XPC_parse_metrics_segment, DatasetOf, EnableOf, DisabledOf, Seqs!FoldLeft, Seqs!MapThenFoldSet

LEMMA MetricsSegment ==
  ASSUME NEW c0, NEW b, NEW c \in Reached(c0, b), NEW t, IsTag(t), \A u \in Children(t) : IsTag(u)
  PROVE  XPC_parse_metrics_segment(c, t) \in Reached(c0, b)
BY DatasetFolds, FoldStays, MetricsSegmentIs

-----------------------------------------------------------------------------
(* <events> and the document *)

LEMMA SaveItemType ==
  ASSUME NEW item \in Items, NEW name \in Texts, NEW enable \in Int, NEW interval \in Int
  PROVE  SaveItem(item, name, enable, interval) \in Items
<1> DEFINE old == IF item.event_name = name THEN item
                  ELSE [NoItem EXCEPT !.interval = XPC_ENVETN_INTERVAL_DEF]
<1>1. old.enable \in Int /\ old.interval \in Int
  BY DEF Items, NoItem, XPC_ENVETN_INTERVAL_DEF
<1> HIDE DEF old
<1>2. [event_name |-> name, enable |-> IF enable = -1 THEN old.enable ELSE enable,
       interval |-> IF interval = -1 THEN old.interval ELSE interval, fixed |-> TRUE] \in Items
  BY <1>1 DEF Items
<1> QED
  BY <1>2 DEF SaveItem, old

\* The event table and the switch are replaced.
LEMMA TableReplaced ==
  ASSUME NEW c0, NEW b, NEW c \in Reached(c0, b),
         NEW items \in [1..EVENT_TRIGGER_ITEM_NUMBER_MAX -> Items], NEW trig \in BOOLEAN,
         NEW chg \in BOOLEAN, c["chg"] => chg,
         chg \/ (items = c["items"] /\ trig = c["trig"]),
         ComcastPartner /\ "trig" \notin b => trig = AnyEnabled(items)
  PROVE  [g \in Fields |-> IF g = "chg" THEN chg ELSE IF g = "items" THEN items
                           ELSE IF g = "trig" THEN trig ELSE c[g]] \in Reached(c0, b)
<1> DEFINE d == [g \in Fields |-> IF g = "chg" THEN chg ELSE IF g = "items" THEN items
                                  ELSE IF g = "trig" THEN trig ELSE c[g]]
<1>1. ASSUME NEW g \in Fields PROVE d[g] \in FieldTypes[g]
  BY FieldType DEF Reached
<1>2. d \in [Fields -> UNION {FieldTypes[g] : g \in Fields}]
  BY <1>1
<1>3. d["broken"] = c["broken"] /\ d["items"] = items /\ d["trig"] = trig /\ d["chg"] = chg
  BY FieldNames
<1>4. chg \/ \A g \in Fields \ Unmarked : d[g] = c0[g]
  BY DEF Reached, Unmarked
<1> HIDE DEF d
<1>5. d \in Reached(c0, b)
  BY <1>1, <1>2, <1>3, <1>4 DEF Reached
<1> QED
  BY <1>5 DEF d

LEMMA SaveEntry ==
  ASSUME NEW c0, NEW b, NEW c \in Reached(c0, b),
         NEW enable \in Int, NEW interval \in Int, NEW name \in Texts
  PROVE  XPC_save_event_entry(c, enable, interval, name) \in Reached(c0, b)
<1> DEFINE slot  == EventSlot(c.items, name)
           items == [i \in DOMAIN c.items |->
                       IF i \in slot THEN SaveItem(c.items[i], name, enable, interval) ELSE c.items[i]]
           c1    == [c EXCEPT !.items = items, !.chg = @ \/ items # c.items]
           any   == AnyEnabled(items)
           chg   == c["chg"] \/ items # c["items"]
           c2    == [g \in Fields |-> IF g = "chg" THEN chg ELSE IF g = "items" THEN items
                                      ELSE IF g = "trig" THEN c["trig"] ELSE c[g]]
           c3    == [g \in Fields |-> IF g = "chg" THEN chg \/ c["trig"] # any
                                      ELSE IF g = "items" THEN items ELSE IF g = "trig" THEN any ELSE c[g]]
<1>1. /\ c = [g \in Fields |-> c[g]] /\ c["chg"] \in BOOLEAN /\ c["trig"] \in BOOLEAN
      /\ c["items"] \in [1..EVENT_TRIGGER_ITEM_NUMBER_MAX -> Items] /\ c.items = c["items"]
      /\ c["broken"] = b /\ c.broken = c["broken"]
  BY FieldType, FieldNames DEF Reached
<1>2. items \in [1..EVENT_TRIGGER_ITEM_NUMBER_MAX -> Items]
  <2>1. \A i \in DOMAIN c.items : SaveItem(c.items[i], name, enable, interval) \in Items
    BY <1>1, SaveItemType
  <2> HIDE DEF slot
  <2> QED
    BY <1>1, <2>1
<1> HIDE DEF items
<1>3. any \in BOOLEAN
  BY DEF AnyEnabled
<1> HIDE DEF any
<1>4. c1 = c2
  BY <1>1, FieldNames
<1>5. CASE ~ComcastPartner \/ "trig" \in b
  <2>1. c2 \in Reached(c0, b)
    <3>1. chg \in BOOLEAN /\ (c["chg"] => chg) /\ (chg \/ items = c["items"])
      BY <1>1
    <3> HIDE DEF chg
    <3> QED
      BY <1>1, <1>2, <1>5, <3>1, TableReplaced
  <2>2. c1.broken = b
    BY <1>1, <1>4, FieldNames
  <2>3. XPC_save_event_entry(c, enable, interval, name) = c1
    <3> HIDE DEF c1
    <3>1. Set(c1, "trig", any) = c1 \/ ~ComcastPartner
      BY <1>5, <2>2 DEF Set
    <3> QED
      BY <3>1 DEF XPC_save_event_entry, items, c1, any
  <2> QED
    BY <1>4, <2>1, <2>3
<1>6. CASE ComcastPartner /\ "trig" \notin b
  <2>1. c3 \in Reached(c0, b)
    <3> DEFINE chg3 == chg \/ c["trig"] # any
    <3>1. /\ chg3 \in BOOLEAN /\ (c["chg"] => chg3)
          /\ chg3 \/ (items = c["items"] /\ any = c["trig"])
      BY <1>1
    <3>2. any = AnyEnabled(items)
      BY DEF any
    <3> HIDE DEF chg3, chg
    <3>3. [g \in Fields |-> IF g = "chg" THEN chg3 ELSE IF g = "items" THEN items
                            ELSE IF g = "trig" THEN any ELSE c[g]] \in Reached(c0, b)
      BY <1>2, <1>3, <3>1, <3>2, TableReplaced
    <3> QED
      BY <3>3 DEF chg3
  <2>2. Set(c2, "trig", any) = c3
    <3>1. c2.broken = b /\ c2["trig"] = c["trig"] /\ c2.chg = chg
      BY <1>1, FieldNames
    <3>2. [c2 EXCEPT !["trig"] = any, !.chg = @ \/ c2["trig"] # any] = c3
      BY <1>1, <3>1, FieldNames
    <3> HIDE DEF c2, c3
    <3> QED
      BY <1>6, <3>1, <3>2 DEF Set
  <2>3. XPC_save_event_entry(c, enable, interval, name) = Set(c1, "trig", any)
    BY <1>6 DEF XPC_save_event_entry, items, any
  <2> QED
    BY <1>4, <2>1, <2>2, <2>3
<1> QED
  BY <1>5, <1>6

LEMMA EventsAttr ==
  ASSUME NEW c0, NEW b, NEW c \in Reached(c0, b), NEW t, IsTag(t)
  PROVE  XPC_parse_events_attr(c, t) \in Reached(c0, b)
<1> DEFINE quiet == Period(t, "quietInterval")
           c1 == SetUrl(c, "http_url", Url(t))
           c2 == Set(c1, "http_auth", Text(t, "auth"))
           c3 == [c2 EXCEPT !.event_quiet_time = quiet]
           c4 == Set(c3, "http_event_timeout", Period(t, "timeout"))
<1>1. c1 \in Reached(c0, b)
  BY Attributes, SetUrlStays
<1>2. c2 \in Reached(c0, b)
  BY <1>1, Attributes, FieldNames, FieldType, SetStays
<1>3. quiet \in Nat
  BY Attributes
<1> HIDE DEF c2, quiet
<1>4. c3 \in Reached(c0, b)
  <2>1. c2 = [g \in Fields |-> c2[g]] /\ c2["chg"] \in BOOLEAN
    BY <1>2, FieldNames, FieldType DEF Reached
  <2>2. [g \in Fields |-> IF g = "chg" THEN c2["chg"] ELSE IF g = "event_quiet_time" THEN quiet ELSE c2[g]]
          \in Reached(c0, b)
    <3>1. /\ "event_quiet_time" \in Fields \ {"chg", "broken", "trig", "items"}
          /\ "event_quiet_time" \in Unmarked /\ quiet \in FieldTypes["event_quiet_time"]
      BY <1>3, FieldNames, FieldType DEF Unmarked
    <3>2. c2["chg"] \in BOOLEAN
      BY <2>1
    <3> QED
      BY <1>2, <3>1, <3>2, Replaced
  <2>3. c3 = [g \in Fields |-> IF g = "chg" THEN c2["chg"]
                               ELSE IF g = "event_quiet_time" THEN quiet ELSE c2[g]]
    BY <2>1, FieldNames
  <2> QED
    BY <2>2, <2>3
<1> HIDE DEF c3
<1>5. c4 \in Reached(c0, b)
  BY <1>4, Attributes, FieldNames, FieldType, SetStays
<1> QED
  BY <1>5 DEF XPC_parse_events_attr, c2, c3, quiet

Flags == [motion : Int, human : Int, tamper : Int]
FlagOf(f, t) ==
  CASE t.name = "motion" -> [f EXCEPT !.motion = XPC_parse_events_motion_attr(t, @)]
    [] t.name = "human"  -> [f EXCEPT !.human = XPC_parse_events_human_attr(t, @)]
    [] t.name = "tamper" -> [f EXCEPT !.tamper = XPC_parse_events_tamper_attr(t, @)]
    [] OTHER -> f
FlagsOf(t) == Seqs!FoldLeft(FlagOf, [motion |-> -1, human |-> -1, tamper |-> -1], t.children)

LEMMA FlagStays ==
  ASSUME NEW f \in Flags, NEW t
  PROVE  FlagOf(f, t) \in Flags
<1>1. \A n \in Int : XPC_parse_events_motion_attr(t, n) \in Int
  BY DEF XPC_parse_events_motion_attr
<1>2. CASE t.name = "motion"
  BY <1>1, <1>2 DEF FlagOf, Flags
<1>3. CASE t.name = "human"
  BY <1>1, <1>3 DEF FlagOf, Flags, XPC_parse_events_human_attr
<1>4. CASE t.name = "tamper"
  BY <1>1, <1>4 DEF FlagOf, Flags, XPC_parse_events_tamper_attr
<1>5. CASE t.name \notin {"motion", "human", "tamper"}
  BY <1>5 DEF FlagOf
<1> QED
  BY <1>2, <1>3, <1>4, <1>5

LEMMA FlagsStay ==
  ASSUME NEW t, IsTag(t)
  PROVE  FlagsOf(t) \in Flags
<1> DEFINE R == Flags
           s == t.children
           N == Len(s)
           start == [motion |-> -1, human |-> -1, tamper |-> -1]
           Step(x, u) == FlagOf(x, u)
           step == [i \in 1..N |-> [x \in R |-> Step(x, s[i])]]
           Fold(g) == [T \in SUBSET (DOMAIN s) |->
                         IF T = {} THEN start
                         ELSE Step(g[T \ {Seqs!Max(T)}], s[Seqs!Max(T)])]
           iter == CHOOSE g : g = Fold(g)
<1>1. N \in Nat /\ DOMAIN s = 1..N /\ start \in R
  BY DEF IsTag, Flags
<1> HIDE DEF start
<1>2. step \in [1..N -> [R -> R]]
  <2>1. ASSUME NEW i \in 1..N, NEW x \in R PROVE Step(x, s[i]) \in R
    BY FlagStays
  <2> HIDE DEF Step, R
  <2> QED
    BY <2>1
<1>3. ASSUME NEW T \in SUBSET (1..N), T # {}, NEW x \in R
      PROVE  step[Seqs!Max(T)][x] = Step(x, s[Seqs!Max(T)])
  <2>1. Seqs!Max(T) \in 1..N
    BY <1>1, <1>3, MaxOf
  <2> HIDE DEF R, Step
  <2> QED
    BY <2>1
<1>4. iter = Fold(iter)
  <2>1. PICK g : g \in Folding(N, R, start, step)
    <3> HIDE DEF R, step, N
    <3>1. Folding(N, R, start, step) # {}
      BY <1>1, <1>2, FoldingExists
    <3> QED
      BY <3>1
  <2>2. g = Fold(g)
    <3> HIDE DEF R, Step, step
    <3> QED
      BY <1>1, <1>3, <2>1 DEF Folding
  <2> HIDE DEF Fold
  <2> QED
    BY <2>2
<1>5. FoldsBy(iter, N, R, start, step)
  <2> HIDE DEF iter, Step, R, step
  <2> QED
    BY <1>1, <1>3, <1>4 DEF FoldsBy
<1>6. iter[1..N] \in R
  <2> HIDE DEF iter, step, R, N
  <2> QED
    BY <1>1, <1>2, <1>5, FoldByStays
<1>7. FlagsOf(t) = iter[DOMAIN s]
  BY DEF FlagsOf, start, Seqs!FoldLeft, Seqs!MapThenFoldSet
<1> QED
  BY <1>1, <1>6, <1>7

LEMMA EventsSegment ==
  ASSUME NEW c0, NEW b, NEW c \in Reached(c0, b), NEW t, IsTag(t)
  PROVE  XPC_parse_events_segment(c, t) \in Reached(c0, b)
<1> DEFINE interval == IF NoAttributes(t) THEN -1 ELSE Period(t, "quietInterval")
           flag == FlagsOf(t)
           c1 == XPC_parse_events_attr(c, t)
           c2 == XPC_save_event_entry(c1, flag.motion, interval, "XFINITY_MOTION")
           c3 == XPC_save_event_entry(c2, flag.human, interval, "XFINITY_MOTION_PEOPLE")
           c4 == Set(c3, "human_detect", flag.human)
           c5 == XPC_save_event_entry(c4, flag.tamper, interval, "XFINITY_MOTION_TAMPER")
<1>1. interval \in Int
  BY Attributes
<1>2. flag.motion \in Int /\ flag.human \in Int /\ flag.tamper \in Int
  BY FlagsStay DEF Flags
<1> HIDE DEF interval, flag
<1>3. c1 \in Reached(c0, b)
  BY EventsAttr
<1> HIDE DEF c1
<1>4. c2 \in Reached(c0, b)
  BY <1>1, <1>2, <1>3, SaveEntry, TextsAssumption
<1> HIDE DEF c2
<1>5. c3 \in Reached(c0, b)
  BY <1>1, <1>2, <1>4, SaveEntry, TextsAssumption
<1> HIDE DEF c3
<1>6. c4 \in Reached(c0, b)
  BY <1>2, <1>5, FieldNames, FieldType, SetStays
<1> HIDE DEF c4
<1>7. c5 \in Reached(c0, b)
  BY <1>1, <1>2, <1>6, SaveEntry, TextsAssumption
<1> HIDE DEF c5
<1>8. XPC_parse_events_segment(c, t) = IF "human_detect" \in c.broken THEN c3 ELSE c5
  BY DEF XPC_parse_events_segment, c1, c2, c3, c4, c5, interval, flag, FlagsOf, FlagOf,
         Seqs!FoldLeft, Seqs!MapThenFoldSet
<1> QED
  BY <1>5, <1>7, <1>8

LEMMA ConfigAttr ==
  ASSUME NEW c0, NEW b, NEW c \in Reached(c0, b), NEW t, IsTag(t)
  PROVE  XPC_parse_config_attr(c, t) \in Reached(c0, b)
<1> DEFINE redirect == IsHttp(Url(t))
           url == IF redirect THEN DefaultUrl ELSE Url(t)
           auth == IF redirect THEN "" ELSE Text(t, "auth")
           c1 == Set(c, "polling_interval", Period(t, "interval"))
           c2 == Set(c1, "polling_url", url)
           c3 == Set(c2, "polling_auth", auth)
<1>1. url \in Urls
  BY Attributes, TextsAssumption DEF DefaultUrl, Urls
<1>2. auth \in Texts
  BY Attributes, TextsAssumption
<1> HIDE DEF url, auth
<1>3. c1 \in Reached(c0, b)
  BY Attributes, FieldNames, FieldType, SetStays
<1>4. c2 \in Reached(c0, b)
  BY <1>1, <1>3, FieldNames, FieldType, SetStays
<1>5. c3 \in Reached(c0, b)
  BY <1>2, <1>4, FieldNames, FieldType, SetStays
<1> QED
  BY <1>5 DEF XPC_parse_config_attr, url, auth

SegmentOf(c, t) ==
  CASE t.name = "system"    -> XPC_parse_system_segment(c, t)
    [] t.name = "cvr"       -> XPC_parse_cvr_segment(c, t)
    [] t.name = "events"    -> XPC_parse_events_segment(c, t)
    [] t.name = "detection" -> XPC_parse_motion_segment(c, t)
    [] t.name = "metrics"   -> XPC_parse_metrics_segment(c, t)
    [] OTHER -> c

LEMMA SegmentStays ==
  ASSUME NEW c0, NEW b, NEW c \in Reached(c0, b), NEW t, IsTag(t),
         \A u \in Children(t) : IsTag(u) /\ \A v \in Children(u) : IsTag(v)
  PROVE  SegmentOf(c, t) \in Reached(c0, b)
<1>1. CASE t.name = "system"
  <2>1. SegmentOf(c, t) = XPC_parse_system_segment(c, t)
    BY <1>1 DEF SegmentOf
  <2> QED
    BY <2>1, SystemSegment
<1>2. CASE t.name = "cvr"
  <2>1. SegmentOf(c, t) = XPC_parse_cvr_segment(c, t)
    BY <1>2 DEF SegmentOf
  <2> QED
    BY <2>1, CvrSegment
<1>3. CASE t.name = "events"
  <2>1. SegmentOf(c, t) = XPC_parse_events_segment(c, t)
    BY <1>3 DEF SegmentOf
  <2> QED
    BY <2>1, EventsSegment
<1>4. CASE t.name = "detection"
  <2>1. SegmentOf(c, t) = XPC_parse_motion_segment(c, t)
    BY <1>4 DEF SegmentOf
  <2> QED
    BY <2>1, MotionSegment
<1>5. CASE t.name = "metrics"
  <2>1. SegmentOf(c, t) = XPC_parse_metrics_segment(c, t)
    BY <1>5 DEF SegmentOf
  <2> QED
    BY <2>1, MetricsSegment
<1>6. CASE t.name \notin {"system", "cvr", "events", "detection", "metrics"}
  BY <1>6 DEF SegmentOf
<1> QED
  BY <1>1, <1>2, <1>3, <1>4, <1>5, <1>6

SegmentSteps(R, t) == [i \in 1..Len(t.children) |-> [x \in R |-> SegmentOf(x, t.children[i])]]

LEMMA SegmentFolds ==
  ASSUME NEW c0, NEW b, NEW c \in Reached(c0, b), NEW t, IsTag(t),
         \A u \in Children(t) : IsTag(u)
                                /\ \A v \in Children(u) : IsTag(v) /\ \A w \in Children(v) : IsTag(w)
  PROVE  Folds(SegmentSteps(Reached(c0, b), t), Reached(c0, b), c, Seqs!FoldLeft(SegmentOf, c, t.children),
               Len(t.children))
<1> DEFINE R == Reached(c0, b)
           s == t.children
           N == Len(s)
           Step(x, u) == SegmentOf(x, u)
           step == [i \in 1..N |-> [x \in R |-> Step(x, s[i])]]
           Fold(g) == [T \in SUBSET (DOMAIN s) |->
                         IF T = {} THEN c ELSE Step(g[T \ {Seqs!Max(T)}], s[Seqs!Max(T)])]
           iter == CHOOSE g : g = Fold(g)
<1>1. N \in Nat /\ DOMAIN s = 1..N /\ c \in R
  BY DEF IsTag
<1>2. step \in [1..N -> [R -> R]]
  <2>1. ASSUME NEW i \in 1..N, NEW x \in R PROVE Step(x, s[i]) \in R
    <3>1. IsTag(s[i]) /\ \A u \in Children(s[i]) : IsTag(u) /\ \A v \in Children(u) : IsTag(v)
      BY <1>1 DEF Children
    <3> QED
      BY <3>1, SegmentStays
  <2> HIDE DEF Step, R
  <2> QED
    BY <2>1
<1>3. ASSUME NEW T \in SUBSET (1..N), T # {}, NEW x \in R
      PROVE  step[Seqs!Max(T)][x] = Step(x, s[Seqs!Max(T)])
  <2>1. Seqs!Max(T) \in 1..N
    BY <1>1, <1>3, MaxOf
  <2> HIDE DEF R, Step
  <2> QED
    BY <2>1
<1>4. iter = Fold(iter)
  <2>1. PICK g : g \in Folding(N, R, c, step)
    <3> HIDE DEF R, step, N
    <3>1. Folding(N, R, c, step) # {}
      BY <1>1, <1>2, FoldingExists
    <3> QED
      BY <3>1
  <2>2. g = Fold(g)
    <3> HIDE DEF R, Step, step
    <3> QED
      BY <1>1, <1>3, <2>1 DEF Folding
  <2> HIDE DEF Fold
  <2> QED
    BY <2>2
<1>5. FoldsBy(iter, N, R, c, step)
  <2> HIDE DEF iter, Step, R, step
  <2> QED
    BY <1>1, <1>3, <1>4 DEF FoldsBy
<1>6. Seqs!FoldLeft(SegmentOf, c, s) = iter[1..N]
  BY <1>1 DEF Seqs!FoldLeft, Seqs!MapThenFoldSet
<1>7. SegmentSteps(R, t) = step
  BY DEF SegmentSteps
<1> HIDE DEF iter, step, N, R
<1>8. Folds(step, R, c, Seqs!FoldLeft(SegmentOf, c, s), N)
  BY <1>1, <1>2, <1>5, <1>6 DEF Folds
<1> QED
  BY <1>7, <1>8 DEF N, R

LEMMA Segments ==
  ASSUME NEW c0, NEW b, NEW z \in Reached(c0, b), NEW t, IsDocument(t)
  PROVE  Seqs!FoldLeft(SegmentOf, XPC_parse_config_attr(z, t), t.children) \in Reached(c0, b)
BY ConfigAttr, SegmentFolds, FoldStays DEF IsDocument

\* What a document makes of settings, whatever fails meanwhile (XPC_apply_config).
LEMMA Applied ==
  ASSUME NEW c, AreSettings(c), NEW d, IsDocument(d), NEW b \in SUBSET Breakable
  PROVE  XPC_apply_config(c, d, b) \in Reached(c, b)
<1> DEFINE start == [c EXCEPT !.chg = FALSE, !.broken = b]
<1>1. start \in Reached(c, b)
  <2>1. c = [f \in Fields |-> c[f]] /\ \A f \in Fields : c[f] \in FieldTypes[f]
    BY DEF AreSettings
  <2>2. start = [f \in Fields |-> IF f = "chg" THEN FALSE ELSE IF f = "broken" THEN b ELSE c[f]]
    BY <2>1
  <2>3. ASSUME NEW f \in Fields PROVE start[f] \in FieldTypes[f]
    BY <2>1, <2>2, FieldType
  <2>4. start \in [Fields -> UNION {FieldTypes[f] : f \in Fields}]
    BY <2>2, <2>3
  <2>5. /\ start["broken"] = b /\ start["trig"] = c["trig"] /\ start["items"] = c["items"]
        /\ \A f \in Fields \ Unmarked : start[f] = c[f]
    BY <2>2, FieldNames DEF Unmarked
  <2> HIDE DEF start
  <2> QED
    BY <2>3, <2>4, <2>5 DEF Reached
<1> HIDE DEF start
<1>2. Seqs!FoldLeft(SegmentOf, XPC_parse_config_attr(start, d), d.children) \in Reached(c, b)
  BY <1>1, Segments
<1> QED
  BY <1>2 DEF XPC_apply_config, SegmentOf, start, Seqs!FoldLeft, Seqs!MapThenFoldSet

-----------------------------------------------------------------------------
(* The settings of the process. *)

\* What TypeOK says of the settings.
Stored == AreSettings(conf) /\ ~conf.chg /\ conf.broken = {}

\* As functions of their names.
LEMMA StoredAs ==
  ASSUME NEW c, AreSettings(c), ~c.chg, c.broken = {}
  PROVE  /\ c = [f \in Fields |-> c[f]] /\ \A f \in Fields : c[f] \in FieldTypes[f]
         /\ c["chg"] = FALSE /\ c["broken"] = {} /\ DOMAIN c = Fields
<1>1. c = [f \in Fields |-> c[f]] /\ \A f \in Fields : c[f] \in FieldTypes[f]
  BY DEF AreSettings
<1>2. c["chg"] \in BOOLEAN
  BY <1>1, FieldNames, FieldType
<1> QED
  BY <1>1, <1>2, Zenon

\* Only applying a document changes the settings; what is changed works if it was marked.
Stores ==
  \/ UNCHANGED conf
  \/ P_SaveFails
  \/ P_Apply

LEMMA ConfMoves == ASSUME [Next]_vars PROVE Stores
<1>1. ASSUME NEW p \in Instances, Lock(p) PROVE UNCHANGED conf
  BY <1>1 DEF Lock, L_Create, L_Exists, L_Kill, L_Unlink, L_Write, XPC_exit, O_Stop, loop, rest, stored
<1>2. CASE SigUsr1 \/ TimePasses \/ UNCHANGED vars
  BY <1>2 DEF SigUsr1, TimePasses, vars, stored, Stores
<1>3. ASSUME NEW ok \in BOOLEAN, P_ReadInfo(ok) PROVE UNCHANGED conf
  BY <1>3 DEF P_ReadInfo, stored
<1>4. ASSUME NEW d, P_Received(d) PROVE UNCHANGED conf
  BY <1>4 DEF P_Received, stored
<1>5. ASSUME NEW u \in BOOLEAN, P_Failed(u) PROVE UNCHANGED conf
  BY <1>5 DEF P_Failed, stored
<1>6. P_Leave \/ P_TooEarly \/ P_WaitOver \/ P_Begin \/ P_Request \/ P_GiveUp \/ retryAtExpRate
        => UNCHANGED conf
  BY DEF P_Leave, P_TooEarly, P_WaitOver, P_Begin, P_Request, P_GiveUp, retryAtExpRate, stored
<1>7. P_Parse \/ P_DoubleFree \/ P_ApplyNothing \/ P_ApplyFails \/ P_Reread \/ P_RereadFails
        => UNCHANGED conf
  BY DEF P_Parse, P_DoubleFree, P_ApplyNothing, P_ApplyFails, P_Reread, P_RereadFails, Failure, Crash, stored
<1> QED
  BY <1>1, <1>2, <1>3, <1>4, <1>5, <1>6, <1>7 DEF Next, Loop, Stores

\* The settings after a document was applied, before they are stored.
LEMMA AppliedStored ==
  ASSUME Stored, content \in Docs, NEW b \in Broken
  PROVE  XPC_apply_config(conf, content, b) \in Reached(conf, b)
BY Applied, SettingsAssumption DEF Stored

\* After P_SaveFails the two settings of usr_config may differ.
LEMMA SaveFailsStores ==
  ASSUME Stored, P_SaveFails
  PROVE  /\ Stored'
         /\ \A f \in Fields \ {"md_mode", "event_quiet_time"} : conf'[f] = conf[f]
<1>1. PICK b \in Broken :
        conf' = [conf EXCEPT !.md_mode = XPC_apply_config(conf, content, b).md_mode,
                             !.event_quiet_time = XPC_apply_config(conf, content, b).event_quiet_time]
  BY DEF P_SaveFails
<1>2. PICK c \in Reached(conf, b) :
        conf' = [conf EXCEPT !.md_mode = c.md_mode, !.event_quiet_time = c.event_quiet_time]
  BY <1>1, AppliedStored DEF P_SaveFails
<1>3. /\ conf = [f \in Fields |-> conf[f]] /\ \A f \in Fields : conf[f] \in FieldTypes[f]
      /\ conf["chg"] = FALSE /\ conf["broken"] = {}
  BY StoredAs DEF Stored
<1>4. conf' = [f \in Fields |-> IF f \in {"md_mode", "event_quiet_time"} THEN c[f] ELSE conf[f]]
  BY <1>2, <1>3, FieldNames
<1>5. \A f \in Fields : conf'[f] \in FieldTypes[f]
  BY <1>3, <1>4 DEF Reached
<1>6. conf'["chg"] = FALSE /\ conf'["broken"] = {}
  BY <1>3, <1>4, FieldNames
<1>7. conf' = [f \in Fields |-> conf'[f]]
  BY <1>4
<1> QED
  BY <1>4, <1>5, <1>6, <1>7 DEF Stored, AreSettings

\* After P_Apply what is different was marked.
LEMMA ApplyStores ==
  ASSUME Stored, P_Apply
  PROVE  /\ Stored'
         /\ reacted' \/ \A f \in Fields \ {"md_mode", "event_quiet_time"} : conf'[f] = conf[f]
         /\ (\A b \in Broken : "trig" \notin b) /\ TriggerFollowsEvents => TriggerFollowsEvents'
<1>1. PICK b \in Broken :
        /\ conf' = [XPC_apply_config(conf, content, b) EXCEPT !.chg = FALSE, !.broken = {}]
        /\ reacted' = XPC_apply_config(conf, content, b).chg
  BY DEF P_Apply
<1>2. PICK c \in Reached(conf, b) : conf' = [c EXCEPT !.chg = FALSE, !.broken = {}] /\ reacted' = c.chg
  BY <1>1, AppliedStored DEF P_Apply
<1>3. /\ conf = [f \in Fields |-> conf[f]] /\ conf["chg"] = FALSE /\ conf["broken"] = {}
  BY StoredAs DEF Stored
<1>4. conf' = [f \in Fields |-> IF f = "chg" THEN FALSE ELSE IF f = "broken" THEN {} ELSE c[f]]
  BY <1>2, FieldNames DEF Reached
<1>5. \A f \in Fields : conf'[f] \in FieldTypes[f]
  BY <1>4, FieldType DEF Reached
<1>6. conf'["chg"] = FALSE /\ conf'["broken"] = {}
  BY <1>4, FieldNames
<1>7. conf' = [f \in Fields |-> conf'[f]]
  BY <1>4
<1>8. Stored'
  BY <1>5, <1>6, <1>7 DEF Stored, AreSettings
<1>9. ASSUME ~reacted', NEW f \in Fields \ {"md_mode", "event_quiet_time"} PROVE conf'[f] = conf[f]
  BY <1>2, <1>3, <1>4, <1>9 DEF Reached, Unmarked
<1>10. ASSUME \A e \in Broken : "trig" \notin e, TriggerFollowsEvents PROVE TriggerFollowsEvents'
  <2>1. conf'["trig"] = c["trig"] /\ conf'["items"] = c["items"]
    BY <1>4, FieldNames
  <2>2. ComcastPartner => c["trig"] = AnyEnabled(c["items"])
    BY <1>10 DEF Reached, TriggerFollowsEvents
  <2> QED
    BY <2>1, <2>2 DEF TriggerFollowsEvents
<1> QED
  BY <1>8, <1>9, <1>10

LEMMA StoredStep ==
  ASSUME Stored, [Next]_vars
  PROVE  Stored'
BY ConfMoves, SaveFailsStores, ApplyStores DEF Stores, Stored

LEMMA StoredInit == Init => Stored
BY SettingsAssumption DEF Init, Stored

LEMMA AlwaysStored == Spec => []Stored
BY StoredInit, StoredStep, PTL DEF Spec

\* Whatever document is applied and whatever fails meanwhile, a setting that is different afterwards
\* was marked changed, and is made to work (XPC_apply_config).
THEOREM ChangesAreMadeToWork == Spec => ChangesReact
<1>1. ASSUME Stored, [Next]_vars
      PROVE  [\A f \in DOMAIN conf \ {"md_mode", "event_quiet_time"} :
                conf'[f] # conf[f] => reacted']_vars
  <2>1. DOMAIN conf = Fields
    BY <1>1, StoredAs DEF Stored
  <2>2. \/ UNCHANGED conf \/ reacted'
        \/ \A f \in Fields \ {"md_mode", "event_quiet_time"} : conf'[f] = conf[f]
    BY <1>1, ConfMoves, SaveFailsStores, ApplyStores DEF Stores
  <2> QED
    BY <2>1, <2>2
<1> QED
  BY <1>1, AlwaysStored, PTL DEF Spec, ChangesReact

\* The overall switch is on exactly while an event is enabled, however many documents are applied and
\* whatever else fails, if it was so before and switching does not fail (XPC_save_event_entry).
THEOREM SwitchFollowsEvents ==
  ASSUME ComcastPartner => Initial.trig = AnyEnabled(Initial.items),
         \A b \in Broken : "trig" \notin b
  PROVE  Spec => []TriggerFollowsEvents
<1>1. Init => TriggerFollowsEvents
  BY DEF Init, TriggerFollowsEvents
<1>2. ASSUME Stored, TriggerFollowsEvents, [Next]_vars PROVE TriggerFollowsEvents'
  <2>1. CASE UNCHANGED conf
    BY <1>2, <2>1 DEF TriggerFollowsEvents
  <2>2. CASE P_SaveFails
    <3>1. conf'["trig"] = conf["trig"] /\ conf'["items"] = conf["items"]
      BY <1>2, <2>2, SaveFailsStores, FieldNames
    <3> QED
      BY <1>2, <3>1 DEF TriggerFollowsEvents
  <2>3. CASE P_Apply
    BY <1>2, <2>3, ApplyStores
  <2> QED
    BY <1>2, <2>1, <2>2, <2>3, ConfMoves DEF Stores
<1> QED
  BY <1>1, <1>2, AlwaysStored, PTL DEF Spec

-----------------------------------------------------------------------------
(* The recovery URL. *)

\* The errors counted are the recent ones, until the limit is reached.
Counted ==
  /\ error_count \in Nat /\ recent \in Nat
  /\ recent = IF error_count < XPC_MAX_ERROR_COUNT THEN error_count ELSE XPC_MAX_ERROR_COUNT

LEMMA CountedStep ==
  ASSUME Counted, [Next]_vars
  PROVE  Counted'
<1> USE RetryAssumption
<1>1. CASE P_Request
  BY <1>1 DEF P_Request, UseRecovery, Counted
<1>2. CASE \E unreachable \in BOOLEAN : P_Failed(unreachable)
  <2>1. PICK unreachable \in BOOLEAN : P_Failed(unreachable)
    BY <1>2
  <2>2. CASE unreachable = TRUE
    BY <2>1, <2>2 DEF P_Failed, Recall, Counted
  <2>3. CASE unreachable = FALSE
    BY <2>1, <2>3 DEF P_Failed, Recall, Counted
  <2> QED
    BY <2>2, <2>3
<1>3. CASE \E d \in Docs \cup {NotOk} : P_Received(d)
  BY <1>3 DEF P_Received, Recall, Counted
<1>4. CASE UNCHANGED errors
  BY <1>4 DEF errors, Counted
<1>5. ASSUME NEW p \in Instances, Lock(p) PROVE UNCHANGED errors
  BY <1>5 DEF Lock, L_Create, L_Exists, L_Kill, L_Unlink, L_Write, XPC_exit, O_Stop, loop, rest
<1>6. SigUsr1 \/ TimePasses \/ UNCHANGED vars => UNCHANGED errors
  BY DEF SigUsr1, TimePasses, vars
<1>7. ASSUME NEW ok \in BOOLEAN, P_ReadInfo(ok) PROVE UNCHANGED errors
  BY <1>7 DEF P_ReadInfo
<1>8. P_Leave \/ P_TooEarly \/ P_WaitOver \/ P_Begin \/ P_GiveUp \/ retryAtExpRate => UNCHANGED errors
  BY DEF P_Leave, P_TooEarly, P_WaitOver, P_Begin, P_GiveUp, retryAtExpRate
<1>9. P_Parse \/ P_DoubleFree \/ P_ApplyNothing \/ P_ApplyFails => UNCHANGED errors
  BY DEF P_Parse, P_DoubleFree, P_ApplyNothing, P_ApplyFails, Failure, Crash
<1>10. P_SaveFails \/ P_Apply \/ P_Reread \/ P_RereadFails => UNCHANGED errors
  BY DEF P_SaveFails, P_Apply, P_Reread, P_RereadFails, Failure
<1> QED
  BY <1>1, <1>2, <1>3, <1>4, <1>5, <1>6, <1>7, <1>8, <1>9, <1>10 DEF Next, Loop

\* The recovery URL is used exactly when the last XPC_MAX_ERROR_COUNT requests could not connect,
\* whatever the limit and whatever rounds they belong to (XPC_do_polling).
THEOREM RecoveryIsJustified == Spec => []RecoveryWhenUnreachable
<1>1. Init => Counted
  BY RetryAssumption DEF Init, Counted
<1>2. Counted /\ [Next]_vars => Counted'
  BY CountedStep
<1>3. Counted => RecoveryWhenUnreachable
  BY RetryAssumption DEF Counted, RecoveryWhenUnreachable, UseRecovery
<1> QED
  BY <1>1, <1>2, <1>3, PTL DEF Spec

-----------------------------------------------------------------------------
(* Pauses, and what is applied. *)

Applying == {"parse", "apply", "crashed"}

\* A pause is never longer than the longest one.
Pauses ==
  /\ waitingInterval \in Nat /\ minInterval \in Nat /\ maxInterval \in Nat /\ defaultInterval \in Nat
  /\ minInterval <= LongestPause /\ waitingInterval <= LongestPause

Excused == fresh \/ term_flag[Main] \/ info.interval <= LongestPause

AppliesInv == Pauses /\ (pc \in Applying => Excused)

\* What leaves the loop of Main alone leaves this alone.
LEMMA Idle ==
  ASSUME AppliesInv, UNCHANGED <<backoff, info, fresh>>, pc' \in Applying => pc \in Applying,
         term_flag[Main] => term_flag'[Main]
  PROVE  AppliesInv'
BY DEF AppliesInv, Pauses, LongestPause, Excused, backoff

\* SIGTERM is not taken back.
LEMMA TermStays ==
  ASSUME term_flag \in [Instances -> BOOLEAN], [Next]_vars
  PROVE  /\ term_flag' \in [Instances -> BOOLEAN]
         /\ \A p \in Instances : term_flag[p] => term_flag'[p]
<1>1. ASSUME UNCHANGED term_flag PROVE \A p \in Instances : term_flag[p] => term_flag'[p]
  BY <1>1
<1>2. ASSUME NEW p \in Instances, Lock(p)
      PROVE  /\ term_flag' \in [Instances -> BOOLEAN]
             /\ \A q \in Instances : term_flag[q] => term_flag'[q]
  <2>1. CASE L_Kill(p)
    <3>1. term_flag' = [q \in Instances |-> term_flag[q] \/ Signalled(p, q)]
      BY <2>1 DEF L_Kill
    <3>2. ASSUME NEW q \in Instances PROVE term_flag[q] => term_flag'[q]
      BY <3>1, Zenon
    <3>3. ASSUME NEW q \in Instances PROVE (term_flag[q] \/ Signalled(p, q)) \in BOOLEAN
      OBVIOUS
    <3>4. term_flag' \in [Instances -> BOOLEAN]
      BY <3>1, <3>3, Zenon
    <3> QED
      BY <3>2, <3>4
  <2>2. CASE ~L_Kill(p)
    BY <1>2, <2>2 DEF Lock, L_Create, L_Exists, L_Unlink, L_Write, XPC_exit, O_Stop
  <2> QED
    BY <2>1, <2>2
<1>3. ASSUME \E p \in Instances : Lock(p)
      PROVE  /\ term_flag' \in [Instances -> BOOLEAN]
             /\ \A q \in Instances : term_flag[q] => term_flag'[q]
  BY <1>2, <1>3
<1>4. Loop => UNCHANGED term_flag
  <2>1. ASSUME NEW ok \in BOOLEAN, P_ReadInfo(ok) PROVE UNCHANGED term_flag
    BY <2>1 DEF P_ReadInfo
  <2>2. ASSUME NEW d, P_Received(d) PROVE UNCHANGED term_flag
    BY <2>2 DEF P_Received
  <2>3. ASSUME NEW u \in BOOLEAN, P_Failed(u) PROVE UNCHANGED term_flag
    BY <2>3 DEF P_Failed
  <2>4. P_Leave \/ P_TooEarly \/ P_WaitOver \/ P_Begin \/ P_Request \/ P_GiveUp \/ retryAtExpRate
          => UNCHANGED term_flag
    BY DEF P_Leave, P_TooEarly, P_WaitOver, P_Begin, P_Request, P_GiveUp, retryAtExpRate
  <2>5. P_Parse \/ P_DoubleFree \/ P_ApplyNothing \/ P_ApplyFails => UNCHANGED term_flag
    BY DEF P_Parse, P_DoubleFree, P_ApplyNothing, P_ApplyFails, Failure, Crash
  <2>6. P_SaveFails \/ P_Apply \/ P_Reread \/ P_RereadFails => UNCHANGED term_flag
    BY DEF P_SaveFails, P_Apply, P_Reread, P_RereadFails, Failure
  <2> QED
    BY <2>1, <2>2, <2>3, <2>4, <2>5, <2>6 DEF Loop
<1>5. SigUsr1 \/ TimePasses \/ UNCHANGED vars => UNCHANGED term_flag
  BY DEF SigUsr1, TimePasses, vars
<1> QED
  BY <1>1, <1>3, <1>4, <1>5 DEF Next

LEMMA AppliesStep ==
  ASSUME AppliesInv, info.interval \in Int, term_flag \in [Instances -> BOOLEAN], [Next]_vars
  PROVE  AppliesInv'
<1>0. term_flag[Main] => term_flag'[Main]
  BY TermStays, MainAssumption
<1>1. ASSUME NEW p \in Instances, Lock(p) PROVE AppliesInv'
  <2>1. UNCHANGED <<backoff, info, data>> /\ (UNCHANGED pc \/ Woken)
    BY <1>1 DEF Lock, L_Create, L_Exists, L_Kill, L_Unlink, L_Write, XPC_exit, O_Stop, loop, rest
  <2>2. pc' \in Applying => pc \in Applying
    BY <2>1 DEF Woken, Applying
  <2> QED
    BY <1>0, <2>1, <2>2, Idle DEF data
<1>2. CASE SigUsr1 \/ TimePasses \/ UNCHANGED vars
  <2>1. UNCHANGED <<backoff, info, data>> /\ (UNCHANGED pc \/ Woken)
    BY <1>2 DEF SigUsr1, TimePasses, vars
  <2>2. pc' \in Applying => pc \in Applying
    BY <2>1 DEF Woken, Applying
  <2> QED
    BY <1>0, <2>1, <2>2, Idle DEF data
<1>3. ASSUME NEW ok \in BOOLEAN, P_ReadInfo(ok) PROVE AppliesInv'
  BY <1>3 DEF P_ReadInfo, At, AppliesInv, Pauses, LongestPause, backoff, Applying
<1>4. CASE P_Leave \/ P_TooEarly \/ P_WaitOver \/ P_Begin \/ P_Request
  <2>1. UNCHANGED backoff /\ pc' \notin Applying
    BY <1>4 DEF P_Leave, P_TooEarly, P_WaitOver, P_Begin, P_Request, At, Applying
  <2> QED
    BY <2>1 DEF AppliesInv, Pauses, LongestPause, backoff
<1>5. CASE P_GiveUp
  <2>1. UNCHANGED <<backoff, info, fresh, term_flag>> /\ ~MayTry
    BY <1>5 DEF P_GiveUp, data
  <2>2. term_flag[Main] \/ info.interval <= waitingInterval
    BY <2>1 DEF MayTry, AppliesInv, Pauses
  <2>3. Excused
    BY <2>2 DEF Excused, AppliesInv, Pauses, LongestPause
  <2> QED
    BY <2>1, <2>3 DEF AppliesInv, Excused, Pauses, LongestPause, backoff
<1>6. ASSUME NEW d, P_Received(d) PROVE AppliesInv'
  BY <1>6 DEF P_Received, AppliesInv, Excused, Pauses, LongestPause
<1>7. ASSUME NEW u \in BOOLEAN, P_Failed(u) PROVE AppliesInv'
  <2>1. UNCHANGED backoff /\ pc' \notin Applying
    BY <1>7 DEF P_Failed, At, Applying
  <2> QED
    BY <2>1 DEF AppliesInv, Pauses, LongestPause, backoff
<1>8. CASE retryAtExpRate
  <2>1. /\ UNCHANGED <<minInterval, maxInterval, defaultInterval>> /\ pc' \notin Applying
        /\ waitingInterval' = IF waitingInterval * 2 > maxInterval THEN defaultInterval ELSE waitingInterval * 2
    BY <1>8 DEF retryAtExpRate, At, Applying, DEFAULT_RETRY_FACTOR
  <2> QED
    BY <2>1 DEF AppliesInv, Pauses, LongestPause
<1>9. CASE P_Parse \/ P_DoubleFree \/ P_ApplyNothing
  <2>1. UNCHANGED <<backoff, info, fresh>> /\ pc \in Applying
    BY <1>9 DEF P_Parse, P_DoubleFree, P_ApplyNothing, Failure, Crash, freeResource, data, Applying
  <2> QED
    BY <1>0, <2>1, Idle
<1>10. CASE P_ApplyFails \/ P_SaveFails \/ P_Apply \/ P_RereadFails
  <2>1. UNCHANGED backoff /\ pc' \notin Applying
    BY <1>10 DEF P_ApplyFails, P_SaveFails, P_Apply, P_RereadFails, Failure, AfterWait, At, Applying
  <2> QED
    BY <2>1 DEF AppliesInv, Pauses, LongestPause, backoff
<1>11. CASE P_Reread
  <2>1. UNCHANGED backoff /\ pc' \notin Applying
    BY <1>11 DEF P_Reread, At, Applying
  <2> QED
    BY <2>1 DEF AppliesInv, Pauses, LongestPause, backoff
<1> QED
  BY <1>1, <1>2, <1>3, <1>4, <1>5, <1>6, <1>7, <1>8, <1>9, <1>10, <1>11 DEF Next, Loop

\* The first pause and the limits of the others.
LEMMA AppliesInit == Init => AppliesInv /\ term_flag \in [Instances -> BOOLEAN]
<1> SUFFICES ASSUME Init PROVE AppliesInv /\ term_flag \in [Instances -> BOOLEAN]
  OBVIOUS
<1>1. PICK r \in RetryAttributes : getCloudRecorderRetryAttribute(r)
  BY DEF Init
<1>2. r.min \in Nat /\ r.max \in Nat
  BY RetryAssumption
<1>3. Pauses
  BY <1>1, <1>2 DEF getCloudRecorderRetryAttribute, OrDefault, DEFAULT_MIN_INTERVAL, DEFAULT_MAX_INTERVAL,
                    Pauses, LongestPause
<1> QED
  BY <1>3 DEF Init, AppliesInv, Applying

\* The interval is 0 or the one of the settings.
LEMMA InformedStep ==
  ASSUME Stored, info.interval \in Nat, [Next]_vars
  PROVE  info'.interval \in Nat
<1>1. CloudRecorderInfo(conf).interval \in Nat
  <2>1. conf["polling_interval"] \in Nat
    BY FieldNames, FieldType, StoredAs DEF Stored
  <2> QED
    BY <2>1 DEF CloudRecorderInfo
<1>2. ASSUME NEW p \in Instances, Lock(p) PROVE UNCHANGED info
  BY <1>2 DEF Lock, L_Create, L_Exists, L_Kill, L_Unlink, L_Write, XPC_exit, O_Stop, loop, rest
<1>3. SigUsr1 \/ TimePasses \/ UNCHANGED vars => UNCHANGED info
  BY DEF SigUsr1, TimePasses, vars
<1>4. ASSUME NEW ok \in BOOLEAN, P_ReadInfo(ok) PROVE info'.interval \in Nat
  BY <1>1, <1>4 DEF P_ReadInfo, NoInfo
<1>5. ASSUME NEW d, P_Received(d) PROVE UNCHANGED info
  BY <1>5 DEF P_Received
<1>6. ASSUME NEW u \in BOOLEAN, P_Failed(u) PROVE UNCHANGED info
  BY <1>6 DEF P_Failed
<1>7. P_Leave \/ P_TooEarly \/ P_WaitOver \/ P_Begin \/ P_Request \/ P_GiveUp \/ retryAtExpRate
        => UNCHANGED info
  BY DEF P_Leave, P_TooEarly, P_WaitOver, P_Begin, P_Request, P_GiveUp, retryAtExpRate
<1>8. P_Parse \/ P_DoubleFree \/ P_ApplyNothing \/ P_ApplyFails => UNCHANGED info
  BY DEF P_Parse, P_DoubleFree, P_ApplyNothing, P_ApplyFails, Failure, Crash
<1>9. P_SaveFails \/ P_Apply \/ P_RereadFails => UNCHANGED info
  BY DEF P_SaveFails, P_Apply, P_RereadFails, Failure
<1>10. CASE P_Reread
  BY <1>1, <1>10 DEF P_Reread
<1> QED
  BY <1>2, <1>3, <1>4, <1>5, <1>6, <1>7, <1>8, <1>9, <1>10 DEF Next, Loop

\* What is applied was received in the same round, whatever the retry intervals of the environment
\* and the intervals in the documents (XPC_do_polling).
THEOREM OnlyReceivedIsApplied == Spec => []AppliesReceived
<1> DEFINE Inv == /\ AppliesInv /\ term_flag \in [Instances -> BOOLEAN]
                  /\ info.interval \in Nat
<1>1. Init => Inv
  <2>1. NoInfo.interval \in Nat
    BY DEF NoInfo
  <2>2. Init => info = NoInfo
    BY DEF Init
  <2> QED
    BY <2>1, <2>2, AppliesInit
<1>2. Inv /\ Stored /\ [Next]_vars => Inv'
  BY AppliesStep, TermStays, InformedStep
<1>3. Inv => AppliesReceived
  BY DEF AppliesInv, AppliesReceived, Excused, Applying
<1> QED
  BY <1>1, <1>2, <1>3, AlwaysStored, PTL DEF Spec

-----------------------------------------------------------------------------
(* The lock. *)

Places == {"off", "create", "read", "unlink", "write", "running", "exit", "gone"}

\* p has made a lock file, which may be gone.
Made(p) == lpc[p] \in {"write", "running", "exit", "gone"}

HasLock(p) == lock # None /\ lock.by = p

\* Main has no configuration, and so never any document.
Lost(p) == p = Main /\ pc # "init" /\ info = NoInfo /\ receiveData = "null"

\* p goes, or has gone, or polls nothing.
Told(p) == term_flag[p] \/ lpc[p] \in {"exit", "gone"} \/ Lost(p)

LockType ==
  /\ lpc \in [Instances -> Places] /\ term_flag \in [Instances -> BOOLEAN]
  /\ lock # None => /\ lock \in [by : Instances, pid : Instances \cup {None}]
                    /\ Made(lock.by)
                    /\ lock.pid = IF lpc[lock.by] = "write" THEN None ELSE lock.by

\* A document is asked for, and then held, only by settings that were read.
Documents ==
  /\ waitingInterval \in Nat /\ minInterval \in Nat /\ defaultInterval \in Nat
  /\ pc = "init" => receiveData = "null"
  /\ pc = "get" => info # NoInfo
  /\ pc = "reread" => receiveData # "null"

\* What q's way to the lock says of p.
Pair(p, q) ==
  /\ lpc[q] \in {"read", "unlink", "create"} => Made(p)
  /\ lpc[q] = "read" => HasLock(p) \/ Told(p)
  /\ lpc[q] \in {"unlink", "create"} => Told(p)
  /\ Made(p) => HasLock(p) \/ Told(p) \/ Told(q)
  /\ Made(p) /\ Made(q) => Told(p) \/ Told(q)

Pairs == \A p, q \in Instances : p # q /\ OnlyTwo(p, q) => Pair(p, q)

LockInv == LockType /\ Documents /\ Pairs

\* Where an instance is, and what it was told, only grows.
LEMMA PairKept ==
  ASSUME NEW p \in Instances, NEW q \in Instances, Pair(p, q), UNCHANGED <<lpc, lock>>,
         Told(p) => Told(p)', Told(q) => Told(q)'
  PROVE  Pair(p, q)'
BY DEF Pair, Made, HasLock

LEMMA DocumentsStep ==
  ASSUME Documents, [Next]_vars
  PROVE  Documents'
<1>1. ASSUME UNCHANGED <<backoff, info, receiveData>>, pc' = pc \/ pc' \notin {"init", "get", "reread"}
      PROVE  Documents'
  BY <1>1 DEF Documents, backoff
<1>2. ASSUME NEW p \in Instances, Lock(p) PROVE Documents'
  BY <1>1, <1>2 DEF Lock, L_Create, L_Exists, L_Kill, L_Unlink, L_Write, XPC_exit, O_Stop, loop, rest, data, Woken
<1>3. CASE SigUsr1 \/ TimePasses \/ UNCHANGED vars
  BY <1>1, <1>3 DEF SigUsr1, TimePasses, vars, data, Woken
<1>4. ASSUME NEW ok \in BOOLEAN, P_ReadInfo(ok) PROVE Documents'
  BY <1>4 DEF P_ReadInfo, At, data, backoff, Documents
<1>5. CASE P_Leave \/ P_TooEarly \/ P_WaitOver \/ P_Begin \/ P_GiveUp
  BY <1>1, <1>5 DEF P_Leave, P_TooEarly, P_WaitOver, P_Begin, P_GiveUp, At, data
<1>6. CASE P_Request
  <2>1. UNCHANGED <<backoff, info>> /\ pc' = "get" /\ waitingInterval < info.interval
    BY <1>6 DEF P_Request, At, MayTry
  <2>2. ASSUME info = NoInfo PROVE FALSE
    <3>1. info.interval = 0
      BY <2>2 DEF NoInfo
    <3> QED
      BY <2>1, <3>1 DEF Documents
  <2> QED
    BY <2>1, <2>2 DEF Documents, backoff
<1>7. ASSUME NEW d, P_Received(d) PROVE Documents'
  BY <1>7 DEF P_Received, At, Documents
<1>8. ASSUME NEW u \in BOOLEAN, P_Failed(u) PROVE Documents'
  BY <1>1, <1>8 DEF P_Failed, At, data
<1>9. CASE retryAtExpRate
  BY <1>9 DEF retryAtExpRate, At, data, Documents, DEFAULT_RETRY_FACTOR
<1>10. CASE P_Parse \/ P_ApplyFails \/ P_SaveFails
  <2>1. pc' \notin {"init", "get", "reread"} /\ UNCHANGED backoff
    BY <1>10 DEF P_Parse, P_ApplyFails, P_SaveFails, Failure, AfterWait
  <2> QED
    BY <2>1 DEF Documents, backoff
<1>11. CASE P_DoubleFree \/ P_ApplyNothing \/ P_RereadFails
  BY <1>1, <1>11 DEF P_DoubleFree, P_ApplyNothing, P_RereadFails, Crash, At, data
<1>12. CASE P_Apply
  BY <1>12 DEF P_Apply, At, freeResource, backoff, Documents
<1>13. CASE P_Reread
  BY <1>13 DEF P_Reread, At, backoff, Documents
<1> QED
  BY <1>2, <1>3, <1>4, <1>5, <1>6, <1>7, <1>8, <1>9, <1>10, <1>11, <1>12, <1>13 DEF Next, Loop

\* Whoever polls nothing goes on like that.
LEMMA LostStays ==
  ASSUME Documents, [Next]_vars, NEW p \in Instances, Lost(p)
  PROVE  Lost(p)'
<1>1. ASSUME UNCHANGED <<info, receiveData>>, pc' = pc \/ pc' # "init" PROVE Lost(p)'
  BY <1>1 DEF Lost
<1>2. ASSUME NEW q \in Instances, Lock(q) PROVE Lost(p)'
  BY <1>1, <1>2 DEF Lock, L_Create, L_Exists, L_Kill, L_Unlink, L_Write, XPC_exit, O_Stop, loop, rest, data, Woken
<1>3. CASE SigUsr1 \/ TimePasses \/ UNCHANGED vars
  BY <1>1, <1>3 DEF SigUsr1, TimePasses, vars, data, Woken
<1>4. ASSUME NEW ok \in BOOLEAN, P_ReadInfo(ok) PROVE FALSE
  BY <1>4 DEF P_ReadInfo, At, Lost
<1>5. CASE P_Leave \/ P_TooEarly \/ P_WaitOver \/ P_Begin \/ P_Request \/ P_GiveUp \/ retryAtExpRate
  BY <1>1, <1>5 DEF P_Leave, P_TooEarly, P_WaitOver, P_Begin, P_Request, P_GiveUp, retryAtExpRate, At, data
<1>6. ASSUME NEW d, P_Received(d) PROVE FALSE
  BY <1>6 DEF P_Received, At, Documents, Lost
<1>7. ASSUME NEW u \in BOOLEAN, P_Failed(u) PROVE Lost(p)'
  BY <1>1, <1>7 DEF P_Failed, At, data
<1>8. CASE P_Parse
  BY <1>1, <1>8 DEF P_Parse, data, Lost
<1>9. CASE P_DoubleFree \/ P_ApplyNothing \/ P_RereadFails
  BY <1>1, <1>9 DEF P_DoubleFree, P_ApplyNothing, P_RereadFails, Crash, At, data
<1>10. ~(P_ApplyFails \/ P_SaveFails \/ P_Apply \/ P_Reread)
  BY DEF P_ApplyFails, P_SaveFails, P_Apply, P_Reread, At, Documents, Lost
<1> QED
  BY <1>2, <1>3, <1>4, <1>5, <1>6, <1>7, <1>8, <1>9, <1>10 DEF Next, Loop

\* A step of an instance on its way.
Moves(p, to) == p \in Instances /\ lpc' = [lpc EXCEPT ![p] = to]

\* The steps of instance p and what they do to the lock.
LEMMA LockMoves ==
  ASSUME LockType, NEW p \in Instances, Lock(p)
  PROVE  \/ lock = None /\ lpc[p] \in {"off", "create"} /\ Moves(p, "write") /\ lock' = [by |-> p, pid |-> None]
         \/ lock # None /\ lpc[p] \in {"off", "create"} /\ Moves(p, "read") /\ UNCHANGED lock
         \/ lpc[p] = "read" /\ L_Kill(p) /\ Moves(p, "unlink") /\ UNCHANGED lock
         \/ lpc[p] = "unlink" /\ (Moves(p, "create") \/ Moves(p, "exit")) /\ lock' = None
         \/ lpc[p] = "write" /\ Moves(p, "running") /\ L_Write(p)
         \/ lpc[p] = "exit" /\ Moves(p, "gone") /\ lock' = None
         \/ lpc[p] = "running" /\ Moves(p, "exit") /\ UNCHANGED lock
<1>1. CASE L_Create(p)
  BY <1>1 DEF L_Create, LockAt, Moves
<1>2. CASE L_Exists(p)
  BY <1>2 DEF L_Exists, LockAt, Moves
<1>3. CASE L_Kill(p)
  BY <1>3 DEF L_Kill, LockAt, Moves
<1>4. CASE L_Unlink(p)
  BY <1>4 DEF L_Unlink, LockAt, Moves
<1>5. CASE L_Write(p)
  BY <1>5 DEF L_Write, LockAt, Moves
<1>6. CASE XPC_exit(p)
  BY <1>6 DEF XPC_exit, LockAt, Moves
<1>7. CASE O_Stop(p)
  BY <1>7 DEF O_Stop, LockAt, Moves
<1> QED
  BY <1>1, <1>2, <1>3, <1>4, <1>5, <1>6, <1>7 DEF Lock

\* The steps of the others: Main may leave, or lose its settings and the lock with them.
LEMMA OtherMoves ==
  ASSUME LockType, Documents, [Next]_vars, ~\E p \in Instances : Lock(p)
  PROVE  \/ UNCHANGED <<lpc, lock>>
         \/ lpc[Main] = "running" /\ (Moves(Main, "exit") \/ Moves(Main, "gone")) /\ UNCHANGED lock
         \/ lpc[Main] = "running" /\ UNCHANGED lpc /\ lock' = None /\ Lost(Main)'
<1> USE MainAssumption
<1>1. CASE SigUsr1 \/ TimePasses \/ UNCHANGED vars
  BY <1>1 DEF SigUsr1, TimePasses, vars, locking
<1>2. ASSUME NEW ok \in BOOLEAN, P_ReadInfo(ok)
      PROVE  \/ UNCHANGED <<lpc, lock>>
             \/ lpc[Main] = "running" /\ UNCHANGED lpc /\ lock' = None /\ Lost(Main)'
  <2>1. CASE ok = TRUE
    BY <1>2, <2>1 DEF P_ReadInfo
  <2>2. CASE ok = FALSE
    BY <1>2, <2>2 DEF P_ReadInfo, At, Documents, Lost, data
  <2> QED
    BY <2>1, <2>2
<1>3. CASE P_TooEarly \/ P_WaitOver \/ P_Begin \/ P_Request \/ P_GiveUp \/ retryAtExpRate
  BY <1>3 DEF P_TooEarly, P_WaitOver, P_Begin, P_Request, P_GiveUp, retryAtExpRate, locking
<1>4. ASSUME NEW d, P_Received(d) PROVE UNCHANGED <<lpc, lock>>
  BY <1>4 DEF P_Received, locking
<1>5. ASSUME NEW u \in BOOLEAN, P_Failed(u) PROVE UNCHANGED <<lpc, lock>>
  BY <1>5 DEF P_Failed, locking
<1>6. CASE P_Parse \/ P_ApplyFails \/ P_SaveFails \/ P_Apply \/ P_Reread
  BY <1>6 DEF P_Parse, P_ApplyFails, P_SaveFails, P_Apply, P_Reread, Failure, locking
<1>7. CASE P_Leave \/ P_RereadFails
  BY <1>7 DEF P_Leave, P_RereadFails, At, Moves
<1>8. CASE P_DoubleFree \/ P_ApplyNothing
  BY <1>8 DEF P_DoubleFree, P_ApplyNothing, Crash, Moves
<1> QED
  BY <1>1, <1>2, <1>3, <1>4, <1>5, <1>6, <1>7, <1>8 DEF Next, Loop

\* Nobody comes back to where it was before it started, nor out of the exit.
LEMMA Onward ==
  ASSUME LockType, Documents, [Next]_vars, NEW p \in Instances
  PROVE  /\ lpc' \in [Instances -> Places]
         /\ lpc[p] # "off" => lpc'[p] # "off"
         /\ Made(p) => Made(p)'
         /\ lpc[p] \in {"exit", "gone"} => lpc'[p] \in {"exit", "gone"}
<1>1. ASSUME NEW q \in Instances, Lock(q)
      PROVE  \E to \in Places \ {"off"} : /\ Moves(q, to) /\ (Made(q) => to \in {"running", "exit", "gone"})
                                          /\ (lpc[q] \in {"exit", "gone"} => to = "gone")
  BY <1>1, LockMoves DEF Places, Made
<1>2. CASE \E q \in Instances : Lock(q)
  BY <1>1, <1>2 DEF LockType, Moves, Made, Places
<1>3. CASE ~\E q \in Instances : Lock(q)
  BY <1>3, OtherMoves DEF LockType, Moves, Made, Places
<1> QED
  BY <1>2, <1>3

LEMMA ToldStays ==
  ASSUME LockType, Documents, [Next]_vars, NEW p \in Instances, Told(p)
  PROVE  Told(p)'
<1>1. CASE term_flag[p]
  <2>1. term_flag'[p]
    BY <1>1, TermStays DEF LockType
  <2> QED
    BY <2>1 DEF Told
<1>2. CASE lpc[p] \in {"exit", "gone"}
  BY <1>2, Onward DEF Told
<1>3. CASE Lost(p)
  BY <1>3, LostStays DEF Told
<1> QED
  BY <1>1, <1>2, <1>3 DEF Told

LEMMA LockTypeStep ==
  ASSUME LockType, Documents, [Next]_vars
  PROVE  LockType'
<1> USE MainAssumption, NoneAssumption
<1>1. lpc' \in [Instances -> Places] /\ term_flag' \in [Instances -> BOOLEAN]
  BY Onward, TermStays DEF LockType
<1>2. ASSUME UNCHANGED lock, NEW p \in Instances, NEW to \in Places, Moves(p, to),
             lpc[p] # "write", to # "write"
      PROVE  LockType'
  <2>1. lock # None => Made(lock.by)'
    BY <1>2, Onward DEF LockType
  <2> QED
    BY <1>1, <1>2, <2>1 DEF LockType, Moves
<1>3. ASSUME lock' = None PROVE LockType'
  BY <1>1, <1>3 DEF LockType
<1>4. ASSUME NEW p \in Instances, Lock(p) PROVE LockType'
  <2>1. CASE lock = None /\ lpc[p] \in {"off", "create"} /\ Moves(p, "write") /\ lock' = [by |-> p, pid |-> None]
    BY <1>1, <2>1 DEF LockType, Moves, Made
  <2>2. CASE lpc[p] = "write" /\ Moves(p, "running") /\ L_Write(p)
    BY <1>1, <2>2 DEF LockType, Moves, Made, L_Write
  <2>3. CASE UNCHANGED lock /\ \/ lpc[p] \in {"off", "create"} /\ Moves(p, "read")
                               \/ lpc[p] = "read" /\ Moves(p, "unlink")
                               \/ lpc[p] = "running" /\ Moves(p, "exit")
    BY <1>2, <2>3 DEF Places
  <2> QED
    BY <1>3, <1>4, <2>1, <2>2, <2>3, LockMoves
<1>5. CASE ~\E p \in Instances : Lock(p)
  <2>1. CASE UNCHANGED <<lpc, lock>>
    BY <1>1, <2>1 DEF LockType, Made
  <2>2. CASE lpc[Main] = "running" /\ (Moves(Main, "exit") \/ Moves(Main, "gone")) /\ UNCHANGED lock
    BY <1>2, <2>2 DEF Places
  <2> QED
    BY <1>3, <1>5, <2>1, <2>2, OtherMoves
<1> QED
  BY <1>4, <1>5

LEMMA PairStep ==
  ASSUME LockInv, [Next]_vars, NEW p \in Instances, NEW q \in Instances, p # q, OnlyTwo(p, q)'
  PROVE  Pair(p, q)'
<1> USE DEF LockInv
<1>1. OnlyTwo(p, q) /\ OnlyTwo(q, p)
  BY Onward DEF OnlyTwo
<1>2. Pair(p, q) /\ Pair(q, p)
  BY <1>1 DEF Pairs
<1>3. (Told(p) => Told(p)') /\ (Told(q) => Told(q)')
  BY ToldStays
<1>4. lpc \in [Instances -> Places] /\ (Made(p) => Made(p)') /\ (lock # None => Made(lock.by) /\ lock.by \in Instances)
  BY Onward DEF LockType
<1>5. CASE Lock(p)
  <2>1. lpc'[q] = lpc[q] /\ lpc[p] # "gone"
    BY <1>4, <1>5, LockMoves DEF Moves, LockType
  <2>2. lpc[p] \in {"off", "create", "read", "unlink"} => lpc[q] \notin {"read", "unlink", "create"}
    BY <1>2 DEF Pair, Made
  <2>3. lpc[p] \in {"off", "create", "read", "unlink"} => Pair(p, q)'
    <3>1. CASE lock = None /\ lpc[p] \in {"off", "create"} /\ Moves(p, "write") /\ lock' = [by |-> p, pid |-> None]
      <4>1. HasLock(p)'
        <5>1. [by |-> p, pid |-> None] \in [by : Instances, pid : Instances \cup {None}]
          OBVIOUS
        <5>2. [by |-> p, pid |-> None] # None
          BY <5>1, NoneAssumption
        <5> QED
          BY <3>1, <5>2 DEF HasLock
      <4>2. Made(q) => Told(p)' \/ Told(q)'
        BY <1>2, <1>3, <3>1 DEF Pair, HasLock
      <4> QED
        BY <2>1, <2>2, <3>1, <4>1, <4>2 DEF Pair, Made
    <3>2. CASE Moves(p, "read") \/ Moves(p, "unlink") \/ Moves(p, "create")
      BY <1>4, <2>1, <2>2, <3>2 DEF Pair, Made, Moves
    <3>3. CASE Moves(p, "exit")
      BY <1>4, <2>1, <2>2, <3>3 DEF Pair, Made, Moves, Told
    <3> QED
      BY <1>5, <3>1, <3>2, <3>3, LockMoves
  <2>4. CASE lpc[p] = "write" /\ Moves(p, "running") /\ L_Write(p)
    <3>1. HasLock(p) => HasLock(p)'
      <4>1. ASSUME HasLock(p) PROVE lock' = [by |-> p, pid |-> p]
        <5>1. lock \in [by : Instances, pid : Instances \cup {None}] /\ lock.by = p
          BY <4>1 DEF HasLock, LockType
        <5> QED
          BY <2>4, <4>1, <5>1 DEF HasLock, L_Write
      <4>2. [by |-> p, pid |-> p] \in [by : Instances, pid : Instances \cup {None}]
        OBVIOUS
      <4>3. [by |-> p, pid |-> p] # None
        BY <4>2, NoneAssumption
      <4> QED
        BY <4>1, <4>3 DEF HasLock
    <3>2. Made(p) /\ Made(p)'
      BY <1>4, <2>4 DEF Made
    <3> QED
      BY <1>2, <1>3, <2>1, <3>1, <3>2 DEF Pair, Made
  <2>5. CASE (lpc[p] = "exit" /\ Moves(p, "gone")) \/ (lpc[p] = "running" /\ Moves(p, "exit") /\ UNCHANGED lock)
    <3>1. Told(p)' /\ Made(p)'
      BY <1>4, <2>5 DEF Told, Made, Moves
    <3> QED
      BY <3>1 DEF Pair
  <2> QED
    BY <1>5, <2>3, <2>4, <2>5, LockMoves
<1>6. CASE Lock(q)
  <2>1. lpc'[p] = lpc[p]
    BY <1>4, <1>6, LockMoves DEF Moves, LockType
  <2>2. CASE lock = None /\ lpc[q] \in {"off", "create"} /\ Moves(q, "write") /\ lock' = [by |-> q, pid |-> None]
    BY <1>2, <1>3, <1>4, <2>1, <2>2 DEF Pair, Made, HasLock, Moves
  <2>3. CASE lock # None /\ lpc[q] \in {"off", "create"} /\ Moves(q, "read") /\ UNCHANGED lock
    <3>1. lock.by = p
      BY <1>1, <1>4, <2>3 DEF OnlyTwo, Made
    <3> QED
      BY <1>4, <2>1, <2>3, <3>1 DEF Pair, HasLock, Made, Moves
  <2>4. CASE lpc[q] = "read" /\ L_Kill(q) /\ Moves(q, "unlink") /\ UNCHANGED lock
    <3>1. Made(p) /\ (HasLock(p) \/ Told(p))
      BY <1>2, <2>4 DEF Pair
    <3>2. HasLock(p) => Signalled(q, p)
      BY <3>1 DEF HasLock, Signalled, LockType, Made
    <3>3. term_flag' = [r \in Instances |-> term_flag[r] \/ Signalled(q, r)]
      BY <2>4 DEF L_Kill
    <3>4. Signalled(q, p) => term_flag'[p]
      BY <3>3, Zenon
    <3>5. Told(p)'
      BY <1>3, <3>1, <3>2, <3>4 DEF Told
    <3> QED
      BY <1>4, <2>4, <3>1, <3>5 DEF Pair, Made, Moves
  <2>5. CASE lpc[q] = "unlink"
    BY <1>2, <1>3, <1>4, <2>5 DEF Pair
  <2>6. CASE lpc[q] = "write" /\ Moves(q, "running") /\ L_Write(q)
    <3>1. HasLock(p) => HasLock(p)'
      BY <2>6 DEF HasLock, L_Write
    <3>2. Made(q)
      BY <2>6 DEF Made
    <3> QED
      BY <1>2, <1>3, <1>4, <2>1, <2>6, <3>1, <3>2 DEF Pair, Made, Moves
  <2>7. CASE (lpc[q] = "exit" /\ Moves(q, "gone")) \/ (lpc[q] = "running" /\ Moves(q, "exit"))
    <3>1. Told(q)' /\ lpc'[q] \in {"exit", "gone"}
      BY <1>4, <2>7 DEF Told, Moves
    <3> QED
      BY <3>1 DEF Pair
  <2> QED
    BY <1>6, <2>2, <2>3, <2>4, <2>5, <2>6, <2>7, LockMoves
<1>7. ASSUME NEW r \in Instances \ {p, q}, Lock(r) PROVE FALSE
  <2>1. lpc'[r] # "off"
    BY <1>4, <1>7, LockMoves DEF Moves, LockType
  <2> QED
    BY <1>7, <2>1 DEF OnlyTwo
<1>8. CASE ~\E r \in Instances : Lock(r)
  <2>1. CASE UNCHANGED <<lpc, lock>>
    BY <1>2, <1>3, <2>1, PairKept
  <2>2. ASSUME lpc[Main] = "running" PROVE Main = p \/ Main = q
    BY <1>1, <2>2, MainAssumption DEF OnlyTwo
  <2>3. CASE lpc[Main] = "running" /\ (Moves(Main, "exit") \/ Moves(Main, "gone")) /\ UNCHANGED lock
    <3>1. Told(Main)' /\ lpc'[Main] \in {"exit", "gone"}
      BY <1>4, <2>3, MainAssumption DEF Told, Moves
    <3> QED
      BY <1>2, <1>3, <1>4, <2>2, <2>3, <3>1 DEF Pair, Made, Moves
  <2>4. CASE lpc[Main] = "running" /\ UNCHANGED lpc /\ Lost(Main)'
    <3>1. Told(Main)'
      BY <2>4 DEF Told
    <3> QED
      BY <1>2, <1>3, <1>4, <2>2, <2>4, <3>1 DEF Pair, Made
  <2> QED
    BY <1>8, <2>1, <2>3, <2>4, OtherMoves
<1> QED
  BY <1>5, <1>6, <1>7, <1>8

\* However two instances overlap while they start and end, the one that came first has been told
\* to go once the second one runs, unless it lost its configuration (XPC_check_filelock).
THEOREM FirstIsTold == Spec => []OneInstance
<1>1. Init => LockInv
  <2> SUFFICES ASSUME Init PROVE LockInv
    OBVIOUS
  <2>1. LockType
    BY DEF Init, LockType, Places
  <2>2. Documents
    BY AppliesInit DEF Init, Documents, AppliesInv, Pauses
  <2>3. Pairs
    BY DEF Init, Pairs, Pair, Made
  <2> QED
    BY <2>1, <2>2, <2>3 DEF LockInv
<1>2. LockInv /\ [Next]_vars => LockInv'
  <2> SUFFICES ASSUME LockInv, [Next]_vars PROVE LockInv'
    OBVIOUS
  <2>1. LockType' /\ Documents'
    BY LockTypeStep, DocumentsStep DEF LockInv
  <2>2. Pairs'
    BY PairStep DEF Pairs
  <2> QED
    BY <2>1, <2>2 DEF LockInv
<1>3. LockInv => OneInstance
  <2> SUFFICES ASSUME LockInv, NEW p \in Instances, NEW q \in Instances, p # q, OnlyTwo(p, q),
                      lpc[p] = "running", lpc[q] = "running"
               PROVE  term_flag[p] \/ term_flag[q] \/ Unconfigured(p) \/ Unconfigured(q)
    BY DEF OneInstance
  <2>1. Told(p) \/ Told(q)
    BY DEF LockInv, Pairs, Pair, Made
  <2> QED
    BY <2>1 DEF Told, Lost, Unconfigured
<1> QED
  BY <1>1, <1>2, <1>3, PTL DEF Spec

-----------------------------------------------------------------------------
(* What the variables hold. *)

Points == {"init", "top", "waiting", "try", "get", "backoff", "parse", "apply", "reread",
           "done", "crashed"}

\* Where the loop is, its flags, and what it holds.
LoopType ==
  /\ pc \in Points
  /\ forced_polling \in BOOLEAN /\ started \in BOOLEAN /\ elapsed \in BOOLEAN
  /\ fresh \in BOOLEAN /\ reacted \in BOOLEAN
  /\ receiveData \in {"null", "held", "dangling"}
  /\ content \in Docs \cup {NotOk, None} /\ last \in Docs \cup {None}

\* There is always a pause, and the limits of the environment never contradict each other.
Delays ==
  /\ waitingInterval \in Nat \ {0} /\ minInterval \in Nat \ {0} /\ defaultInterval \in Nat \ {0}
  /\ maxInterval \in Nat /\ minInterval <= maxInterval

\* The count is put back to the limit before each request.
Limited ==
  /\ error_count \in 0 .. XPC_MAX_ERROR_COUNT + 1
  /\ pc = "get" => error_count <= XPC_MAX_ERROR_COUNT

LoopInv == LoopType /\ Delays /\ Limited

\* Two attempts at the lock.
Attempts ==
  /\ tries \in [Instances -> 0..2]
  /\ \A p \in Instances : lpc[p] \in {"off", "create", "read", "unlink"} => tries[p] \in 0..1

\* The loop as the locking leaves it.
LEMMA LoopKept ==
  ASSUME LoopInv, UNCHANGED <<backoff, errors, timing, data, stored>>, forced_polling' \in BOOLEAN,
         UNCHANGED pc \/ (pc' \in Points /\ pc' # "get")
  PROVE  LoopInv'
BY DEF LoopInv, LoopType, Delays, Limited, backoff, errors, timing, data, stored

LEMMA LoopStep ==
  ASSUME LoopInv, Stored, [Next]_vars
  PROVE  LoopInv'
<1> USE RetryAssumption
<1>1. ASSUME NEW p \in Instances, Lock(p) PROVE LoopInv'
  <2>1. /\ UNCHANGED <<backoff, errors, timing, data, stored, forced_polling>>
        /\ UNCHANGED pc \/ Woken
    BY <1>1 DEF Lock, L_Create, L_Exists, L_Kill, L_Unlink, L_Write, XPC_exit, O_Stop, loop, rest
  <2> QED
    BY <2>1, LoopKept DEF Woken, Points, LoopInv, LoopType
<1>2. CASE SigUsr1
  BY <1>2, LoopKept DEF SigUsr1, Woken, Points
<1>3. CASE TimePasses
  BY <1>3 DEF TimePasses, LoopInv, LoopType, Delays, Limited, backoff, errors, data, stored
<1>4. CASE UNCHANGED vars
  BY <1>4, LoopKept DEF vars, LoopInv, LoopType
<1>5. ASSUME NEW ok \in BOOLEAN, P_ReadInfo(ok) PROVE LoopInv'
  BY <1>5, LoopKept DEF P_ReadInfo, At, Points, LoopInv, LoopType
<1>6. CASE P_Leave \/ P_TooEarly \/ P_WaitOver \/ P_GiveUp \/ P_RereadFails
  <2>1. UNCHANGED <<backoff, errors, timing, data, stored, forced_polling>> /\ pc' \in Points /\ pc' # "get"
    BY <1>6 DEF P_Leave, P_TooEarly, P_WaitOver, P_GiveUp, P_RereadFails, At, Points
  <2> QED
    BY <2>1, LoopKept DEF LoopInv, LoopType
<1>7. CASE P_Begin
  BY <1>7 DEF P_Begin, At, Points, LoopInv, LoopType, Delays, Limited, backoff, errors, stored
<1>8. CASE P_Request
  <2>1. error_count' \in 0..XPC_MAX_ERROR_COUNT
    BY <1>8 DEF P_Request, UseRecovery, LoopInv, Limited
  <2>2. UNCHANGED <<backoff, timing, data, stored, forced_polling>> /\ pc' = "get"
    BY <1>8 DEF P_Request, At
  <2> QED
    BY <2>1, <2>2 DEF Points, LoopInv, LoopType, Delays, Limited, backoff, timing, data, stored
<1>9. ASSUME NEW d \in Docs \cup {NotOk}, P_Received(d) PROVE LoopInv'
  <2>1. /\ UNCHANGED <<minInterval, maxInterval, defaultInterval, timing, stored>>
        /\ pc' = "parse" /\ receiveData' = "held" /\ content' = d /\ fresh' = TRUE
        /\ forced_polling' = FALSE /\ waitingInterval' = minInterval /\ error_count' = 0
    BY <1>9 DEF P_Received, At
  <2>2. Limited'
    BY <2>1 DEF Limited
  <2>3. Delays'
    BY <2>1 DEF LoopInv, Delays
  <2> QED
    BY <2>1, <2>2, <2>3 DEF Points, LoopInv, LoopType, timing, stored
<1>10. ASSUME NEW u \in BOOLEAN, P_Failed(u) PROVE LoopInv'
  <2>1. error_count' \in 0 .. XPC_MAX_ERROR_COUNT + 1
    BY <1>10 DEF P_Failed, At, LoopInv, Limited
  <2>2. UNCHANGED <<backoff, timing, data, stored, forced_polling>> /\ pc' = "backoff"
    BY <1>10 DEF P_Failed, At
  <2> QED
    BY <2>1, <2>2 DEF Points, LoopInv, LoopType, Delays, Limited, backoff, timing, data, stored
<1>11. CASE retryAtExpRate
  <2>1. UNCHANGED <<errors, timing, data, stored, forced_polling, minInterval, maxInterval, defaultInterval>>
        /\ pc' = "try"
    BY <1>11 DEF retryAtExpRate, At
  <2>2. waitingInterval' \in Nat \ {0}
    BY <1>11 DEF retryAtExpRate, DEFAULT_RETRY_FACTOR, LoopInv, Delays
  <2> QED
    BY <2>1, <2>2 DEF Points, LoopInv, LoopType, Delays, Limited, errors, timing, data, stored
<1>12. CASE P_Parse \/ P_ApplyFails
  <2>1. /\ UNCHANGED <<backoff, errors, timing, content, fresh, stored, forced_polling>>
        /\ pc' \in {"waiting", "top", "apply"} /\ receiveData' \in {receiveData, "dangling"}
    BY <1>12 DEF P_Parse, P_ApplyFails, Failure, AfterWait, freeResource, data
  <2> QED
    BY <2>1 DEF Points, LoopInv, LoopType, Delays, Limited, backoff, errors, timing, stored
<1>13. CASE P_DoubleFree \/ P_ApplyNothing
  <2>1. UNCHANGED <<backoff, errors, timing, data, stored, forced_polling>> /\ pc' = "crashed"
    BY <1>13 DEF P_DoubleFree, P_ApplyNothing, Crash
  <2> QED
    BY <2>1, LoopKept DEF Points, LoopInv, LoopType
<1>14. CASE P_SaveFails
  <2>1. /\ UNCHANGED <<backoff, errors, timing, content, fresh, forced_polling>>
        /\ pc' \in {"waiting", "top"} /\ receiveData' = "dangling" /\ last' = None /\ reacted' = FALSE
    BY <1>14 DEF P_SaveFails, Failure, AfterWait, freeResource
  <2> QED
    BY <2>1 DEF Points, LoopInv, LoopType, Delays, Limited, backoff, errors, timing
<1>15. CASE P_Apply
  <2>1. PICK b \in Broken : /\ reacted' = XPC_apply_config(conf, content, b).chg
                            /\ last' = IF b = {} THEN content ELSE None
    BY <1>15 DEF P_Apply
  <2>2. last' \in Docs \cup {None}
    BY <1>15, <2>1 DEF P_Apply
  <2>3. reacted' \in BOOLEAN
    <3>1. XPC_apply_config(conf, content, b) \in Reached(conf, b)
      BY <1>15, AppliedStored DEF P_Apply
    <3> QED
      BY <2>1, <3>1, FieldNames, FieldType DEF Reached
  <2>4. /\ UNCHANGED <<backoff, errors, timing, content, fresh, forced_polling>>
        /\ pc' = "reread" /\ receiveData' = "dangling"
    BY <1>15 DEF P_Apply, At, freeResource
  <2> QED
    BY <2>2, <2>3, <2>4 DEF Points, LoopInv, LoopType, Delays, Limited, backoff, errors, timing
<1>16. CASE P_Reread
  BY <1>16 DEF P_Reread, At, Points, LoopInv, LoopType, Delays, Limited, backoff, errors, data
<1> QED
  BY <1>1, <1>2, <1>3, <1>4, <1>5, <1>6, <1>7, <1>8, <1>9, <1>10, <1>11, <1>12, <1>13, <1>14, <1>15, <1>16
     DEF Next, Loop

LEMMA AttemptsStep ==
  ASSUME LockType, Documents, Attempts, [Next]_vars
  PROVE  Attempts'
<1>1. ASSUME NEW p \in Instances, L_Unlink(p) PROVE Attempts'
  <2>1. tries' = [tries EXCEPT ![p] = @ + 1] /\ tries[p] \in 0..1
    BY <1>1 DEF L_Unlink, LockAt, Attempts
  <2>2. lpc' = [lpc EXCEPT ![p] = IF tries[p] = 0 THEN "create" ELSE "exit"]
    BY <1>1 DEF L_Unlink, LockAt
  <2>3. tries' \in [Instances -> 0..2]
    BY <2>1 DEF Attempts
  <2>4. ASSUME NEW q \in Instances, lpc'[q] \in {"off", "create", "read", "unlink"} PROVE tries'[q] \in 0..1
    BY <2>1, <2>2, <2>4 DEF Attempts, LockType
  <2> QED
    BY <2>3, <2>4 DEF Attempts
<1>2. ASSUME NEW p \in Instances, Lock(p), ~L_Unlink(p) PROVE Attempts'
  <2>1. UNCHANGED tries
    BY <1>2 DEF Lock, L_Create, L_Exists, L_Kill, L_Write, XPC_exit, O_Stop
  <2>2. \A q \in Instances : lpc'[q] \in {"off", "create", "read", "unlink"}
          => lpc[q] \in {"off", "create", "read", "unlink"}
    BY <1>2, LockMoves DEF Moves, LockType
  <2> QED
    BY <2>1, <2>2 DEF Attempts
<1>3. ASSUME ~\E p \in Instances : Lock(p) PROVE Attempts'
  <2>1. UNCHANGED tries
    <3>1. ASSUME NEW ok \in BOOLEAN, P_ReadInfo(ok) PROVE UNCHANGED tries
      BY <3>1 DEF P_ReadInfo
    <3>2. ASSUME NEW d, P_Received(d) PROVE UNCHANGED tries
      BY <3>2 DEF P_Received, locking
    <3>3. ASSUME NEW u \in BOOLEAN, P_Failed(u) PROVE UNCHANGED tries
      BY <3>3 DEF P_Failed, locking
    <3>4. P_Leave \/ P_TooEarly \/ P_WaitOver \/ P_Begin \/ P_Request \/ P_GiveUp \/ retryAtExpRate
            => UNCHANGED tries
      BY DEF P_Leave, P_TooEarly, P_WaitOver, P_Begin, P_Request, P_GiveUp, retryAtExpRate, locking
    <3>5. P_Parse \/ P_DoubleFree \/ P_ApplyNothing \/ P_ApplyFails => UNCHANGED tries
      BY DEF P_Parse, P_DoubleFree, P_ApplyNothing, P_ApplyFails, Failure, Crash, locking
    <3>6. P_SaveFails \/ P_Apply \/ P_Reread \/ P_RereadFails => UNCHANGED tries
      BY DEF P_SaveFails, P_Apply, P_Reread, P_RereadFails, Failure, locking
    <3>7. SigUsr1 \/ TimePasses \/ UNCHANGED vars => UNCHANGED tries
      BY DEF SigUsr1, TimePasses, vars, locking
    <3> QED
      BY <1>3, <3>1, <3>2, <3>3, <3>4, <3>5, <3>6, <3>7 DEF Next, Loop
  <2>2. \A q \in Instances : lpc'[q] \in {"off", "create", "read", "unlink"}
          => lpc[q] \in {"off", "create", "read", "unlink"}
    BY <1>3, OtherMoves DEF Moves, LockType
  <2> QED
    BY <2>1, <2>2 DEF Attempts
<1> QED
  BY <1>1, <1>2, <1>3

\* Every variable has its type: the settings stay well-formed whatever is received and whatever fails,
\* there are two attempts at the lock, there is a pause between retries, and the count of errors
\* stays within one of its limit.
THEOREM TypeCorrect == Spec => []TypeOK
<1> DEFINE Typed == LockType /\ Documents /\ Attempts /\ LoopInv
<1>1. Init => Typed
  <2> SUFFICES ASSUME Init PROVE Typed
    OBVIOUS
  <2>1. PICK r \in RetryAttributes : getCloudRecorderRetryAttribute(r)
    BY DEF Init
  <2>2. r.min \in Nat /\ r.max \in Nat
    BY RetryAssumption
  <2>3. Delays
    BY <2>1, <2>2 DEF getCloudRecorderRetryAttribute, OrDefault, DEFAULT_MIN_INTERVAL,
                      DEFAULT_MAX_INTERVAL, Delays
  <2>4. LoopInv
    <3>1. LoopType
      BY DEF Init, LoopType, Points
    <3>2. error_count = 0 /\ 0 \in 0 .. XPC_MAX_ERROR_COUNT + 1 /\ pc = "init"
      BY RetryAssumption DEF Init
    <3> QED
      BY <2>3, <3>1, <3>2 DEF LoopInv, Limited
  <2>5. LockType /\ Attempts
    BY DEF Init, LockType, Attempts, Places
  <2>6. Documents
    BY AppliesInit DEF Init, Documents, AppliesInv, Pauses
  <2> QED
    BY <2>4, <2>5, <2>6
<1>2. Typed /\ Stored /\ [Next]_vars => Typed'
  BY LockTypeStep, DocumentsStep, AttemptsStep, LoopStep
<1>3. Typed /\ Stored => TypeOK
  <2> SUFFICES ASSUME Typed, Stored PROVE TypeOK
    OBVIOUS
  <2>1. lock \in {None} \cup [by : Instances, pid : Instances \cup {None}]
    BY DEF LockType
  <2>2. pc \in Points /\ Delays /\ error_count \in 0 .. XPC_MAX_ERROR_COUNT + 1
    BY DEF LoopInv, LoopType, Limited
  <2> QED
    BY <2>1, <2>2 DEF LockType, Places, Attempts, LoopInv, LoopType, Points, Delays, Stored, TypeOK
<1> QED
  BY <1>1, <1>2, <1>3, AlwaysStored, PTL DEF Spec

-----------------------------------------------------------------------------
(* Two folds over the same sequence. *)

\* The values of a fold, one after the other.
Runs(g, N, R, base, step) ==
  /\ g[1..0] = base
  /\ \A n \in Nat : n <= N => g[1..n] \in R
  /\ \A n \in Nat : n + 1 <= N => n + 1 \in 1..N /\ g[1..n + 1] = step[n + 1][g[1..n]]

\* Each value is in the set the fold stays in.
LEMMA FoldRuns ==
  ASSUME NEW N \in Nat, NEW R, NEW base \in R, NEW step \in [1..N -> [R -> R]], NEW g,
         FoldsBy(g, N, R, base, step)
  PROVE  Runs(g, N, R, base, step)
<1> DEFINE G == {n \in Nat : n <= N => g[1..n] \in R}
<1>1. g[1..0] = base /\ 0 \in G
  <2>1. 1..0 = {} /\ {} \in SUBSET (1..N)
    OBVIOUS
  <2>2. g[{}] = base
    BY <2>1 DEF FoldsBy
  <2> QED
    BY <2>1, <2>2
<1>2. ASSUME NEW n \in Nat, n + 1 <= N, g[1..n] \in R
      PROVE  n + 1 \in 1..N /\ g[1..n + 1] = step[n + 1][g[1..n]] /\ g[1..n + 1] \in R
  <2>1. 1..n + 1 \in SUBSET (1..N) /\ n + 1 \in 1..N /\ 1..n + 1 # {}
        /\ Seqs!Max(1..n + 1) = n + 1 /\ (1..n + 1) \ {n + 1} = 1..n
    BY <1>2, Interval
  <2>2. g[1..n + 1] = step[n + 1][g[1..n]]
    BY <1>2, <2>1 DEF FoldsBy
  <2>3. step[n + 1] \in [R -> R]
    BY <2>1
  <2> QED
    BY <1>2, <2>1, <2>2, <2>3
<1>3. ASSUME NEW n \in Nat, n \in G PROVE n + 1 \in G
  <2>1. n + 1 \in Nat /\ (n + 1 <= N => n <= N)
    OBVIOUS
  <2> QED
    BY <1>2, <1>3, <2>1
<1>4. Nat \subseteq G
  <2> HIDE DEF G
  <2> QED
    BY <1>1, <1>3, Induction
<1>5. ASSUME NEW n \in Nat, n + 1 <= N PROVE n + 1 \in 1..N /\ g[1..n + 1] = step[n + 1][g[1..n]]
  <2>1. n <= N
    BY <1>5
  <2> QED
    BY <1>2, <1>4, <1>5, <2>1
<1> QED
  BY <1>1, <1>4, <1>5 DEF Runs

\* Two folds over the same sequence stay related where their steps do.  E are the values from which
\* the first one may end as it does.
LEMMA FoldsFollow ==
  ASSUME NEW N, NEW R, NEW S, NEW x0, NEW y0, NEW x1, NEW y1, NEW p, NEW q, NEW Q, NEW E,
         Folds(p, R, x0, x1, N), Folds(q, S, y0, y1, N), <<x0, y0>> \in Q, x1 \in E,
         \A i \in 1..N, x \in R : p[i][x] \in E => x \in E,
         \A i \in 1..N, x \in R, y \in S :
           x \in E /\ p[i][x] \in E /\ <<x, y>> \in Q => <<p[i][x], q[i][y]>> \in Q
  PROVE  <<x1, y1>> \in Q
<1>1. N \in Nat /\ x0 \in R /\ y0 \in S /\ p \in [1..N -> [R -> R]] /\ q \in [1..N -> [S -> S]]
  BY DEF Folds
<1>2. PICK f : FoldsBy(f, N, R, x0, p) /\ x1 = f[1..N]
  BY DEF Folds
<1>3. PICK g : FoldsBy(g, N, S, y0, q) /\ y1 = g[1..N]
  BY DEF Folds
<1>4. Runs(f, N, R, x0, p)
  BY <1>1, <1>2, FoldRuns
<1>5. Runs(g, N, S, y0, q)
  BY <1>1, <1>3, FoldRuns
<1> DEFINE B == {k \in Nat : k <= N => f[1..N - k] \in E}
           G == {n \in Nat : n <= N => <<f[1..n], g[1..n]>> \in Q}
<1>6. 0 \in B
  <2>1. N - 0 = N
    BY <1>1
  <2> QED
    BY <1>2, <2>1
<1>7. ASSUME NEW k \in Nat, k \in B PROVE k + 1 \in B
  <2> SUFFICES ASSUME k + 1 <= N PROVE f[1..N - (k + 1)] \in E
    <3>1. k + 1 \in Nat
      OBVIOUS
    <3> QED
      BY <3>1
  <2> DEFINE n == N - (k + 1)
  <2>1. n \in Nat /\ n + 1 <= N /\ n <= N /\ n + 1 = N - k /\ k <= N
    BY <1>1
  <2> HIDE DEF n
  <2>2. f[1..n + 1] \in E
    BY <1>7, <2>1
  <2>3. f[1..n] \in R /\ n + 1 \in 1..N /\ f[1..n + 1] = p[n + 1][f[1..n]]
    BY <1>4, <2>1 DEF Runs
  <2>4. f[1..n] \in E
    BY <2>2, <2>3
  <2> QED
    BY <2>4 DEF n
<1>8. \A n \in Nat : n <= N => f[1..n] \in E
  <2>1. Nat \subseteq B
    <3> HIDE DEF B
    <3> QED
      BY <1>6, <1>7, Induction
  <2> SUFFICES ASSUME NEW n \in Nat, n <= N PROVE f[1..n] \in E
    OBVIOUS
  <2>2. N - n \in Nat /\ N - n <= N /\ N - (N - n) = n
    BY <1>1
  <2>3. N - n \in B
    BY <2>1, <2>2
  <2> QED
    BY <2>2, <2>3
<1>9. 0 \in G
  BY <1>1, <1>4, <1>5 DEF Runs
<1>10. ASSUME NEW n \in Nat, n \in G PROVE n + 1 \in G
  <2> SUFFICES ASSUME n + 1 <= N PROVE <<f[1..n + 1], g[1..n + 1]>> \in Q
    <3>1. n + 1 \in Nat
      OBVIOUS
    <3> QED
      BY <3>1
  <2>1. n <= N /\ n + 1 \in Nat
    BY <1>1
  <2>2. f[1..n] \in R /\ g[1..n] \in S /\ f[1..n] \in E /\ f[1..n + 1] \in E /\ <<f[1..n], g[1..n]>> \in Q
    BY <1>4, <1>5, <1>8, <1>10, <2>1 DEF Runs
  <2>3. n + 1 \in 1..N /\ f[1..n + 1] = p[n + 1][f[1..n]] /\ g[1..n + 1] = q[n + 1][g[1..n]]
    BY <1>4, <1>5 DEF Runs
  <2> QED
    BY <2>2, <2>3
<1>11. N \in G
  <2> HIDE DEF G
  <2> QED
    BY <1>1, <1>9, <1>10, Induction
<1> QED
  BY <1>1, <1>2, <1>3, <1>11

-----------------------------------------------------------------------------
(* A document applied twice: x is what its tags have made of the settings c so *)
(* far, e what they make of them in the end, and y what the same tags have made *)
(* of d when they come again.                                                  *)

\* Settings of which a tag sets the value it holds, whatever they are.
Plain == Fields \ {"abr", "dataset", "items", "trig", "chg", "broken"}
OfDataset == {"interval", "url", "auth", "timeout", "enabled"}

Agree(x) == x["md_mode"] = x["mot"]

\* What was set in this run is the same in both, what was not is as the first one left it in the end.
Others(e, x, y) ==
  /\ \A f \in Plain : y[f] = x[f] \/ y[f] = e[f]
  /\ \A i \in 1..3, f \in OfDataset :
       y["dataset"][i][f] = x["dataset"][i][f] \/ y["dataset"][i][f] = e["dataset"][i][f]

\* k holds c, d and e, and where the two were before.
Follows(k, x, y) ==
  /\ x \in Reached(k.c, {}) /\ y \in Reached(k.d, {})
  /\ Others(k.e, x, y)
  /\ x["items"] = k.x["items"] /\ x["trig"] = k.x["trig"]
  /\ y["items"] = k.y["items"] /\ y["trig"] = k.y["trig"]
  /\ Agree(k.x) => Agree(x)

\* What one set_* call does when nothing fails.
LEMMA SetIs ==
  ASSUME NEW c0, NEW c \in Reached(c0, {}), NEW f \in Fields \ {"chg"}, NEW v
  PROVE  \A g \in Fields \ {"chg"} : Set(c, f, v)[g] = IF g = f THEN v ELSE c[g]
<1>1. c = [g \in Fields |-> c[g]] /\ c.broken = {}
  BY DEF Reached
<1>2. Set(c, f, v) = [c EXCEPT ![f] = v, !.chg = @ \/ c[f] # v]
  BY <1>1 DEF Set
<1> QED
  BY <1>1, <1>2

\* A set_* call with the same value.
LEMMA SetFollows ==
  ASSUME NEW k, NEW x, NEW y, Follows(k, x, y),
         NEW f \in Fields \ {"mot", "md_mode", "dataset", "items", "trig", "chg", "broken"},
         NEW v \in FieldTypes[f], NEW w \in FieldTypes[f], v = w \/ f = "abr"
  PROVE  Follows(k, Set(x, f, v), Set(y, f, w))
<1> DEFINE x1 == Set(x, f, v)
           y1 == Set(y, f, w)
<1>1. x \in Reached(k.c, {}) /\ y \in Reached(k.d, {})
  BY DEF Follows
<1>2. x1 \in Reached(k.c, {}) /\ y1 \in Reached(k.d, {})
  BY <1>1, SetStays
<1>3. /\ \A g \in Fields \ {"chg"} : x1[g] = IF g = f THEN v ELSE x[g]
      /\ \A g \in Fields \ {"chg"} : y1[g] = IF g = f THEN w ELSE y[g]
  BY <1>1, SetIs
<1> HIDE DEF x1, y1
<1>4. Others(k.e, x1, y1)
  <2>1. x1["dataset"] = x["dataset"] /\ y1["dataset"] = y["dataset"]
    BY <1>3, FieldNames
  <2>2. \A g \in Plain : y1[g] = x1[g] \/ y1[g] = k.e[g]
    BY <1>3 DEF Follows, Others, Plain
  <2> QED
    BY <2>1, <2>2 DEF Follows, Others
<1>5. /\ x1["items"] = x["items"] /\ x1["trig"] = x["trig"]
      /\ y1["items"] = y["items"] /\ y1["trig"] = y["trig"]
      /\ x1["md_mode"] = x["md_mode"] /\ x1["mot"] = x["mot"]
  BY <1>3, FieldNames
<1>6. Follows(k, x1, y1)
  BY <1>2, <1>4, <1>5 DEF Follows, Agree
<1> QED
  BY <1>6 DEF x1, y1

\* A URL, with what is appended to it.
LEMMA SetUrlFollows ==
  ASSUME NEW k, NEW x, NEW y, Follows(k, x, y), NEW u \in Urls,
         NEW f \in {"video_address", "http_url"}
  PROVE  Follows(k, SetUrl(x, f, u), SetUrl(y, f, u))
<1>1. x.broken = {} /\ y.broken = {}
  BY DEF Follows, Reached
<1>2. XPC_append_mac_to_url(x, u) = XPC_append_mac_to_url(y, u) /\ XPC_append_mac_to_url(x, u) \in Urls
  BY <1>1, TextsAssumption DEF XPC_append_mac_to_url, Urls, NoUrl
<1>3. Follows(k, Set(x, f, XPC_append_mac_to_url(x, u)), Set(y, f, XPC_append_mac_to_url(y, u)))
  BY <1>2, FieldNames, FieldType, SetFollows
<1> QED
  BY <1>3 DEF SetUrl

\* After <motion> motion detection is the same in both places.
LEMMA MotionAttrFollows ==
  ASSUME NEW k, NEW x, NEW y, Follows(k, x, y), NEW t, IsTag(t)
  PROVE  /\ Follows(k, XPC_parse_motion_attr(x, t), XPC_parse_motion_attr(y, t))
         /\ ~NoAttributes(t) => Agree(XPC_parse_motion_attr(x, t))
<1> DEFINE on == Text(t, "enabled") = "true"
           env == Text(t, "env")
           level == Sensitivity(Number(t, "sensitivity"))
           C1(c) == [c EXCEPT !.md_mode = on]
           C2(c) == Set(C1(c), "mot", on)
           C3(c) == IF env \in {"indoor", "outdoor"} THEN Set(C2(c), "scene", env) ELSE C2(c)
           C4(c) == Set(C3(c), "sensitivity", level)
<1> USE FieldNames, FieldType
<1>1. on \in BOOLEAN /\ (env \in {"indoor", "outdoor"} => env \in Texts) /\ level \in Int
  BY TextsAssumption, Attributes, SensitivityType
<1> HIDE DEF on, env, level
<1>2. ASSUME NEW c0, NEW c \in Reached(c0, {})
      PROVE  /\ C2(c) \in Reached(c0, {})
             /\ \A g \in Fields \ {"chg"} : C2(c)[g] = IF g \in {"mot", "md_mode"} THEN on ELSE c[g]
  <2>1. c = [g \in Fields |-> c[g]] /\ c["chg"] \in BOOLEAN
    BY DEF Reached
  <2>2. [g \in Fields |-> IF g = "chg" THEN c["chg"] ELSE IF g = "md_mode" THEN on ELSE c[g]] \in Reached(c0, {})
    BY <1>1, <2>1, Replaced DEF Unmarked
  <2>3. C1(c) = [g \in Fields |-> IF g = "chg" THEN c["chg"] ELSE IF g = "md_mode" THEN on ELSE c[g]]
    BY <2>1
  <2>4. C1(c) \in Reached(c0, {}) /\ \A g \in Fields : C1(c)[g] = IF g = "md_mode" THEN on ELSE c[g]
    BY <2>2, <2>3
  <2> HIDE DEF C1
  <2>5. C2(c) \in Reached(c0, {})
    BY <1>1, <2>4, SetStays
  <2>6. \A g \in Fields \ {"chg"} : C2(c)[g] = IF g = "mot" THEN on ELSE C1(c)[g]
    BY <2>4, SetIs
  <2> QED
    BY <2>4, <2>5, <2>6
<1> HIDE DEF C1, C2
<1>3. Follows(k, C2(x), C2(y)) /\ Agree(C2(x))
  <2>1. x \in Reached(k.c, {}) /\ y \in Reached(k.d, {})
    BY DEF Follows
  <2>2. C2(x) \in Reached(k.c, {}) /\ C2(y) \in Reached(k.d, {})
    BY <1>2, <2>1
  <2>3. /\ \A g \in Fields \ {"chg"} : C2(x)[g] = IF g \in {"mot", "md_mode"} THEN on ELSE x[g]
        /\ \A g \in Fields \ {"chg"} : C2(y)[g] = IF g \in {"mot", "md_mode"} THEN on ELSE y[g]
    BY <1>2, <2>1
  <2>4. Others(k.e, C2(x), C2(y))
    <3>1. C2(x)["dataset"] = x["dataset"] /\ C2(y)["dataset"] = y["dataset"]
      BY <2>3
    <3>2. \A g \in Plain : C2(y)[g] = C2(x)[g] \/ C2(y)[g] = k.e[g]
      BY <2>3 DEF Follows, Others, Plain
    <3> QED
      BY <3>1, <3>2 DEF Follows, Others
  <2>5. /\ C2(x)["items"] = x["items"] /\ C2(x)["trig"] = x["trig"]
        /\ C2(y)["items"] = y["items"] /\ C2(y)["trig"] = y["trig"]
        /\ C2(x)["md_mode"] = on /\ C2(x)["mot"] = on
    BY <2>3
  <2> QED
    BY <2>2, <2>4, <2>5 DEF Follows, Agree
<1>4. Follows(k, C3(x), C3(y))
  BY <1>1, <1>3, SetFollows
<1>5. Follows(k, C4(x), C4(y))
  BY <1>1, <1>4, SetFollows
<1>6. Agree(C4(x))
  <2>1. C2(x) \in Reached(k.c, {}) /\ C3(x) \in Reached(k.c, {})
    BY <1>3, <1>4 DEF Follows
  <2>2. C3(x)["mot"] = C2(x)["mot"] /\ C3(x)["md_mode"] = C2(x)["md_mode"]
    BY <2>1, SetIs
  <2> HIDE DEF C3
  <2>3. C4(x)["mot"] = C3(x)["mot"] /\ C4(x)["md_mode"] = C3(x)["md_mode"]
    BY <2>1, SetIs
  <2> QED
    BY <1>3, <2>2, <2>3 DEF Agree
<1>7. ASSUME NEW c, c.broken = {}, ~NoAttributes(t) PROVE XPC_parse_motion_attr(c, t) = C4(c)
  BY <1>7 DEF XPC_parse_motion_attr, C1, C2, on, env, level
<1>8. x.broken = {} /\ y.broken = {}
  BY DEF Follows, Reached
<1> HIDE DEF C3, C4
<1>9. CASE NoAttributes(t)
  BY <1>9 DEF XPC_parse_motion_attr
<1>10. CASE ~NoAttributes(t)
  BY <1>5, <1>6, <1>7, <1>8, <1>10
<1> QED
  BY <1>9, <1>10

\* The attributes of <threshold>.
LEMMA ThresholdAttrFollows ==
  ASSUME NEW k, NEW x, NEW y, Follows(k, x, y), NEW t, IsTag(t)
  PROVE  Follows(k, XPC_parse_threshold_attr(x, t), XPC_parse_threshold_attr(y, t))
<1>1. <<Number(t, "day2night"), Number(t, "night2day")>> \in FieldTypes["dn_threshold"]
  BY Attributes, FieldType
<1> QED
  BY <1>1, FieldNames, SetFollows DEF XPC_parse_threshold_attr

\* The attributes of <cvr>.
LEMMA CvrAttrFollows ==
  ASSUME NEW k, NEW x, NEW y, Follows(k, x, y), NEW t, IsTag(t)
  PROVE  Follows(k, XPC_parse_cvr_attr(x, t), XPC_parse_cvr_attr(y, t))
<1> DEFINE on == Text(t, "enabled") = "true"
           C1(c) == Set(c, "enable", on)
           C2(c) == SetUrl(C1(c), "video_address", Url(t))
           C3(c) == Set(C2(c), "video_auth", Text(t, "auth"))
           C4(c) == Set(C3(c), "video_timeout", Period(t, "timeout"))
<1>1. on \in BOOLEAN
  OBVIOUS
<1> HIDE DEF on
<1>2. Follows(k, C1(x), C1(y))
  BY <1>1, FieldNames, FieldType, SetFollows
<1>3. Follows(k, C2(x), C2(y))
  BY <1>2, Attributes, SetUrlFollows
<1>4. Follows(k, C3(x), C3(y))
  BY <1>3, Attributes, FieldNames, FieldType, SetFollows
<1>5. Follows(k, C4(x), C4(y))
  BY <1>4, Attributes, FieldNames, FieldType, SetFollows
<1> QED
  BY <1>5 DEF XPC_parse_cvr_attr, on

\* The attributes of <segments>.
LEMMA SegmentsAttrFollows ==
  ASSUME NEW k, NEW x, NEW y, Follows(k, x, y), NEW t, IsTag(t)
  PROVE  Follows(k, XPC_parse_segments_attr(x, t), XPC_parse_segments_attr(y, t))
<1> DEFINE format == IF Text(t, "format") = "video/mp2t" THEN "TS" ELSE "MP4"
           C1(c) == Set(c, "video_duration", Period(t, "duration"))
           C2(c) == Set(C1(c), "video_format", format)
<1>1. format \in Texts
  BY TextsAssumption
<1> HIDE DEF format
<1>2. Follows(k, C1(x), C1(y))
  BY Attributes, FieldNames, FieldType, SetFollows
<1>3. Follows(k, C2(x), C2(y))
  BY <1>1, <1>2, FieldNames, FieldType, SetFollows
<1> QED
  BY <1>3 DEF XPC_parse_segments_attr, format

\* The attributes of <H264>.
LEMMA H264AttrFollows ==
  ASSUME NEW k, NEW x, NEW y, Follows(k, x, y), NEW t, IsTag(t)
  PROVE  Follows(k, XPC_parse_h264_attr(x, t), XPC_parse_h264_attr(y, t))
<1> DEFINE r == Text(t, "resolution")
           fps == Number(t, "fps")
           C1(c) == IF r \in Resolutions THEN Set(c, "resolution", r) ELSE c
           C2(c) == IF fps \in 1..30 THEN Set(C1(c), "frate", fps) ELSE C1(c)
           C3(c) == Set(C2(c), "gov_length", Number(t, "gop"))
<1>1. fps \in Int
  BY Attributes
<1> HIDE DEF r, fps
<1>2. Follows(k, C1(x), C1(y))
  BY FieldNames, FieldType, SetFollows
<1>3. Follows(k, C2(x), C2(y))
  BY <1>1, <1>2, FieldNames, FieldType, SetFollows
<1>4. Follows(k, C3(x), C3(y))
  BY <1>3, Attributes, FieldNames, FieldType, SetFollows
<1> QED
  BY <1>4 DEF XPC_parse_h264_attr, r, fps

\* The attributes of the document.
LEMMA ConfigAttrFollows ==
  ASSUME NEW k, NEW x, NEW y, Follows(k, x, y), NEW t, IsTag(t)
  PROVE  Follows(k, XPC_parse_config_attr(x, t), XPC_parse_config_attr(y, t))
<1> DEFINE redirect == IsHttp(Url(t))
           url == IF redirect THEN DefaultUrl ELSE Url(t)
           auth == IF redirect THEN "" ELSE Text(t, "auth")
           C1(c) == Set(c, "polling_interval", Period(t, "interval"))
           C2(c) == Set(C1(c), "polling_url", url)
           C3(c) == Set(C2(c), "polling_auth", auth)
<1>1. url \in Urls /\ auth \in Texts
  BY TextsAssumption, Attributes DEF DefaultUrl, Urls
<1> HIDE DEF url, auth
<1>2. Follows(k, C1(x), C1(y))
  BY Attributes, FieldNames, FieldType, SetFollows
<1>3. Follows(k, C2(x), C2(y))
  BY <1>1, <1>2, FieldNames, FieldType, SetFollows
<1>4. Follows(k, C3(x), C3(y))
  BY <1>1, <1>3, FieldNames, FieldType, SetFollows
<1> QED
  BY <1>4 DEF XPC_parse_config_attr, url, auth, redirect

\* Children of a tag, one after the other.
LEMMA FoldFollows ==
  ASSUME NEW k, NEW x, NEW y, Follows(k, x, y), NEW N, NEW p, NEW q, NEW x1, NEW y1,
         Folds(p, Reached(k.c, {}), x, x1, N), Folds(q, Reached(k.d, {}), y, y1, N),
         \A i \in 1..N, a \in Reached(k.c, {}), b \in Reached(k.d, {}) :
           Follows(k, a, b) => Follows(k, p[i][a], q[i][b])
  PROVE  Follows(k, x1, y1)
<1> DEFINE R == Reached(k.c, {})
           S == Reached(k.d, {})
           Q == {r \in R \X S : Follows(k, r[1], r[2])}
<1>1. \A a, b : <<a, b>> \in Q <=> Follows(k, a, b)
  BY DEF Follows
<1> HIDE DEF Q
<1>2. <<x, y>> \in Q
  BY <1>1
<1>3. \A i \in 1..N, a \in R : p[i][a] \in R => a \in R
  OBVIOUS
<1>4. \A i \in 1..N, a \in R, b \in S :
        a \in R /\ p[i][a] \in R /\ <<a, b>> \in Q => <<p[i][a], q[i][b]>> \in Q
  BY <1>1
<1>5. x1 \in R
  BY FoldStays
<1> HIDE DEF R, S
<1>6. <<x1, y1>> \in Q
  <2>1. Folds(p, R, x, x1, N) /\ Folds(q, S, y, y1, N)
    BY DEF R, S
  <2> QED
    BY <1>2, <1>3, <1>4, <1>5, <2>1, FoldsFollow
<1> QED
  BY <1>1, <1>6

\* A fold ends where one step leads that the later ones do not leave.
LEMMA FoldReaches ==
  ASSUME NEW N, NEW R, NEW x0, NEW x1, NEW p, NEW A, Folds(p, R, x0, x1, N),
         \A i \in 1..N, x \in R : x \in A => p[i][x] \in A,
         x0 \in A \/ \E i \in 1..N : \A x \in R : p[i][x] \in A
  PROVE  x1 \in A
<1>1. N \in Nat /\ x0 \in R /\ p \in [1..N -> [R -> R]]
  BY DEF Folds
<1>2. PICK f : FoldsBy(f, N, R, x0, p) /\ x1 = f[1..N]
  BY DEF Folds
<1>3. Runs(f, N, R, x0, p)
  BY <1>1, <1>2, FoldRuns
<1>4. PICK m \in Nat : m <= N /\ f[1..m] \in A
  <2>1. CASE x0 \in A
    <3>1. 0 \in Nat /\ 0 <= N /\ f[1..0] = x0
      BY <1>1, <1>3 DEF Runs
    <3> QED
      BY <2>1, <3>1
  <2>2. CASE \E i \in 1..N : \A x \in R : p[i][x] \in A
    <3>1. PICK i \in 1..N : \A x \in R : p[i][x] \in A
      BY <2>2
    <3> DEFINE n == i - 1
    <3>2. n \in Nat /\ n <= N /\ n + 1 = i /\ i \in Nat /\ i <= N
      BY <1>1
    <3> HIDE DEF n
    <3>3. f[1..n] \in R /\ f[1..n + 1] = p[n + 1][f[1..n]]
      BY <1>3, <3>2 DEF Runs
    <3>4. f[1..i] = p[i][f[1..n]]
      BY <3>2, <3>3
    <3> QED
      BY <3>1, <3>2, <3>3, <3>4
  <2> QED
    BY <2>1, <2>2
<1> DEFINE G == {j \in Nat : m + j <= N => f[1..m + j] \in A}
<1>5. 0 \in G
  <2>1. m + 0 = m
    OBVIOUS
  <2> QED
    BY <1>4, <2>1
<1>6. ASSUME NEW j \in Nat, j \in G PROVE j + 1 \in G
  <2> SUFFICES ASSUME m + (j + 1) <= N PROVE f[1..m + (j + 1)] \in A
    <3>1. j + 1 \in Nat
      OBVIOUS
    <3> QED
      BY <3>1
  <2> DEFINE n == m + j
  <2>1. n \in Nat /\ n <= N /\ n + 1 <= N /\ n + 1 = m + (j + 1)
    BY <1>1
  <2>2. f[1..n] \in A
    BY <1>6, <2>1
  <2> HIDE DEF n
  <2>3. f[1..n] \in R /\ n + 1 \in 1..N /\ f[1..n + 1] = p[n + 1][f[1..n]]
    BY <1>3, <2>1 DEF Runs
  <2>4. f[1..n + 1] \in A
    BY <2>2, <2>3
  <2> QED
    BY <2>1, <2>4
<1>7. N - m \in G
  <2>1. N - m \in Nat
    BY <1>1, <1>4
  <2> HIDE DEF G
  <2> QED
    BY <1>5, <1>6, <2>1, Induction
<1>8. m + (N - m) = N
  BY <1>1
<1> QED
  BY <1>1, <1>2, <1>7, <1>8

-----------------------------------------------------------------------------
(* The segments but <events>, when the document comes again. *)

\* The step of each child.
LEMMA MotionStepsAre ==
  ASSUME NEW R, NEW t
  PROVE  \A i \in 1..Len(t.children), a \in R : MotionSteps(R, t)[i][a] = MotionOf(a, t.children[i])
BY DEF MotionSteps

\* <detection>.
LEMMA MotionSegmentFollows ==
  ASSUME NEW k, NEW x, NEW y, Follows(k, x, y), NEW t, IsTag(t), \A u \in Children(t) : IsTag(u)
  PROVE  /\ Follows(k, XPC_parse_motion_segment(x, t), XPC_parse_motion_segment(y, t))
         /\ (\E u \in Children(t) : u.name = "motion" /\ ~NoAttributes(u))
              => Agree(XPC_parse_motion_segment(x, t))
<1> DEFINE N == Len(t.children)
           R == Reached(k.c, {})
           S == Reached(k.d, {})
           p == MotionSteps(R, t)
           q == MotionSteps(S, t)
           x1 == Seqs!FoldLeft(MotionOf, x, t.children)
           y1 == Seqs!FoldLeft(MotionOf, y, t.children)
<1>1. x \in R /\ y \in S /\ N \in Nat /\ \A i \in 1..N : t.children[i] \in Children(t)
  BY DEF Follows, IsTag, Children
<1>2. Folds(p, R, x, x1, N) /\ Folds(q, S, y, y1, N)
  BY <1>1, MotionFolds
<1>3. /\ \A i \in 1..N, a \in R : p[i][a] = MotionOf(a, t.children[i])
      /\ \A i \in 1..N, b \in S : q[i][b] = MotionOf(b, t.children[i])
  BY MotionStepsAre
<1>4. XPC_parse_motion_segment(x, t) = x1 /\ XPC_parse_motion_segment(y, t) = y1
  BY DEF XPC_parse_motion_segment, MotionOf, Seqs!FoldLeft, Seqs!MapThenFoldSet
<1> HIDE DEF p, q, x1, y1, R, S, N
<1>5. ASSUME NEW i \in 1..N, NEW a, NEW b, Follows(k, a, b)
      PROVE  Follows(k, MotionOf(a, t.children[i]), MotionOf(b, t.children[i]))
  BY <1>1, <1>5, MotionAttrFollows DEF MotionOf
<1>6. Follows(k, x1, y1)
  <2>1. \A i \in 1..N, a \in R, b \in S : Follows(k, a, b) => Follows(k, p[i][a], q[i][b])
    BY <1>3, <1>5
  <2> QED
    BY <1>2, <2>1, FoldFollows DEF R, S
<1>7. ASSUME NEW i \in 1..N, t.children[i].name = "motion", ~NoAttributes(t.children[i]) PROVE Agree(x1)
  <2> DEFINE A == {a \in R : Agree(a)}
             kx(a) == [c |-> k.c, d |-> k.c, e |-> a, x |-> a, y |-> a]
  <2>1. ASSUME NEW a \in R PROVE Follows(kx(a), a, a)
    <3>1. kx(a).c = k.c /\ kx(a).d = k.c /\ kx(a).e = a /\ kx(a).x = a /\ kx(a).y = a
      OBVIOUS
    <3> HIDE DEF kx
    <3> QED
      BY <3>1 DEF Follows, Others, R
  <2>2. ASSUME NEW j \in 1..N, NEW a \in R PROVE p[j][a] \in R /\ (Agree(a) => Agree(p[j][a]))
    <3>1. p[j][a] \in R
      BY <1>1, <1>2 DEF Folds
    <3>2. kx(a).x = a
      OBVIOUS
    <3> HIDE DEF kx
    <3>3. CASE t.children[j].name # "motion"
      BY <1>3, <3>1, <3>3 DEF MotionOf
    <3>4. CASE t.children[j].name = "motion"
      <4>1. Follows(kx(a), MotionOf(a, t.children[j]), MotionOf(a, t.children[j]))
        BY <1>1, <2>1, <3>4, MotionAttrFollows DEF MotionOf
      <4> QED
        BY <1>3, <3>1, <3>2, <4>1 DEF Follows
    <3> QED
      BY <3>3, <3>4
  <2>3. ASSUME NEW a \in R PROVE Agree(p[i][a])
    <3> HIDE DEF kx
    <3>1. Agree(XPC_parse_motion_attr(a, t.children[i]))
      BY <1>1, <1>7, <2>1, MotionAttrFollows
    <3> QED
      BY <1>3, <1>7, <3>1 DEF MotionOf
  <2>4. x1 \in A
    <3>1. \A j \in 1..N, a \in R : a \in A => p[j][a] \in A
      BY <2>2
    <3>2. \A a \in R : p[i][a] \in A
      BY <2>2, <2>3
    <3> HIDE DEF A
    <3> QED
      BY <1>2, <3>1, <3>2, FoldReaches
  <2> QED
    BY <2>4
<1>8. (\E u \in Children(t) : u.name = "motion" /\ ~NoAttributes(u)) => Agree(x1)
  BY <1>7 DEF Children, IsTag, N
<1> QED
  BY <1>4, <1>6, <1>8

\* The thresholds of day and night.
LEMMA LuxesFollow ==
  ASSUME NEW k, NEW x, NEW y, Follows(k, x, y), NEW t, IsTag(t), \A u \in Children(t) : IsTag(u)
  PROVE  Follows(k, Luxes(x, t), Luxes(y, t))
<1> DEFINE N == Len(t.children)
           R == Reached(k.c, {})
           S == Reached(k.d, {})
           p == LuxSteps(R, t)
           q == LuxSteps(S, t)
<1>1. x \in R /\ y \in S /\ N \in Nat /\ \A i \in 1..N : t.children[i] \in Children(t)
  BY DEF Follows, IsTag, Children
<1>2. Folds(p, R, x, Luxes(x, t), N) /\ Folds(q, S, y, Luxes(y, t), N)
  BY <1>1, LuxFolds DEF Luxes
<1>3. /\ \A i \in 1..N, a \in R : p[i][a] = Lux(a, t.children[i])
      /\ \A i \in 1..N, b \in S : q[i][b] = Lux(b, t.children[i])
  <2> HIDE DEF R, S
  <2> QED
    BY DEF LuxSteps
<1> HIDE DEF p, q, R, S, N
<1>4. ASSUME NEW i \in 1..N, NEW a, NEW b, Follows(k, a, b)
      PROVE  Follows(k, Lux(a, t.children[i]), Lux(b, t.children[i]))
  BY <1>1, <1>4, ThresholdAttrFollows DEF Lux
<1>5. \A i \in 1..N, a \in R, b \in S : Follows(k, a, b) => Follows(k, p[i][a], q[i][b])
  BY <1>3, <1>4
<1> QED
  BY <1>2, <1>5, FoldFollows DEF R, S

\* <system>.
LEMMA SystemSegmentFollows ==
  ASSUME NEW k, NEW x, NEW y, Follows(k, x, y), NEW t, IsTag(t),
         \A u \in Children(t) : IsTag(u) /\ \A v \in Children(u) : IsTag(v)
  PROVE  Follows(k, XPC_parse_system_segment(x, t), XPC_parse_system_segment(y, t))
<1> DEFINE N == Len(t.children)
           R == Reached(k.c, {})
           S == Reached(k.d, {})
           p == SystemSteps(R, t)
           q == SystemSteps(S, t)
           x1 == Seqs!FoldLeft(SystemOf, x, t.children)
           y1 == Seqs!FoldLeft(SystemOf, y, t.children)
<1>1. x \in R /\ y \in S /\ N \in Nat /\ \A i \in 1..N : t.children[i] \in Children(t)
  BY DEF Follows, IsTag, Children
<1>2. Folds(p, R, x, x1, N) /\ Folds(q, S, y, y1, N)
  BY <1>1, SystemFolds
<1>3. /\ \A i \in 1..N, a \in R : p[i][a] = SystemOf(a, t.children[i])
      /\ \A i \in 1..N, b \in S : q[i][b] = SystemOf(b, t.children[i])
  <2> HIDE DEF R, S
  <2> QED
    BY DEF SystemSteps
<1>4. XPC_parse_system_segment(x, t) = x1 /\ XPC_parse_system_segment(y, t) = y1
  BY DEF XPC_parse_system_segment, SystemOf, Luxes, Lux, Seqs!FoldLeft, Seqs!MapThenFoldSet
<1> HIDE DEF p, q, x1, y1, R, S, N
<1>5. ASSUME NEW i \in 1..N, NEW a, NEW b, Follows(k, a, b)
      PROVE  Follows(k, SystemOf(a, t.children[i]), SystemOf(b, t.children[i]))
  BY <1>1, <1>5, LuxesFollow DEF SystemOf
<1>6. \A i \in 1..N, a \in R, b \in S : Follows(k, a, b) => Follows(k, p[i][a], q[i][b])
  BY <1>3, <1>5
<1>7. Follows(k, x1, y1)
  BY <1>2, <1>6, FoldFollows DEF R, S
<1> QED
  BY <1>4, <1>7

\* The bit rates may be any, so only the last <LBR> has to be the same.
RatesFollow(k, s, z) == s.bitrate \in Bitrates /\ z.bitrate \in Bitrates /\ Follows(k, s.c, z.c)

\* One child of <segments>.
LEMMA ChildFollows ==
  ASSUME NEW k, NEW s \in BitrateAndSettings(k.c, {}), NEW z \in BitrateAndSettings(k.d, {}),
         RatesFollow(k, s, z), NEW t, IsTag(t)
  PROVE  RatesFollow(k, ChildOf(s, t), ChildOf(z, t))
<1> DEFINE B(r) == IF t.name = "LBR" THEN XPC_parse_lbr_attr(t) ELSE r.bitrate
           C1(r) == IF t.name = "H264" THEN XPC_parse_h264_attr(r.c, t) ELSE r.c
           Abr(r) == [C1(r).abr EXCEPT ![C1(r).resolution] = B(r)]
           C2(r) == Set(C1(r), "abr", Abr(r))
<1>1. B(s) \in Bitrates /\ B(z) \in Bitrates
  BY LbrAttr DEF RatesFollow
<1>2. Follows(k, C1(s), C1(z))
  BY H264AttrFollows DEF RatesFollow
<1> HIDE DEF B, C1
<1>3. Abr(s) \in [Resolutions -> Bitrates] /\ Abr(z) \in [Resolutions -> Bitrates]
  <2>1. C1(s)["abr"] \in [Resolutions -> Bitrates] /\ C1(z)["abr"] \in [Resolutions -> Bitrates]
    BY <1>2, FieldNames, FieldType DEF Follows, Reached
  <2>2. C1(s).abr = C1(s)["abr"] /\ C1(z).abr = C1(z)["abr"]
    OBVIOUS
  <2> QED
    BY <1>1, <2>1, <2>2
<1> HIDE DEF Abr
<1>4. Follows(k, C2(s), C2(z))
  BY <1>2, <1>3, FieldNames, FieldType, SetFollows
<1>5. ChildOf(s, t) = [bitrate |-> B(s), c |-> C2(s)] /\ ChildOf(z, t) = [bitrate |-> B(z), c |-> C2(z)]
  BY DEF ChildOf, B, C1, C2, Abr
<1> HIDE DEF C2
<1> QED
  BY <1>1, <1>4, <1>5 DEF RatesFollow

\* Folds over the children of <segments>, and of <cvr>.
LEMMA RatesFoldFollows ==
  ASSUME NEW k, NEW x, NEW y, RatesFollow(k, x, y), NEW N, NEW p, NEW q, NEW x1, NEW y1,
         Folds(p, BitrateAndSettings(k.c, {}), x, x1, N), Folds(q, BitrateAndSettings(k.d, {}), y, y1, N),
         \A i \in 1..N, a \in BitrateAndSettings(k.c, {}), b \in BitrateAndSettings(k.d, {}) :
           RatesFollow(k, a, b) => RatesFollow(k, p[i][a], q[i][b])
  PROVE  RatesFollow(k, x1, y1)
<1> DEFINE R == BitrateAndSettings(k.c, {})
           S == BitrateAndSettings(k.d, {})
           Q == {r \in R \X S : RatesFollow(k, r[1], r[2])}
<1>1. x \in R /\ y \in S /\ p \in [1..N -> [R -> R]] /\ q \in [1..N -> [S -> S]]
  BY DEF Folds
<1>2. \A a \in R, b \in S : <<a, b>> \in Q <=> RatesFollow(k, a, b)
  <2> HIDE DEF R, S
  <2> QED
    OBVIOUS
<1>3. \A a, b : <<a, b>> \in Q => RatesFollow(k, a, b)
  OBVIOUS
<1> HIDE DEF Q, R, S
<1>4. <<x, y>> \in Q
  BY <1>1, <1>2
<1>5. \A i \in 1..N, a \in R : p[i][a] \in R => a \in R
  OBVIOUS
<1>6. \A i \in 1..N, a \in R, b \in S :
        a \in R /\ p[i][a] \in R /\ <<a, b>> \in Q => <<p[i][a], q[i][b]>> \in Q
  <2>1. \A i \in 1..N, a \in R, b \in S : RatesFollow(k, a, b) => RatesFollow(k, p[i][a], q[i][b])
    BY DEF R, S
  <2> QED
    BY <1>1, <1>2, <2>1
<1>7. <<x1, y1>> \in Q
  <2>1. Folds(p, R, x, x1, N) /\ Folds(q, S, y, y1, N)
    BY DEF R, S
  <2>2. x1 \in R
    BY <2>1, FoldStays
  <2> QED
    BY <1>4, <1>5, <1>6, <2>1, <2>2, FoldsFollow
<1> QED
  BY <1>3, <1>7

\* <segments>.
LEMMA SegmentsFollow ==
  ASSUME NEW k, NEW x \in BitrateAndSettings(k.c, {}), NEW y \in BitrateAndSettings(k.d, {}),
         RatesFollow(k, x, y), NEW t, IsTag(t), \A u \in Children(t) : IsTag(u)
  PROVE  RatesFollow(k, SegmentsOf(x, t), SegmentsOf(y, t))
<1> DEFINE N == Len(t.children)
           R == BitrateAndSettings(k.c, {})
           S == BitrateAndSettings(k.d, {})
           p == ChildSteps(R, t)
           q == ChildSteps(S, t)
           x1 == Seqs!FoldLeft(ChildOf, SegmentsStart(x, t), t.children)
           y1 == Seqs!FoldLeft(ChildOf, SegmentsStart(y, t), t.children)
<1>1. N \in Nat /\ \A i \in 1..N : t.children[i] \in Children(t)
  BY DEF IsTag, Children
<1>2. SegmentsStart(x, t) \in R /\ SegmentsStart(y, t) \in S
  BY SegmentsStartStays
<1>3. RatesFollow(k, SegmentsStart(x, t), SegmentsStart(y, t))
  <2>1. Follows(k, XPC_parse_segments_attr(x.c, t), XPC_parse_segments_attr(y.c, t))
    BY SegmentsAttrFollows DEF RatesFollow
  <2>2. /\ x = [bitrate |-> x.bitrate, c |-> x.c] /\ x.bitrate \in Bitrates
        /\ y = [bitrate |-> y.bitrate, c |-> y.c] /\ y.bitrate \in Bitrates
    BY DEF BitrateAndSettings
  <2>3. /\ SegmentsStart(x, t) = [bitrate |-> x.bitrate, c |-> XPC_parse_segments_attr(x.c, t)]
        /\ SegmentsStart(y, t) = [bitrate |-> y.bitrate, c |-> XPC_parse_segments_attr(y.c, t)]
    BY <2>2 DEF SegmentsStart
  <2> QED
    BY <2>1, <2>2, <2>3 DEF RatesFollow
<1>4. Folds(p, R, SegmentsStart(x, t), x1, N) /\ Folds(q, S, SegmentsStart(y, t), y1, N)
  BY <1>2, ChildFolds
<1>5. /\ \A i \in 1..N, a \in R : p[i][a] = ChildOf(a, t.children[i])
      /\ \A i \in 1..N, b \in S : q[i][b] = ChildOf(b, t.children[i])
  <2> HIDE DEF R, S
  <2> QED
    BY DEF ChildSteps
<1>6. /\ t.name = "segments" => SegmentsOf(x, t) = x1 /\ SegmentsOf(y, t) = y1
      /\ t.name # "segments" => SegmentsOf(x, t) = x /\ SegmentsOf(y, t) = y
  BY DEF SegmentsOf, SegmentsStart
<1> HIDE DEF p, q, x1, y1, N
<1>7. \A i \in 1..N, a \in R, b \in S : RatesFollow(k, a, b) => RatesFollow(k, p[i][a], q[i][b])
  BY <1>1, <1>5, ChildFollows
<1>8. RatesFollow(k, x1, y1)
  BY <1>3, <1>4, <1>7, RatesFoldFollows
<1> QED
  BY <1>6, <1>8

\* <cvr>.
LEMMA CvrSegmentFollows ==
  ASSUME NEW k, NEW x, NEW y, Follows(k, x, y), NEW t, IsTag(t),
         \A u \in Children(t) : IsTag(u) /\ \A v \in Children(u) : IsTag(v)
  PROVE  Follows(k, XPC_parse_cvr_segment(x, t), XPC_parse_cvr_segment(y, t))
<1> DEFINE N == Len(t.children)
           R == BitrateAndSettings(k.c, {})
           S == BitrateAndSettings(k.d, {})
           p == SegmentsSteps(R, t)
           q == SegmentsSteps(S, t)
           x1 == Seqs!FoldLeft(SegmentsOf, CvrStart(x, t), t.children)
           y1 == Seqs!FoldLeft(SegmentsOf, CvrStart(y, t), t.children)
<1>1. N \in Nat /\ \A i \in 1..N : t.children[i] \in Children(t)
  BY DEF IsTag, Children
<1>2. CvrStart(x, t) \in R /\ CvrStart(y, t) \in S
  BY CvrStartStays DEF Follows
<1>3. RatesFollow(k, CvrStart(x, t), CvrStart(y, t))
  BY CvrAttrFollows DEF RatesFollow, CvrStart, Uninitialized, Bitrates
<1>4. Folds(p, R, CvrStart(x, t), x1, N) /\ Folds(q, S, CvrStart(y, t), y1, N)
  BY <1>2, SegmentsFolds
<1>5. /\ \A i \in 1..N, a \in R : p[i][a] = SegmentsOf(a, t.children[i])
      /\ \A i \in 1..N, b \in S : q[i][b] = SegmentsOf(b, t.children[i])
  <2> HIDE DEF R, S
  <2> QED
    BY DEF SegmentsSteps
<1>6. XPC_parse_cvr_segment(x, t) = x1.c /\ XPC_parse_cvr_segment(y, t) = y1.c
  BY CvrSegmentIs
<1> HIDE DEF p, q, x1, y1, N
<1>7. \A i \in 1..N, a \in R, b \in S : RatesFollow(k, a, b) => RatesFollow(k, p[i][a], q[i][b])
  BY <1>1, <1>5, SegmentsFollow
<1>8. RatesFollow(k, x1, y1)
  BY <1>3, <1>4, <1>7, RatesFoldFollows
<1> QED
  BY <1>6, <1>8 DEF RatesFollow

-----------------------------------------------------------------------------
\* What is set in one data set.
LEMMA SetDatasetIs ==
  ASSUME NEW c0, NEW c \in Reached(c0, {}), NEW i \in 1..3, NEW f \in OfDataset, NEW v
  PROVE  /\ \A g \in Fields \ {"chg", "dataset"} : SetDataset(c, i, f, v)[g] = c[g]
         /\ \A j \in 1..3, g \in OfDataset :
              SetDataset(c, i, f, v)["dataset"][j][g] = IF j = i /\ g = f THEN v ELSE c["dataset"][j][g]
<1> DEFINE old == c["dataset"]
           new == [old EXCEPT ![i] = [old[i] EXCEPT ![f] = v]]
           chg == c["chg"] \/ old[i][f] # v
<1>1. c = [g \in Fields |-> c[g]] /\ old \in [1..3 -> Datasets] /\ old = c["dataset"]
  BY FieldType, FieldNames DEF Reached
<1>2. SetDataset(c, i, f, v) = [g \in Fields |-> IF g = "chg" THEN chg ELSE IF g = "dataset" THEN new ELSE c[g]]
  BY <1>1, FieldNames DEF SetDataset
<1>3. \A j \in 1..3, g \in OfDataset : new[j][g] = IF j = i /\ g = f THEN v ELSE old[j][g]
  <2>1. \A j \in 1..3 : DOMAIN old[j] = OfDataset
    BY <1>1 DEF Datasets, OfDataset
  <2> QED
    BY <1>1, <2>1
<1> HIDE DEF new, chg, old
<1> QED
  BY <1>1, <1>2, <1>3, FieldNames

\* A value of a data set.
LEMMA SetDatasetFollows ==
  ASSUME NEW k, NEW x, NEW y, Follows(k, x, y), NEW i \in 1..3, NEW f, NEW v,
         \/ f \in {"interval", "timeout"} /\ v \in Nat
         \/ f = "url" /\ v \in Urls
         \/ f = "auth" /\ v \in Texts
         \/ f = "enabled" /\ v \in Reports
  PROVE  Follows(k, SetDataset(x, i, f, v), SetDataset(y, i, f, v))
<1> DEFINE x1 == SetDataset(x, i, f, v)
           y1 == SetDataset(y, i, f, v)
<1>1. x \in Reached(k.c, {}) /\ y \in Reached(k.d, {}) /\ f \in OfDataset
  BY DEF Follows, OfDataset
<1>2. x1 \in Reached(k.c, {}) /\ y1 \in Reached(k.d, {})
  BY <1>1, SetDatasetStays
<1>3. /\ \A g \in Fields \ {"chg", "dataset"} : x1[g] = x[g]
      /\ \A j \in 1..3, g \in OfDataset :
           x1["dataset"][j][g] = IF j = i /\ g = f THEN v ELSE x["dataset"][j][g]
  BY <1>1, SetDatasetIs
<1>4. /\ \A g \in Fields \ {"chg", "dataset"} : y1[g] = y[g]
      /\ \A j \in 1..3, g \in OfDataset :
           y1["dataset"][j][g] = IF j = i /\ g = f THEN v ELSE y["dataset"][j][g]
  BY <1>1, SetDatasetIs
<1> HIDE DEF x1, y1
<1>5. Others(k.e, x1, y1)
  <2>1. \A g \in Plain : y1[g] = x1[g] \/ y1[g] = k.e[g]
    BY <1>3, <1>4 DEF Follows, Others, Plain
  <2>2. ASSUME NEW j \in 1..3, NEW g \in OfDataset
        PROVE  y1["dataset"][j][g] = x1["dataset"][j][g] \/ y1["dataset"][j][g] = k.e["dataset"][j][g]
    BY <1>3, <1>4 DEF Follows, Others
  <2> QED
    BY <2>1, <2>2 DEF Others
<1>6. /\ x1["items"] = x["items"] /\ x1["trig"] = x["trig"]
      /\ y1["items"] = y["items"] /\ y1["trig"] = y["trig"]
      /\ x1["md_mode"] = x["md_mode"] /\ x1["mot"] = x["mot"]
  BY <1>3, <1>4, FieldNames
<1>7. Follows(k, x1, y1)
  BY <1>2, <1>5, <1>6 DEF Follows, Agree
<1> QED
  BY <1>7 DEF x1, y1

\* The attributes of a data set.
LEMMA DatasetAttrFollows ==
  ASSUME NEW k, NEW x, NEW y, Follows(k, x, y), NEW t, IsTag(t), NEW i \in 1..3
  PROVE  Follows(k, XPC_parse_dataset_attr(x, t, i), XPC_parse_dataset_attr(y, t, i))
<1> DEFINE u  == Url(t)
           to == XPC_append_mac_to_url(x, u)
           C1(c) == SetDataset(c, i, "interval", Period(t, "interval"))
           C2(c) == IF u = NoUrl \/ IsHttp(u) THEN C1(c) ELSE SetDataset(C1(c), i, "url", to)
           C3(c) == SetDataset(C2(c), i, "auth", Text(t, "auth"))
           C4(c) == SetDataset(C3(c), i, "timeout", Period(t, "timeout"))
<1>1. to \in Urls /\ to = XPC_append_mac_to_url(y, u)
  <2>1. u \in Urls
    BY Attributes
  <2>2. x.broken = {} /\ y.broken = {}
    BY DEF Follows, Reached
  <2> HIDE DEF u
  <2> QED
    BY <2>1, <2>2, TextsAssumption DEF XPC_append_mac_to_url, Urls, NoUrl
<1>2. Follows(k, C1(x), C1(y))
  BY Attributes, SetDatasetFollows
<1> HIDE DEF u, to
<1>3. Follows(k, C2(x), C2(y))
  BY <1>1, <1>2, SetDatasetFollows
<1>4. Follows(k, C3(x), C3(y))
  BY <1>3, Attributes, SetDatasetFollows
<1>5. Follows(k, C4(x), C4(y))
  BY <1>4, Attributes, SetDatasetFollows
<1>6. ~NoAttributes(t) => XPC_parse_dataset_attr(x, t, i) = C4(x) /\ XPC_parse_dataset_attr(y, t, i) = C4(y)
  BY <1>1 DEF XPC_parse_dataset_attr, u, to
<1>7. NoAttributes(t) => XPC_parse_dataset_attr(x, t, i) = x /\ XPC_parse_dataset_attr(y, t, i) = y
  BY DEF XPC_parse_dataset_attr
<1> QED
  BY <1>5, <1>6, <1>7

\* A child of <metrics>.
LEMMA DatasetFollows ==
  ASSUME NEW k, NEW x, NEW y, Follows(k, x, y), NEW t, IsTag(t)
  PROVE  Follows(k, DatasetOf(x, t), DatasetOf(y, t))
<1> DEFINE One(c, i, all) == SetDataset(XPC_parse_dataset_attr(c, t, i), i, "enabled", EnableOf(i, all, t))
<1>1. ASSUME NEW i \in 1..3, NEW all \in Reports PROVE Follows(k, One(x, i, all), One(y, i, all))
  BY DatasetAttrFollows, EnableStays, SetDatasetFollows
<1>2. Dataset1 \in Reports /\ Dataset2 \in Reports /\ Dataset3 \in Reports
  BY DEF Reports
<1>3. CASE t.name = "dataset1"
  BY <1>1, <1>2, <1>3 DEF DatasetOf
<1>4. CASE t.name = "dataset2"
  BY <1>1, <1>2, <1>4 DEF DatasetOf
<1>5. CASE t.name = "dataset3"
  BY <1>1, <1>2, <1>5 DEF DatasetOf
<1>6. CASE t.name \notin {"dataset1", "dataset2", "dataset3"}
  BY <1>6 DEF DatasetOf
<1> QED
  BY <1>3, <1>4, <1>5, <1>6

\* <metrics>.
LEMMA MetricsSegmentFollows ==
  ASSUME NEW k, NEW x, NEW y, Follows(k, x, y), NEW t, IsTag(t), \A u \in Children(t) : IsTag(u)
  PROVE  Follows(k, XPC_parse_metrics_segment(x, t), XPC_parse_metrics_segment(y, t))
<1> DEFINE N == Len(t.children)
           R == Reached(k.c, {})
           S == Reached(k.d, {})
           p == DatasetSteps(R, t)
           q == DatasetSteps(S, t)
           x1 == Seqs!FoldLeft(DatasetOf, x, t.children)
           y1 == Seqs!FoldLeft(DatasetOf, y, t.children)
<1>1. x \in R /\ y \in S /\ N \in Nat /\ \A i \in 1..N : t.children[i] \in Children(t)
  BY DEF Follows, IsTag, Children
<1>2. Folds(p, R, x, x1, N) /\ Folds(q, S, y, y1, N)
  BY <1>1, DatasetFolds
<1>3. /\ \A i \in 1..N, a \in R : p[i][a] = DatasetOf(a, t.children[i])
      /\ \A i \in 1..N, b \in S : q[i][b] = DatasetOf(b, t.children[i])
  <2> HIDE DEF R, S
  <2> QED
    BY DEF DatasetSteps
<1>4. XPC_parse_metrics_segment(x, t) = x1 /\ XPC_parse_metrics_segment(y, t) = y1
  BY MetricsSegmentIs
<1> HIDE DEF p, q, x1, y1, R, S, N
<1>5. ASSUME NEW i \in 1..N, NEW a, NEW b, Follows(k, a, b)
      PROVE  Follows(k, DatasetOf(a, t.children[i]), DatasetOf(b, t.children[i]))
  BY <1>1, <1>5, DatasetFollows
<1>6. \A i \in 1..N, a \in R, b \in S : Follows(k, a, b) => Follows(k, p[i][a], q[i][b])
  BY <1>3, <1>5
<1>7. Follows(k, x1, y1)
  BY <1>2, <1>6, FoldFollows DEF R, S
<1> QED
  BY <1>4, <1>7

-----------------------------------------------------------------------------
(* The event table, when the document comes again. *)

\* The entries with a name, the free ones, and the table after XPC_save_event_entry.
Tables == [1..EVENT_TRIGGER_ITEM_NUMBER_MAX -> Items]
Named(name) == name # ""
Free(item) == item.event_name = "" /\ item.enable = 0
Having(items, name) == {i \in Slots : items[i].event_name = name}
FreeSlots(items) == {i \in Slots : Free(items[i])}
Saved(items, name, enable, interval) ==
  [i \in DOMAIN items |->
     IF i \in EventSlot(items, name) THEN SaveItem(items[i], name, enable, interval) ELSE items[i]]

\* What a table that becomes e is like.
Leads(e, x) ==
  /\ \A i \in 1..EVENT_TRIGGER_ITEM_NUMBER_MAX :
       /\ e[i].event_name = x[i].event_name \/ Free(x[i])
       /\ e[i].event_name = "" => x[i] = e[i]
  /\ \A i, j \in Slots : e[i].event_name = x[j].event_name => x[i].event_name = e[i].event_name

\* The table of the second run has the names of the end, and in each entry what both runs saved in
\* it so far or what the first one left in the end.
Entries(e, x, y) ==
  \A i \in 1..EVENT_TRIGGER_ITEM_NUMBER_MAX :
    /\ y[i].event_name = e[i].event_name
    /\ x[i].event_name # e[i].event_name \/ e[i].event_name = "" => y[i] = e[i]
    /\ y[i].enable \in {x[i].enable, e[i].enable}
    /\ y[i].interval \in {x[i].interval, e[i].interval}
    /\ y[i].fixed \in {x[i].fixed, e[i].fixed}

\* The least slot of a set is one of them.
LEMMA LeastSlot ==
  ASSUME NEW S \in SUBSET Slots, S # {}
  PROVE  Sets!Min(S) \in S
<1>1. S \subseteq Nat
  BY SlotsAssumption DEF Slots
<1>2. PICK m \in S : \A n \in S : m <= n
  BY <1>1, Least
<1>3. \E l \in S : \A n \in S : l <= n
  BY <1>2
<1> QED
  BY <1>3 DEF Sets!Min

\* Where an event goes.
LEMMA SlotIs ==
  ASSUME NEW items, NEW name
  PROVE  /\ Having(items, name) # {} => EventSlot(items, name) = {Sets!Min(Having(items, name))}
         /\ Having(items, name) = {} /\ FreeSlots(items) # {}
              => EventSlot(items, name) = {Sets!Min(FreeSlots(items))}
         /\ Having(items, name) = {} /\ FreeSlots(items) = {} => EventSlot(items, name) = {}
BY DEF EventSlot, Having, FreeSlots, Free

\* The slot that an event is saved in, if any.
Takes(items, name, j) == j \in Slots /\ EventSlot(items, name) = {j}
WellPlaced(items, name, j) ==
  /\ Takes(items, name, j)
  /\ items[j].event_name = name \/ (Having(items, name) = {} /\ Free(items[j]))

\* The slot an event takes holds it or is free, and without one nothing changes.
LEMMA SlotCases ==
  ASSUME NEW items, NEW name
  PROVE  \/ \E j : WellPlaced(items, name, j)
         \/ Having(items, name) = {} /\ FreeSlots(items) = {} /\ EventSlot(items, name) = {}
<1>1. CASE Having(items, name) # {}
  <2>1. Sets!Min(Having(items, name)) \in Having(items, name)
    BY <1>1, LeastSlot DEF Having
  <2>2. EventSlot(items, name) = {Sets!Min(Having(items, name))}
    BY <1>1, SlotIs
  <2> QED
    BY <2>1, <2>2 DEF Having, Takes, WellPlaced
<1>2. CASE Having(items, name) = {} /\ FreeSlots(items) # {}
  <2>1. Sets!Min(FreeSlots(items)) \in FreeSlots(items)
    BY <1>2, LeastSlot DEF FreeSlots
  <2>2. EventSlot(items, name) = {Sets!Min(FreeSlots(items))}
    BY <1>2, SlotIs
  <2> QED
    BY <1>2, <2>1, <2>2 DEF FreeSlots, Takes, WellPlaced
<1>3. CASE Having(items, name) = {} /\ FreeSlots(items) = {}
  BY <1>3, SlotIs
<1> QED
  BY <1>1, <1>2, <1>3

\* The slots of the loop are entries of the table.
LEMMA SlotsAre == Slots \subseteq 1..EVENT_TRIGGER_ITEM_NUMBER_MAX
BY SlotsAssumption DEF Slots

\* What is in the table afterwards.
LEMMA SavedIs ==
  ASSUME NEW x \in Tables, NEW name, NEW enable, NEW interval, NEW j, Takes(x, name, j)
  PROVE  \A i \in 1..EVENT_TRIGGER_ITEM_NUMBER_MAX :
           Saved(x, name, enable, interval)[i]
             = IF i = j THEN SaveItem(x[i], name, enable, interval) ELSE x[i]
BY DEF Saved, Takes, Tables

\* Without a slot the table stays as it is.
LEMMA NotSavedIs ==
  ASSUME NEW x \in Tables, NEW name, NEW enable, NEW interval, EventSlot(x, name) = {}
  PROVE  Saved(x, name, enable, interval) = x
BY DEF Saved, Tables

\* What SaveItem makes of an entry.
SavedItem(new, item, name, enable, interval) ==
  /\ new.event_name = name /\ new.fixed = TRUE
  /\ new.enable = IF enable # -1 THEN enable
                  ELSE IF item.event_name = name THEN item.enable ELSE new.enable
  /\ new.interval = IF interval # -1 THEN interval
                    ELSE IF item.event_name = name THEN item.interval ELSE new.interval

\* What is written into the slot.
LEMMA SaveItemIs ==
  ASSUME NEW item, NEW name, NEW enable, NEW interval
  PROVE  SavedItem(SaveItem(item, name, enable, interval), item, name, enable, interval)
BY DEF SaveItem, SavedItem

\* An event that the table has is where it is in the end.
LEMMA SameHaving ==
  ASSUME NEW e, NEW x, Leads(e, x), NEW name, Named(name), Having(x, name) # {}
  PROVE  Having(e, name) = Having(x, name)
<1>1. PICK j \in Slots : x[j].event_name = name
  BY DEF Having
<1>2. \A i \in Slots : e[i].event_name = name => x[i].event_name = name
  BY <1>1 DEF Leads
<1>3. \A i \in Slots : x[i].event_name = name => e[i].event_name = name
  BY SlotsAre DEF Leads, Free, Named
<1> QED
  BY <1>2, <1>3 DEF Having

\* Saving an event does not get away from what leads to e.
LEMMA SavedBack ==
  ASSUME NEW e, NEW x \in Tables, NEW name, Named(name), NEW enable, NEW interval,
         Leads(e, Saved(x, name, enable, interval))
  PROVE  Leads(e, x)
<1> DEFINE x1 == Saved(x, name, enable, interval)
<1>1. CASE EventSlot(x, name) = {}
  BY <1>1, NotSavedIs
<1>2. CASE \E j : WellPlaced(x, name, j)
  <2>1. PICK j : WellPlaced(x, name, j)
    BY <1>2
  <2>2. j \in Slots /\ j \in 1..EVENT_TRIGGER_ITEM_NUMBER_MAX /\ Takes(x, name, j)
    BY <2>1, SlotsAre DEF Takes, WellPlaced
  <2>3. /\ x1[j].event_name = name
        /\ \A i \in 1..EVENT_TRIGGER_ITEM_NUMBER_MAX : i # j => x1[i] = x[i]
    <3>1. \A i \in 1..EVENT_TRIGGER_ITEM_NUMBER_MAX :
            x1[i] = IF i = j THEN SaveItem(x[i], name, enable, interval) ELSE x[i]
      BY <2>2, SavedIs
    <3>2. SavedItem(SaveItem(x[j], name, enable, interval), x[j], name, enable, interval)
      BY SaveItemIs
    <3> QED
      BY <2>2, <3>1, <3>2 DEF SavedItem
  <2> HIDE DEF x1
  <2>4. Leads(e, x1)
    BY DEF x1
  <2>5. e[j].event_name = name
    BY <2>2, <2>3, <2>4 DEF Leads, Free, Named
  <2>6. ASSUME NEW i \in 1..EVENT_TRIGGER_ITEM_NUMBER_MAX
        PROVE  /\ e[i].event_name = x[i].event_name \/ Free(x[i])
               /\ e[i].event_name = "" => x[i] = e[i]
    <3>1. CASE i = j
      BY <2>1, <2>5, <3>1 DEF WellPlaced, Named
    <3>2. CASE i # j
      BY <2>3, <2>4, <3>2 DEF Leads
    <3> QED
      BY <3>1, <3>2
  <2>7. ASSUME NEW i \in Slots, NEW l \in Slots, e[i].event_name = x[l].event_name
        PROVE  x[i].event_name = e[i].event_name
    <3>1. i \in 1..EVENT_TRIGGER_ITEM_NUMBER_MAX /\ l \in 1..EVENT_TRIGGER_ITEM_NUMBER_MAX
      BY SlotsAre
    <3>2. CASE e[i].event_name = ""
      BY <2>6, <3>1, <3>2
    <3>3. CASE e[i].event_name # ""
      <4>1. x1[l].event_name = x[l].event_name
        BY <2>1, <2>3, <2>7, <3>1, <3>3 DEF Free, WellPlaced
      <4>2. x1[i].event_name = e[i].event_name
        BY <2>4, <2>7, <4>1 DEF Leads
      <4>3. i = j => x[i].event_name = e[i].event_name
        BY <2>1, <2>2, <2>5, <2>7 DEF Having, WellPlaced
      <4> QED
        BY <2>3, <3>1, <4>2, <4>3
    <3> QED
      BY <3>2, <3>3
  <2> QED
    BY <2>6, <2>7 DEF Leads
<1> QED
  BY <1>1, <1>2, SlotCases

\* An event that is saved when the document comes again goes where it went.
LEMMA SavedFollows ==
  ASSUME NEW e, NEW x \in Tables, NEW y \in Tables, NEW name, Named(name), NEW enable, NEW interval,
         Leads(e, x), Leads(e, Saved(x, name, enable, interval)), Entries(e, x, y)
  PROVE  Entries(e, Saved(x, name, enable, interval), Saved(y, name, enable, interval))
<1> DEFINE x1 == Saved(x, name, enable, interval)
           y1 == Saved(y, name, enable, interval)
<1>1. Having(y, name) = Having(e, name)
  BY SlotsAre DEF Having, Entries
<1>2. CASE \E j : WellPlaced(x, name, j)
  <2>1. PICK j : WellPlaced(x, name, j)
    BY <1>2
  <2>2. j \in Slots /\ j \in 1..EVENT_TRIGGER_ITEM_NUMBER_MAX /\ Takes(x, name, j)
    BY <2>1, SlotsAre DEF Takes, WellPlaced
  <2>3. \A i \in 1..EVENT_TRIGGER_ITEM_NUMBER_MAX :
          x1[i] = IF i = j THEN SaveItem(x[i], name, enable, interval) ELSE x[i]
    BY <2>2, SavedIs
  <2>4. SavedItem(x1[j], x[j], name, enable, interval)
    <3>1. SavedItem(SaveItem(x[j], name, enable, interval), x[j], name, enable, interval)
      BY SaveItemIs
    <3> HIDE DEF x1
    <3> QED
      BY <2>2, <2>3, <3>1
  <2>5. x1[j].event_name = name
    BY <2>4 DEF SavedItem
  <2> HIDE DEF x1
  <2>6. Leads(e, x1)
    BY DEF x1
  <2>7. e[j].event_name = name
    BY <2>2, <2>5, <2>6 DEF Leads, Free, Named
  <2>8. Takes(y, name, j)
    <3>1. CASE Having(x, name) # {}
      <4>1. Having(y, name) = Having(x, name)
        BY <1>1, <3>1, SameHaving
      <4> QED
        BY <2>2, <3>1, <4>1, SlotIs DEF Takes
    <3>2. CASE Having(x, name) = {}
      <4>1. Having(x1, name) = {j}
        BY <2>2, <2>3, <2>5, <3>2, SlotsAre DEF Having
      <4>2. Having(e, name) = {j}
        BY <2>6, <4>1, SameHaving
      <4>3. Having(y, name) = {j} /\ Sets!Min({j}) \in {j}
        BY <1>1, <2>2, <4>2, LeastSlot
      <4>4. EventSlot(y, name) = {Sets!Min(Having(y, name))}
        BY <4>3, SlotIs
      <4> QED
        BY <2>2, <4>3, <4>4 DEF Takes
    <3> QED
      BY <3>1, <3>2
  <2>9. \A i \in 1..EVENT_TRIGGER_ITEM_NUMBER_MAX :
          y1[i] = IF i = j THEN SaveItem(y[i], name, enable, interval) ELSE y[i]
    BY <2>8, SavedIs
  <2> HIDE DEF y1
  <2>10. SavedItem(y1[j], y[j], name, enable, interval)
    <3>1. SavedItem(SaveItem(y[j], name, enable, interval), y[j], name, enable, interval)
      BY SaveItemIs
    <3> QED
      BY <2>2, <2>9, <3>1
  <2>11. y[j].event_name = name
    BY <2>2, <2>7 DEF Entries
  <2>13. y1[j].enable \in {x1[j].enable, e[j].enable} /\ y1[j].interval \in {x1[j].interval, e[j].interval}
    <3>1. CASE x[j].event_name = name
      <4>1. y[j].enable \in {x[j].enable, e[j].enable} /\ y[j].interval \in {x[j].interval, e[j].interval}
        BY <2>2 DEF Entries
      <4> QED
        BY <2>4, <2>10, <2>11, <3>1, <4>1 DEF SavedItem
    <3>2. CASE x[j].event_name # name
      <4>1. y[j] = e[j]
        BY <2>2, <2>7, <3>2 DEF Entries
      <4> QED
        BY <2>4, <2>10, <2>11, <4>1 DEF SavedItem
    <3> QED
      BY <3>1, <3>2
  <2>14. ASSUME NEW i \in 1..EVENT_TRIGGER_ITEM_NUMBER_MAX
         PROVE  /\ y1[i].event_name = e[i].event_name
                /\ x1[i].event_name # e[i].event_name \/ e[i].event_name = "" => y1[i] = e[i]
                /\ y1[i].enable \in {x1[i].enable, e[i].enable}
                /\ y1[i].interval \in {x1[i].interval, e[i].interval}
                /\ y1[i].fixed \in {x1[i].fixed, e[i].fixed}
    <3>1. CASE i = j
      BY <2>4, <2>5, <2>7, <2>10, <2>13, <3>1 DEF Named, SavedItem
    <3>2. CASE i # j
      <4>1. x1[i] = x[i] /\ y1[i] = y[i]
        BY <2>3, <2>9, <3>2
      <4> QED
        BY <4>1 DEF Entries
    <3> QED
      BY <3>1, <3>2
  <2>15. Entries(e, x1, y1)
    BY <2>14 DEF Entries
  <2> QED
    BY <2>15 DEF x1, y1
<1>3. CASE Having(x, name) = {} /\ FreeSlots(x) = {} /\ EventSlot(x, name) = {}
  <2>1. Having(y, name) = {}
    <3> SUFFICES ASSUME NEW i \in Slots, e[i].event_name = name PROVE FALSE
      BY <1>1 DEF Having
    <3>1. x[i].event_name # name /\ ~Free(x[i])
      BY <1>3 DEF Having, FreeSlots
    <3> QED
      BY <3>1, SlotsAre DEF Leads
  <2>2. FreeSlots(y) = {}
    <3> SUFFICES ASSUME NEW i \in Slots, Free(y[i]) PROVE FALSE
      BY DEF FreeSlots
    <3>1. i \in 1..EVENT_TRIGGER_ITEM_NUMBER_MAX /\ y[i].event_name = ""
      BY SlotsAre DEF Free
    <3>2. e[i].event_name = "" /\ y[i] = e[i] /\ x[i] = e[i]
      BY <3>1 DEF Entries, Leads
    <3> QED
      BY <1>3, <3>2 DEF FreeSlots
  <2>3. EventSlot(y, name) = {}
    BY <2>1, <2>2, SlotIs
  <2> QED
    BY <1>3, <2>3, NotSavedIs
<1> QED
  BY <1>2, <1>3, SlotCases

-----------------------------------------------------------------------------
(* <events> and the document, when it comes again. *)

\* What happens to the switch of the events.
Switch(e, x, y) ==
  \/ y["trig"] = e["trig"]
  \/ ComcastPartner /\ x["trig"] = AnyEnabled(x["items"]) /\ y["trig"] = AnyEnabled(y["items"])

\* k holds c, d and e, as above.
Again(k, x, y) ==
  /\ x \in Reached(k.c, {}) /\ y \in Reached(k.d, {})
  /\ Others(k.e, x, y)
  /\ Entries(k.e["items"], x["items"], y["items"]) /\ Switch(k.e, x, y)

\* The same with where the two are now, for a tag that leaves the events alone.
Here(k, x, y) == [c |-> k.c, d |-> k.d, e |-> k.e, x |-> x, y |-> y]

\* A tag that leaves the events alone.
LEMMA FollowsAgain ==
  ASSUME NEW k, NEW x, NEW y, Again(k, x, y)
  PROVE  /\ Follows(Here(k, x, y), x, y)
         /\ \A x1, y1 : Follows(Here(k, x, y), x1, y1) => Again(k, x1, y1)
<1> DEFINE h == Here(k, x, y)
<1>1. h.c = k.c /\ h.d = k.d /\ h.e = k.e /\ h.x = x /\ h.y = y
  BY DEF Here
<1> HIDE DEF h
<1>2. Follows(h, x, y)
  BY <1>1 DEF Again, Follows
<1>3. ASSUME NEW x1, NEW y1, Follows(h, x1, y1) PROVE Again(k, x1, y1)
  BY <1>1, <1>3 DEF Again, Follows, Switch
<1> QED
  BY <1>2, <1>3 DEF h

\* One run is followed by itself.
LEMMA FollowsItself ==
  ASSUME NEW c0, NEW x \in Reached(c0, {})
  PROVE  LET k == [c |-> c0, d |-> c0, e |-> x, x |-> x, y |-> x] IN
         /\ Follows(k, x, x)
         /\ \A x1, y1 : Follows(k, x1, y1) => x1["items"] = x["items"] /\ (Agree(x) => Agree(x1))
<1> DEFINE k == [c |-> c0, d |-> c0, e |-> x, x |-> x, y |-> x]
<1>1. k.c = c0 /\ k.d = c0 /\ k.e = x /\ k.x = x /\ k.y = x
  OBVIOUS
<1> HIDE DEF k
<1>2. Follows(k, x, x)
  BY <1>1 DEF Follows, Others
<1>3. \A x1, y1 : Follows(k, x1, y1) => x1["items"] = x["items"] /\ (Agree(x) => Agree(x1))
  BY <1>1 DEF Follows
<1> QED
  BY <1>2, <1>3 DEF k

\* The attributes of <events>.
LEMMA EventsAttrFollows ==
  ASSUME NEW k, NEW x, NEW y, Follows(k, x, y), NEW t, IsTag(t)
  PROVE  Follows(k, XPC_parse_events_attr(x, t), XPC_parse_events_attr(y, t))
<1> DEFINE quiet == Period(t, "quietInterval")
           C1(c) == SetUrl(c, "http_url", Url(t))
           C2(c) == Set(C1(c), "http_auth", Text(t, "auth"))
           C3(c) == [C2(c) EXCEPT !.event_quiet_time = quiet]
           C4(c) == Set(C3(c), "http_event_timeout", Period(t, "timeout"))
<1>1. Follows(k, C1(x), C1(y))
  BY Attributes, SetUrlFollows
<1>2. Follows(k, C2(x), C2(y))
  BY <1>1, Attributes, FieldNames, FieldType, SetFollows
<1>3. quiet \in Nat
  BY Attributes
<1> HIDE DEF C2, quiet
<1>4. ASSUME NEW c0, NEW c, C2(c) \in Reached(c0, {})
      PROVE  C3(c) \in Reached(c0, {})
             /\ \A g \in Fields : C3(c)[g] = IF g = "event_quiet_time" THEN quiet ELSE C2(c)[g]
  <2>1. C2(c) = [g \in Fields |-> C2(c)[g]] /\ C2(c)["chg"] \in BOOLEAN
    BY <1>4, FieldNames, FieldType DEF Reached
  <2> DEFINE new == [g \in Fields |-> IF g = "chg" THEN C2(c)["chg"]
                                      ELSE IF g = "event_quiet_time" THEN quiet ELSE C2(c)[g]]
  <2>2. new \in Reached(c0, {})
    <3>1. /\ "event_quiet_time" \in Fields \ {"chg", "broken", "trig", "items"}
          /\ "event_quiet_time" \in Unmarked /\ quiet \in FieldTypes["event_quiet_time"]
      BY <1>3, FieldNames, FieldType DEF Unmarked
    <3> QED
      BY <1>4, <2>1, <3>1, Replaced
  <2>3. C3(c) = new
    BY <2>1, FieldNames
  <2> QED
    BY <2>2, <2>3, FieldNames
<1> HIDE DEF C3
<1>5. Follows(k, C3(x), C3(y))
  <2>1. C2(x) \in Reached(k.c, {}) /\ C2(y) \in Reached(k.d, {})
    BY <1>2 DEF Follows
  <2>2. C3(x) \in Reached(k.c, {}) /\ C3(y) \in Reached(k.d, {})
    BY <1>4, <2>1
  <2>3. /\ \A g \in Fields : C3(x)[g] = IF g = "event_quiet_time" THEN quiet ELSE C2(x)[g]
        /\ \A g \in Fields : C3(y)[g] = IF g = "event_quiet_time" THEN quiet ELSE C2(y)[g]
    BY <1>4, <2>1
  <2>4. Others(k.e, C3(x), C3(y))
    <3>1. C3(x)["dataset"] = C2(x)["dataset"] /\ C3(y)["dataset"] = C2(y)["dataset"]
      BY <2>3, FieldNames
    <3>2. \A g \in Plain : C3(y)[g] = C3(x)[g] \/ C3(y)[g] = k.e[g]
      BY <1>2, <2>3 DEF Follows, Others, Plain
    <3> QED
      BY <1>2, <3>1, <3>2 DEF Follows, Others
  <2>5. /\ C3(x)["items"] = C2(x)["items"] /\ C3(x)["trig"] = C2(x)["trig"]
        /\ C3(y)["items"] = C2(y)["items"] /\ C3(y)["trig"] = C2(y)["trig"]
        /\ C3(x)["md_mode"] = C2(x)["md_mode"] /\ C3(x)["mot"] = C2(x)["mot"]
    BY <2>3, FieldNames
  <2> QED
    BY <1>2, <2>2, <2>4, <2>5 DEF Follows, Agree
<1>6. Follows(k, C4(x), C4(y))
  BY <1>5, Attributes, FieldNames, FieldType, SetFollows
<1> QED
  BY <1>6 DEF XPC_parse_events_attr, C2, C3, quiet

\* What saving an event changes when nothing fails.
LEMMA SaveIs ==
  ASSUME NEW c0, NEW c \in Reached(c0, {}), NEW enable \in Int, NEW interval \in Int, NEW name \in Texts
  PROVE  LET new == XPC_save_event_entry(c, enable, interval, name) IN
         /\ new \in Reached(c0, {}) /\ new["items"] = Saved(c["items"], name, enable, interval)
         /\ new["trig"] = IF ComcastPartner THEN AnyEnabled(new["items"]) ELSE c["trig"]
         /\ \A g \in Fields \ {"items", "trig", "chg"} : new[g] = c[g]
<1> DEFINE items == Saved(c["items"], name, enable, interval)
           c1    == [c EXCEPT !.items = items, !.chg = @ \/ items # c.items]
           chg   == c["chg"] \/ items # c["items"]
           any   == AnyEnabled(items)
           c2    == [g \in Fields |-> IF g = "chg" THEN chg ELSE IF g = "items" THEN items ELSE c[g]]
           new   == XPC_save_event_entry(c, enable, interval, name)
<1>1. c = [g \in Fields |-> c[g]] /\ c.items = c["items"] /\ c["broken"] = {}
  BY DEF Reached
<1>2. new = IF ComcastPartner THEN Set(c1, "trig", any) ELSE c1
  BY <1>1 DEF XPC_save_event_entry, Saved
<1>3. new \in Reached(c0, {})
  BY SaveEntry
<1> HIDE DEF items, new, any
<1>4. c1 = c2
  BY <1>1, FieldNames
<1>5. c2["broken"] = {} /\ c2.broken = c2["broken"]
  BY <1>1, FieldNames
<1>6. CASE ~ComcastPartner
  <2>1. new = c2
    BY <1>2, <1>4, <1>6
  <2> QED
    BY <1>3, <1>6, <2>1, FieldNames DEF items, new
<1>7. CASE ComcastPartner
  <2>1. new = [c2 EXCEPT !["trig"] = any, !.chg = @ \/ c2["trig"] # any]
    BY <1>2, <1>4, <1>5, <1>7 DEF Set
  <2>2. new["trig"] = any /\ new["items"] = items /\ \A g \in Fields \ {"items", "trig", "chg"} : new[g] = c[g]
    BY <2>1, FieldNames
  <2> QED
    BY <1>3, <1>7, <2>2 DEF items, any, new
<1> QED
  BY <1>6, <1>7

\* XPC_save_event_entry when the document comes again.
LEMMA SaveFollows ==
  ASSUME NEW k, NEW x, NEW y, Again(k, x, y), NEW enable \in Int, NEW interval \in Int,
         NEW name \in Texts, Named(name), Leads(k.e["items"], x["items"]),
         Leads(k.e["items"], XPC_save_event_entry(x, enable, interval, name)["items"])
  PROVE  Again(k, XPC_save_event_entry(x, enable, interval, name),
                  XPC_save_event_entry(y, enable, interval, name))
<1> DEFINE x1 == XPC_save_event_entry(x, enable, interval, name)
           y1 == XPC_save_event_entry(y, enable, interval, name)
<1>1. x \in Reached(k.c, {}) /\ y \in Reached(k.d, {})
  BY DEF Again
<1>2. /\ x1 \in Reached(k.c, {}) /\ x1["items"] = Saved(x["items"], name, enable, interval)
      /\ x1["trig"] = IF ComcastPartner THEN AnyEnabled(x1["items"]) ELSE x["trig"]
      /\ \A g \in Fields \ {"items", "trig", "chg"} : x1[g] = x[g]
  BY <1>1, SaveIs
<1>3. /\ y1 \in Reached(k.d, {}) /\ y1["items"] = Saved(y["items"], name, enable, interval)
      /\ y1["trig"] = IF ComcastPartner THEN AnyEnabled(y1["items"]) ELSE y["trig"]
      /\ \A g \in Fields \ {"items", "trig", "chg"} : y1[g] = y[g]
  BY <1>1, SaveIs
<1>4. Leads(k.e["items"], x1["items"])
  OBVIOUS
<1> HIDE DEF x1, y1
<1>5. Others(k.e, x1, y1)
  <2>1. x1["dataset"] = x["dataset"] /\ y1["dataset"] = y["dataset"]
    BY <1>2, <1>3, FieldNames
  <2>2. \A g \in Plain : y1[g] = x1[g] \/ y1[g] = k.e[g]
    BY <1>2, <1>3 DEF Again, Others, Plain
  <2> QED
    BY <2>1, <2>2 DEF Again, Others
<1>6. x["items"] \in Tables /\ y["items"] \in Tables
  BY <1>1, FieldNames, FieldType DEF Reached, Tables
<1>7. Entries(k.e["items"], x1["items"], y1["items"])
  BY <1>2, <1>3, <1>4, <1>6, SavedFollows DEF Again
<1>8. Switch(k.e, x1, y1)
  BY <1>2, <1>3 DEF Again, Switch
<1>9. Again(k, x1, y1)
  BY <1>2, <1>3, <1>5, <1>7, <1>8 DEF Again
<1> QED
  BY <1>9 DEF x1, y1

\* The steps of an <events> segment when nothing fails.
QuietOf(t) == IF NoAttributes(t) THEN -1 ELSE Period(t, "quietInterval")
EventsMotion(c, t) ==
  XPC_save_event_entry(XPC_parse_events_attr(c, t), FlagsOf(t).motion, QuietOf(t), "XFINITY_MOTION")
EventsHuman(c, t) ==
  XPC_save_event_entry(EventsMotion(c, t), FlagsOf(t).human, QuietOf(t), "XFINITY_MOTION_PEOPLE")
EventsDetect(c, t) == Set(EventsHuman(c, t), "human_detect", FlagsOf(t).human)
EventsTamper(c, t) ==
  XPC_save_event_entry(EventsDetect(c, t), FlagsOf(t).tamper, QuietOf(t), "XFINITY_MOTION_TAMPER")

\* <events> is its attributes and four kinds of events.
LEMMA EventsSegmentIs ==
  ASSUME NEW c, c.broken = {}, NEW t
  PROVE  XPC_parse_events_segment(c, t) = EventsTamper(c, t)
BY DEF XPC_parse_events_segment, EventsTamper, EventsDetect, EventsHuman, EventsMotion, QuietOf,
       FlagsOf, FlagOf, Seqs!FoldLeft, Seqs!MapThenFoldSet

\* The values of the attributes, and the names of the events.
LEMMA FlagTypes ==
  ASSUME NEW t, IsTag(t)
  PROVE  /\ QuietOf(t) \in Int
         /\ FlagsOf(t).motion \in Int /\ FlagsOf(t).human \in Int /\ FlagsOf(t).tamper \in Int
         /\ {"XFINITY_MOTION", "XFINITY_MOTION_PEOPLE", "XFINITY_MOTION_TAMPER"} \subseteq Texts
         /\ Named("XFINITY_MOTION") /\ Named("XFINITY_MOTION_PEOPLE") /\ Named("XFINITY_MOTION_TAMPER")
<1>1. QuietOf(t) \in Int
  BY Attributes DEF QuietOf
<1>2. FlagsOf(t).motion \in Int /\ FlagsOf(t).human \in Int /\ FlagsOf(t).tamper \in Int
  BY FlagsStay DEF Flags
<1> QED
  BY <1>1, <1>2, TextsAssumption DEF Named

\* If the segment leads to e, so does the table before it, and before each event.
LEMMA EventsBack ==
  ASSUME NEW c0, NEW x \in Reached(c0, {}), NEW t, IsTag(t), NEW e,
         Leads(e["items"], XPC_parse_events_segment(x, t)["items"])
  PROVE  /\ Leads(e["items"], x["items"]) /\ Leads(e["items"], XPC_parse_events_attr(x, t)["items"])
         /\ Leads(e["items"], EventsMotion(x, t)["items"]) /\ Leads(e["items"], EventsHuman(x, t)["items"])
         /\ Leads(e["items"], EventsDetect(x, t)["items"]) /\ Leads(e["items"], EventsTamper(x, t)["items"])
<1> DEFINE L(c) == Leads(e["items"], c["items"])
           h == [c |-> c0, d |-> c0, e |-> x, x |-> x, y |-> x]
<1>1. L(EventsTamper(x, t))
  BY EventsSegmentIs DEF Reached
<1>2. /\ XPC_parse_events_attr(x, t) \in Reached(c0, {})
      /\ XPC_parse_events_attr(x, t)["items"] = x["items"]
  <2>1. Follows(h, x, x)
    BY FollowsItself
  <2> HIDE DEF h
  <2>2. Follows(h, XPC_parse_events_attr(x, t), XPC_parse_events_attr(x, t))
    BY <2>1, EventsAttrFollows
  <2>3. XPC_parse_events_attr(x, t)["items"] = x["items"]
    BY <2>2, FollowsItself DEF h
  <2> QED
    BY <2>3, EventsAttr
<1>3. ASSUME NEW c \in Reached(c0, {}), NEW enable \in Int, NEW name \in Texts, Named(name)
      PROVE  /\ XPC_save_event_entry(c, enable, QuietOf(t), name) \in Reached(c0, {})
             /\ L(XPC_save_event_entry(c, enable, QuietOf(t), name)) => L(c)
  <2>1. c["items"] \in Tables
    BY FieldNames, FieldType DEF Reached, Tables
  <2> QED
    BY <1>3, <2>1, FlagTypes, SaveIs, SavedBack
<1> HIDE DEF L
<1>4. EventsMotion(x, t) \in Reached(c0, {}) /\ (L(EventsMotion(x, t)) => L(XPC_parse_events_attr(x, t)))
  BY <1>2, <1>3, FlagTypes DEF EventsMotion
<1>5. EventsHuman(x, t) \in Reached(c0, {}) /\ (L(EventsHuman(x, t)) => L(EventsMotion(x, t)))
  BY <1>3, <1>4, FlagTypes DEF EventsHuman
<1>6. EventsDetect(x, t) \in Reached(c0, {}) /\ EventsDetect(x, t)["items"] = EventsHuman(x, t)["items"]
  <2>1. EventsDetect(x, t) \in Reached(c0, {})
    BY <1>5, FlagTypes, FieldNames, FieldType, SetStays DEF EventsDetect
  <2>2. \A g \in Fields \ {"chg"} :
          EventsDetect(x, t)[g] = IF g = "human_detect" THEN FlagsOf(t).human ELSE EventsHuman(x, t)[g]
    BY <1>5, FieldNames, SetIs DEF EventsDetect
  <2> QED
    BY <2>1, <2>2, FieldNames
<1>7. L(EventsTamper(x, t)) => L(EventsDetect(x, t))
  BY <1>3, <1>6, FlagTypes DEF EventsTamper
<1> QED
  BY <1>1, <1>2, <1>4, <1>5, <1>6, <1>7 DEF L

\* <events>.
LEMMA EventsFollow ==
  ASSUME NEW k, NEW x, NEW y, Again(k, x, y), NEW t, IsTag(t),
         Leads(k.e["items"], XPC_parse_events_segment(x, t)["items"])
  PROVE  Again(k, XPC_parse_events_segment(x, t), XPC_parse_events_segment(y, t))
<1> DEFINE L(c) == Leads(k.e["items"], c["items"])
<1>1. x \in Reached(k.c, {}) /\ y \in Reached(k.d, {}) /\ x.broken = {} /\ y.broken = {}
  BY DEF Again, Reached
<1>2. /\ XPC_parse_events_segment(x, t) = EventsTamper(x, t)
      /\ XPC_parse_events_segment(y, t) = EventsTamper(y, t)
  BY <1>1, EventsSegmentIs
<1>3. /\ L(XPC_parse_events_attr(x, t)) /\ L(EventsMotion(x, t)) /\ L(EventsHuman(x, t))
      /\ L(EventsDetect(x, t)) /\ L(EventsTamper(x, t))
  BY <1>1, EventsBack
<1>4. Again(k, XPC_parse_events_attr(x, t), XPC_parse_events_attr(y, t))
  <2>1. Follows(Here(k, x, y), XPC_parse_events_attr(x, t), XPC_parse_events_attr(y, t))
    BY FollowsAgain, EventsAttrFollows
  <2> QED
    BY <2>1, FollowsAgain
<1>5. Again(k, EventsMotion(x, t), EventsMotion(y, t))
  BY <1>3, <1>4, FlagTypes, SaveFollows DEF EventsMotion
<1>6. Again(k, EventsHuman(x, t), EventsHuman(y, t))
  BY <1>3, <1>5, FlagTypes, SaveFollows DEF EventsHuman
<1>7. Again(k, EventsDetect(x, t), EventsDetect(y, t))
  <2>1. Follows(Here(k, EventsHuman(x, t), EventsHuman(y, t)), EventsDetect(x, t), EventsDetect(y, t))
    BY <1>6, FlagTypes, FollowsAgain, SetFollows, FieldNames, FieldType DEF EventsDetect
  <2> QED
    BY <1>6, <2>1, FollowsAgain
<1>8. Again(k, EventsTamper(x, t), EventsTamper(y, t))
  BY <1>3, <1>7, FlagTypes, SaveFollows DEF EventsTamper
<1> QED
  BY <1>2, <1>8

\* The event table apart, the segment leaves motion detection alone.
LEMMA EventsKeep ==
  ASSUME NEW c0, NEW x \in Reached(c0, {}), NEW t, IsTag(t)
  PROVE  Agree(x) => Agree(XPC_parse_events_segment(x, t))
<1> DEFINE h == [c |-> c0, d |-> c0, e |-> x, x |-> x, y |-> x]
<1>1. XPC_parse_events_segment(x, t) = EventsTamper(x, t)
  BY EventsSegmentIs DEF Reached
<1>2. XPC_parse_events_attr(x, t) \in Reached(c0, {}) /\ (Agree(x) => Agree(XPC_parse_events_attr(x, t)))
  <2>1. Follows(h, x, x)
    BY FollowsItself
  <2> HIDE DEF h
  <2>2. Follows(h, XPC_parse_events_attr(x, t), XPC_parse_events_attr(x, t))
    BY <2>1, EventsAttrFollows
  <2>3. Agree(x) => Agree(XPC_parse_events_attr(x, t))
    BY <2>2, FollowsItself DEF h
  <2> QED
    BY <2>3, EventsAttr
<1>3. ASSUME NEW c \in Reached(c0, {}), NEW enable \in Int, NEW name \in Texts
      PROVE  /\ XPC_save_event_entry(c, enable, QuietOf(t), name) \in Reached(c0, {})
             /\ Agree(c) => Agree(XPC_save_event_entry(c, enable, QuietOf(t), name))
  <2>1. /\ XPC_save_event_entry(c, enable, QuietOf(t), name)["mot"] = c["mot"]
        /\ XPC_save_event_entry(c, enable, QuietOf(t), name)["md_mode"] = c["md_mode"]
    BY FlagTypes, FieldNames, SaveIs
  <2> QED
    BY <2>1, FlagTypes, SaveEntry DEF Agree
<1>4. EventsMotion(x, t) \in Reached(c0, {}) /\ (Agree(x) => Agree(EventsMotion(x, t)))
  BY <1>2, <1>3, FlagTypes DEF EventsMotion
<1>5. EventsHuman(x, t) \in Reached(c0, {}) /\ (Agree(x) => Agree(EventsHuman(x, t)))
  BY <1>3, <1>4, FlagTypes DEF EventsHuman
<1>6. EventsDetect(x, t) \in Reached(c0, {}) /\ (Agree(x) => Agree(EventsDetect(x, t)))
  <2>1. EventsDetect(x, t) \in Reached(c0, {})
    BY <1>5, FlagTypes, FieldNames, FieldType, SetStays DEF EventsDetect
  <2>2. \A g \in Fields \ {"chg"} :
          EventsDetect(x, t)[g] = IF g = "human_detect" THEN FlagsOf(t).human ELSE EventsHuman(x, t)[g]
    BY <1>5, FieldNames, SetIs DEF EventsDetect
  <2> QED
    BY <1>5, <2>1, <2>2, FieldNames DEF Agree
<1> QED
  BY <1>1, <1>3, <1>6, FlagTypes DEF EventsTamper

-----------------------------------------------------------------------------
(* A whole document that comes again. *)

\* Tags three deep, as the children of a document.
IsSegment(t) == IsTag(t) /\ \A u \in Children(t) : IsTag(u) /\ \A v \in Children(u) : IsTag(v)

\* A child of the document but <events>.
LEMMA PlainSegmentFollows ==
  ASSUME NEW k, NEW x, NEW y, Follows(k, x, y), NEW t, IsSegment(t), t.name # "events"
  PROVE  Follows(k, SegmentOf(x, t), SegmentOf(y, t))
<1>1. IsTag(t) /\ \A u \in Children(t) : IsTag(u) /\ \A v \in Children(u) : IsTag(v)
  BY DEF IsSegment
<1>2. CASE t.name = "system"
  <2>1. SegmentOf(x, t) = XPC_parse_system_segment(x, t) /\ SegmentOf(y, t) = XPC_parse_system_segment(y, t)
    BY <1>2 DEF SegmentOf
  <2> QED
    BY <1>1, <2>1, SystemSegmentFollows
<1>3. CASE t.name = "cvr"
  <2>1. SegmentOf(x, t) = XPC_parse_cvr_segment(x, t) /\ SegmentOf(y, t) = XPC_parse_cvr_segment(y, t)
    BY <1>3 DEF SegmentOf
  <2> QED
    BY <1>1, <2>1, CvrSegmentFollows
<1>4. CASE t.name = "detection"
  <2>1. SegmentOf(x, t) = XPC_parse_motion_segment(x, t) /\ SegmentOf(y, t) = XPC_parse_motion_segment(y, t)
    BY <1>4 DEF SegmentOf
  <2> QED
    BY <1>1, <2>1, MotionSegmentFollows
<1>5. CASE t.name = "metrics"
  <2>1. SegmentOf(x, t) = XPC_parse_metrics_segment(x, t) /\ SegmentOf(y, t) = XPC_parse_metrics_segment(y, t)
    BY <1>5 DEF SegmentOf
  <2> QED
    BY <1>1, <2>1, MetricsSegmentFollows
<1>6. CASE t.name \notin {"system", "cvr", "events", "detection", "metrics"}
  BY <1>6 DEF SegmentOf
<1> QED
  BY <1>2, <1>3, <1>4, <1>5, <1>6

\* A child of the document.
LEMMA SegmentFollows ==
  ASSUME NEW k, NEW x, NEW y, Again(k, x, y), NEW t, IsSegment(t),
         Leads(k.e["items"], x["items"]), Leads(k.e["items"], SegmentOf(x, t)["items"])
  PROVE  Again(k, SegmentOf(x, t), SegmentOf(y, t))
<1>1. CASE t.name = "events"
  <2>1. SegmentOf(x, t) = XPC_parse_events_segment(x, t) /\ SegmentOf(y, t) = XPC_parse_events_segment(y, t)
    BY <1>1 DEF SegmentOf
  <2> QED
    BY <2>1, EventsFollow DEF IsSegment
<1>2. CASE t.name # "events"
  BY <1>2, FollowsAgain, PlainSegmentFollows
<1> QED
  BY <1>1, <1>2

\* Only <events> touches the table, and it does not get away from where the table leads.
LEMMA SegmentBack ==
  ASSUME NEW c0, NEW x \in Reached(c0, {}), NEW t, IsSegment(t), NEW e,
         Leads(e["items"], SegmentOf(x, t)["items"])
  PROVE  Leads(e["items"], x["items"])
<1> DEFINE h == [c |-> c0, d |-> c0, e |-> x, x |-> x, y |-> x]
<1>1. CASE t.name # "events"
  <2>1. Follows(h, SegmentOf(x, t), SegmentOf(x, t))
    BY <1>1, FollowsItself, PlainSegmentFollows
  <2>2. SegmentOf(x, t)["items"] = x["items"]
    BY <2>1, FollowsItself
  <2> QED
    BY <2>2
<1>2. CASE t.name = "events"
  <2>1. SegmentOf(x, t) = XPC_parse_events_segment(x, t)
    BY <1>2 DEF SegmentOf
  <2> QED
    BY <2>1, EventsBack DEF IsSegment
<1> QED
  BY <1>1, <1>2

\* Once motion detection is the same in both places it stays so.
LEMMA SegmentKeeps ==
  ASSUME NEW c0, NEW x \in Reached(c0, {}), NEW t, IsSegment(t)
  PROVE  Agree(x) => Agree(SegmentOf(x, t))
<1> DEFINE h == [c |-> c0, d |-> c0, e |-> x, x |-> x, y |-> x]
<1>1. CASE t.name # "events"
  <2>1. Follows(h, SegmentOf(x, t), SegmentOf(x, t))
    BY <1>1, FollowsItself, PlainSegmentFollows
  <2> QED
    BY <2>1, FollowsItself
<1>2. CASE t.name = "events"
  <2>1. SegmentOf(x, t) = XPC_parse_events_segment(x, t)
    BY <1>2 DEF SegmentOf
  <2> QED
    BY <2>1, EventsKeep DEF IsSegment
<1> QED
  BY <1>1, <1>2

\* A <motion> with attributes makes it so.
LEMMA SegmentSpeaks ==
  ASSUME NEW c0, NEW x \in Reached(c0, {}), NEW t, IsSegment(t),
         t.name = "detection", \E u \in Children(t) : u.name = "motion" /\ ~NoAttributes(u)
  PROVE  Agree(SegmentOf(x, t))
<1> DEFINE h == [c |-> c0, d |-> c0, e |-> x, x |-> x, y |-> x]
<1>1. Follows(h, x, x)
  BY FollowsItself
<1>2. SegmentOf(x, t) = XPC_parse_motion_segment(x, t)
  BY DEF SegmentOf
<1> HIDE DEF h
<1>3. Agree(XPC_parse_motion_segment(x, t))
  BY <1>1, MotionSegmentFollows DEF IsSegment
<1> QED
  BY <1>2, <1>3

\* The whole document, from settings c and then from what became of them.
LEMMA AppliedTwice ==
  ASSUME NEW k, NEW x, NEW y, Again(k, x, y), NEW t, IsDocument(t),
         k.e = Seqs!FoldLeft(SegmentOf, XPC_parse_config_attr(x, t), t.children)
  PROVE  Again(k, k.e, Seqs!FoldLeft(SegmentOf, XPC_parse_config_attr(y, t), t.children))
<1> DEFINE N == Len(t.children)
           R == Reached(k.c, {})
           S == Reached(k.d, {})
           p == SegmentSteps(R, t)
           q == SegmentSteps(S, t)
           x0 == XPC_parse_config_attr(x, t)
           y0 == XPC_parse_config_attr(y, t)
           y1 == Seqs!FoldLeft(SegmentOf, y0, t.children)
           E == {a \in R : Leads(k.e["items"], a["items"])}
           Q == {r \in R \X S : Again(k, r[1], r[2])}
<1>1. N \in Nat /\ \A i \in 1..N : t.children[i] \in Children(t) /\ IsSegment(t.children[i])
  BY DEF IsDocument, IsTag, Children, IsSegment
<1>2. Again(k, x0, y0)
  <2>1. Follows(Here(k, x, y), x0, y0)
    BY FollowsAgain, ConfigAttrFollows DEF IsDocument
  <2> QED
    BY <2>1, FollowsAgain
<1>3. x0 \in R /\ y0 \in S
  BY <1>2 DEF Again
<1> HIDE DEF x0, y0
<1>4. Folds(p, R, x0, k.e, N) /\ Folds(q, S, y0, y1, N)
  BY <1>3, SegmentFolds DEF IsDocument, x0
<1>5. /\ \A i \in 1..N, a \in R : p[i][a] = SegmentOf(a, t.children[i])
      /\ \A i \in 1..N, b \in S : q[i][b] = SegmentOf(b, t.children[i])
  <2> HIDE DEF R, S
  <2> QED
    BY DEF SegmentSteps
<1>6. k.e \in R
  BY <1>4, FoldStays
<1>7. k.e \in E
  <2>1. Leads(k.e["items"], k.e["items"])
    BY SlotsAre DEF Leads
  <2> QED
    BY <1>6, <2>1
<1> HIDE DEF p, q, y1
<1>8. ASSUME NEW i \in 1..N, NEW a \in R, p[i][a] \in E PROVE a \in E
  <2>1. IsSegment(t.children[i]) /\ p[i][a] = SegmentOf(a, t.children[i])
    BY <1>1, <1>5
  <2>2. Leads(k.e["items"], SegmentOf(a, t.children[i])["items"])
    BY <1>8, <2>1
  <2>3. Leads(k.e["items"], a["items"])
    BY <2>1, <2>2, SegmentBack
  <2> QED
    BY <2>3
<1>9. /\ \A a \in R, b \in S : <<a, b>> \in Q <=> Again(k, a, b)
      /\ \A a, b : <<a, b>> \in Q => Again(k, a, b)
  <2> HIDE DEF R, S
  <2> QED
    OBVIOUS
<1>10. \A a \in E : a \in R /\ Leads(k.e["items"], a["items"])
  OBVIOUS
<1> HIDE DEF E, Q
<1>11. ASSUME NEW i \in 1..N, NEW a \in R, NEW b \in S, a \in E, p[i][a] \in E, <<a, b>> \in Q
       PROVE  <<p[i][a], q[i][b]>> \in Q
  <2>1. /\ IsSegment(t.children[i]) /\ Again(k, a, b)
        /\ Leads(k.e["items"], a["items"]) /\ Leads(k.e["items"], p[i][a]["items"])
    BY <1>1, <1>9, <1>10, <1>11
  <2>2. Again(k, SegmentOf(a, t.children[i]), SegmentOf(b, t.children[i]))
    BY <1>5, <2>1, SegmentFollows
  <2>3. Again(k, p[i][a], q[i][b])
    BY <1>5, <2>2
  <2>4. p[i][a] \in R /\ q[i][b] \in S
    BY <2>3 DEF Again
  <2> QED
    BY <1>9, <2>3, <2>4
<1>12. <<x0, y0>> \in Q
  BY <1>2, <1>3, <1>9
<1> HIDE DEF R, S
<1>13. <<k.e, y1>> \in Q
  BY <1>4, <1>7, <1>8, <1>11, <1>12, FoldsFollow
<1>14. Again(k, k.e, y1)
  BY <1>9, <1>13
<1> QED
  BY <1>14 DEF y1, y0

\* Once a document has switched motion detection it is the same in both places.
LEMMA DocumentSpeaks ==
  ASSUME NEW c0, NEW x \in Reached(c0, {}), NEW t, IsDocument(t), SwitchesMotion(t)
  PROVE  Agree(Seqs!FoldLeft(SegmentOf, XPC_parse_config_attr(x, t), t.children))
<1> DEFINE N == Len(t.children)
           R == Reached(c0, {})
           p == SegmentSteps(R, t)
           x0 == XPC_parse_config_attr(x, t)
           x1 == Seqs!FoldLeft(SegmentOf, x0, t.children)
           A == {a \in R : Agree(a)}
<1>1. /\ N \in Nat /\ \A i \in 1..N : IsSegment(t.children[i])
      /\ \A u \in Children(t) : \E i \in 1..N : u = t.children[i]
  BY DEF IsDocument, IsTag, Children, IsSegment
<1>2. x0 \in R
  BY ConfigAttr DEF IsDocument
<1>3. Folds(p, R, x0, x1, N)
  <2> HIDE DEF x0
  <2> QED
    BY <1>2, SegmentFolds DEF IsDocument
<1>4. \A i \in 1..N, a \in R : p[i][a] = SegmentOf(a, t.children[i])
  <2> HIDE DEF R
  <2> QED
    BY DEF SegmentSteps
<1>5. \A i \in 1..N, a \in R : p[i][a] \in R
  BY <1>3 DEF Folds
<1> HIDE DEF p, x0, x1, N
<1>6. \A i \in 1..N, a \in R : a \in A => p[i][a] \in A
  BY <1>1, <1>4, <1>5, SegmentKeeps
<1>7. \E i \in 1..N : \A a \in R : p[i][a] \in A
  <2>1. PICK i \in 1..N : t.children[i].name = "detection"
                          /\ \E u \in Children(t.children[i]) : u.name = "motion" /\ ~NoAttributes(u)
    BY <1>1 DEF SwitchesMotion
  <2>2. \A a \in R : p[i][a] \in A
    BY <1>1, <1>4, <1>5, <2>1, SegmentSpeaks
  <2> QED
    BY <2>2
<1>8. x1 \in A
  <2> HIDE DEF R, A
  <2> QED
    BY <1>3, <1>6, <1>7, FoldReaches
<1> QED
  BY <1>8 DEF x1, x0

\* Settings whose marks are taken away.
Unmark(c) == [c EXCEPT !.chg = FALSE, !.broken = {}]

\* Only the marks.
LEMMA UnmarkIs ==
  ASSUME NEW c, AreSettings(c)
  PROVE  /\ AreSettings(Unmark(c)) /\ Unmark(c)["chg"] = FALSE /\ Unmark(c)["broken"] = {}
         /\ \A g \in Fields \ {"chg", "broken"} : Unmark(c)[g] = c[g]
<1>1. c = [g \in Fields |-> c[g]] /\ \A g \in Fields : c[g] \in FieldTypes[g]
  BY DEF AreSettings
<1>2. Unmark(c) = [g \in Fields |-> IF g = "chg" THEN FALSE ELSE IF g = "broken" THEN {} ELSE c[g]]
  BY <1>1 DEF Unmark
<1> HIDE DEF Unmark
<1>3. ASSUME NEW g \in Fields PROVE Unmark(c)[g] \in FieldTypes[g]
  <2>1. CASE g = "chg"
    <3>1. Unmark(c)[g] = FALSE
      BY <1>2, <2>1
    <3>2. FieldTypes[g] = BOOLEAN
      BY <2>1, FieldType
    <3> QED
      BY <3>1, <3>2
  <2>2. CASE g = "broken"
    <3>1. Unmark(c)[g] = {}
      BY <1>2, <2>2
    <3>2. FieldTypes[g] = SUBSET Breakable
      BY <2>2, FieldType
    <3> QED
      BY <3>1, <3>2
  <2>3. CASE g # "chg" /\ g # "broken"
    <3>1. Unmark(c)[g] = c[g]
      BY <1>2, <2>3
    <3> QED
      BY <1>1, <3>1
  <2> QED
    BY <2>1, <2>2, <2>3
<1>4. Unmark(c) = [g \in Fields |-> Unmark(c)[g]]
  BY <1>2
<1>5. AreSettings(Unmark(c))
  BY <1>3, <1>4 DEF AreSettings
<1> QED
  BY <1>2, <1>5, FieldNames

\* What a document makes of settings when nothing fails, as P_Apply leaves it.
Result(c, t) == Unmark(XPC_apply_config(c, t, {}))

\* A document that is applied to what it made of c changes nothing but bit rates.
LEMMA AppliedSettles ==
  ASSUME NEW c, AreSettings(c), NEW t, IsDocument(t), NEW f, f = Result(c, t)
  PROVE  /\ Settings(XPC_apply_config(f, t, {})) = Settings(f)
         /\ SwitchesMotion(t) => f.md_mode = f.mot
<1> DEFINE e == XPC_apply_config(c, t, {})
           y == XPC_apply_config(f, t, {})
           k == [c |-> c, d |-> f, e |-> e]
<1>1. /\ e = Seqs!FoldLeft(SegmentOf, XPC_parse_config_attr(Unmark(c), t), t.children)
      /\ y = Seqs!FoldLeft(SegmentOf, XPC_parse_config_attr(Unmark(f), t), t.children)
  BY DEF XPC_apply_config, SegmentOf, Unmark, Seqs!FoldLeft, Seqs!MapThenFoldSet
<1>2. e \in Reached(c, {})
  BY Applied
<1> HIDE DEF e
<1>3. /\ AreSettings(f) /\ f["broken"] = {}
      /\ \A g \in Fields \ {"chg", "broken"} : f[g] = e[g]
  <2>1. AreSettings(e)
    BY <1>2 DEF Reached, AreSettings
  <2>2. f = Unmark(e)
    BY DEF Result, e
  <2> QED
    BY <2>1, <2>2, UnmarkIs
<1>4. y \in Reached(f, {})
  BY <1>3, Applied
<1>5. ASSUME NEW a, AreSettings(a)
      PROVE  /\ Unmark(a) \in Reached(a, {})
             /\ \A g \in Fields \ {"chg", "broken"} : Unmark(a)[g] = a[g]
  <2>1. Unmark(a) = [g \in Fields |-> Unmark(a)[g]] /\ \A g \in Fields : Unmark(a)[g] \in FieldTypes[g]
    BY <1>5, UnmarkIs DEF AreSettings
  <2>2. Unmark(a) \in [Fields -> UNION {FieldTypes[g] : g \in Fields}]
    BY <2>1
  <2>3. /\ Unmark(a)["broken"] = {} /\ Unmark(a)["trig"] = a["trig"] /\ Unmark(a)["items"] = a["items"]
        /\ \A g \in Fields \ {"chg", "broken"} : Unmark(a)[g] = a[g]
    BY <1>5, UnmarkIs, FieldNames
  <2>4. \A g \in Fields \ Unmarked : Unmark(a)[g] = a[g]
    BY <2>3 DEF Unmarked
  <2>5. Unmark(a) \in Reached(a, {})
    BY <2>1, <2>2, <2>3, <2>4 DEF Reached
  <2> QED
    BY <2>3, <2>5
<1>6. Unmark(c) \in Reached(c, {}) /\ Unmark(f) \in Reached(f, {})
  BY <1>3, <1>5
<1>7. \A g \in Fields \ {"chg", "broken"} : Unmark(f)[g] = e[g]
  BY <1>3, UnmarkIs
<1>8. k.c = c /\ k.d = f /\ k.e = e
  OBVIOUS
<1> HIDE DEF k
<1>9. Again(k, Unmark(c), Unmark(f))
  <2>1. /\ Unmark(f)["dataset"] = e["dataset"] /\ Unmark(f)["items"] = e["items"]
        /\ Unmark(f)["trig"] = e["trig"] /\ \A g \in Plain : Unmark(f)[g] = e[g]
    BY <1>7, FieldNames DEF Plain
  <2>2. Others(e, Unmark(c), Unmark(f))
    BY <2>1 DEF Others
  <2>3. Entries(e["items"], Unmark(c)["items"], Unmark(f)["items"])
    BY <2>1 DEF Entries
  <2>4. Switch(e, Unmark(c), Unmark(f))
    BY <2>1 DEF Switch
  <2> QED
    BY <1>6, <1>8, <2>2, <2>3, <2>4 DEF Again
<1> HIDE DEF y
<1>10. Again(k, e, y)
  BY <1>1, <1>8, <1>9, AppliedTwice
<1>11. \A g \in Fields \ {"abr", "chg"} : y[g] = f[g]
  <2>1. \A g \in Plain : y[g] = e[g]
    BY <1>8, <1>10 DEF Again, Others
  <2>2. y["dataset"] = e["dataset"]
    <3>1. y["dataset"] \in [1..3 -> Datasets] /\ e["dataset"] \in [1..3 -> Datasets]
      BY <1>2, <1>4, FieldNames, FieldType DEF Reached
    <3>2. \A i \in 1..3, g \in OfDataset : y["dataset"][i][g] = e["dataset"][i][g]
      BY <1>8, <1>10 DEF Again, Others
    <3>3. ASSUME NEW i \in 1..3 PROVE y["dataset"][i] = e["dataset"][i]
      <4>1. y["dataset"][i] \in Datasets /\ e["dataset"][i] \in Datasets
        BY <3>1
      <4>2. \A g \in OfDataset : y["dataset"][i][g] = e["dataset"][i][g]
        BY <3>2
      <4> QED
        BY <4>1, <4>2 DEF Datasets, OfDataset
    <3> QED
      BY <3>1, <3>3
  <2>3. y["items"] = e["items"]
    <3>1. y["items"] \in Tables /\ e["items"] \in Tables
      BY <1>2, <1>4, FieldNames, FieldType DEF Reached, Tables
    <3>2. Entries(e["items"], e["items"], y["items"])
      BY <1>8, <1>10 DEF Again
    <3>3. ASSUME NEW i \in 1..EVENT_TRIGGER_ITEM_NUMBER_MAX PROVE y["items"][i] = e["items"][i]
      <4>1. y["items"][i] \in Items /\ e["items"][i] \in Items
        BY <3>1 DEF Tables
      <4>2. /\ y["items"][i].event_name = e["items"][i].event_name
            /\ y["items"][i].enable = e["items"][i].enable
            /\ y["items"][i].interval = e["items"][i].interval
            /\ y["items"][i].fixed = e["items"][i].fixed
        BY <3>2 DEF Entries
      <4> QED
        BY <4>1, <4>2 DEF Items
    <3>4. /\ y["items"] = [i \in 1..EVENT_TRIGGER_ITEM_NUMBER_MAX |-> y["items"][i]]
          /\ e["items"] = [i \in 1..EVENT_TRIGGER_ITEM_NUMBER_MAX |-> e["items"][i]]
      BY <3>1 DEF Tables
    <3> QED
      BY <3>3, <3>4
  <2>4. y["trig"] = e["trig"]
    BY <1>8, <1>10, <2>3 DEF Again, Switch
  <2>5. y["broken"] = {} /\ f["broken"] = {}
    BY <1>3, <1>4, FieldNames DEF Reached
  <2>6. \A g \in Fields \ {"abr", "chg", "broken"} : y[g] = e[g]
    BY <2>1, <2>2, <2>3, <2>4 DEF Plain
  <2>7. \A g \in Fields \ {"chg", "broken"} : f[g] = e[g]
    BY <1>3
  <2> QED
    BY <2>5, <2>6, <2>7
<1>12. Settings(y) = Settings(f)
  <2>1. f = [g \in Fields |-> f[g]] /\ y = [g \in Fields |-> y[g]]
    BY <1>3, <1>4 DEF Reached, AreSettings
  <2> QED
    BY <1>11, <2>1 DEF Settings
<1>13. ASSUME SwitchesMotion(t) PROVE f.md_mode = f.mot
  <2>1. Agree(e)
    BY <1>1, <1>6, <1>13, DocumentSpeaks
  <2>2. f["md_mode"] = e["md_mode"] /\ f["mot"] = e["mot"]
    BY <1>3, FieldNames
  <2> QED
    BY <2>1, <2>2 DEF Agree
<1> QED
  BY <1>12, <1>13 DEF y

\* Where the settings come from before they are read again.
FromDocument ==
  pc = "reread" /\ last # None =>
    /\ last \in Docs
    /\ \E c : /\ AreSettings(c)
              /\ conf = Result(c, last)

\* Only P_Apply gets there.
LEMMA Rereads ==
  ASSUME [Next]_vars, pc' = "reread"
  PROVE  P_Apply \/ (pc = "reread" /\ UNCHANGED <<conf, last>>)
<1>1. ASSUME NEW p \in Instances, Lock(p) PROVE pc = "reread" /\ UNCHANGED <<conf, last>>
  BY <1>1 DEF Lock, L_Create, L_Exists, L_Kill, L_Unlink, L_Write, XPC_exit, O_Stop, loop, rest, stored, Woken
<1>2. CASE SigUsr1 \/ TimePasses \/ UNCHANGED vars
  BY <1>2 DEF SigUsr1, TimePasses, Woken, vars, stored
<1>3. ASSUME NEW ok \in BOOLEAN, P_ReadInfo(ok) PROVE FALSE
  BY <1>3 DEF P_ReadInfo, At
<1>4. ASSUME NEW d, P_Received(d) PROVE FALSE
  BY <1>4 DEF P_Received, At
<1>5. ASSUME NEW u \in BOOLEAN, P_Failed(u) PROVE FALSE
  BY <1>5 DEF P_Failed, At
<1>6. ~(P_Leave \/ P_TooEarly \/ P_WaitOver \/ P_Begin \/ P_Request \/ P_GiveUp \/ retryAtExpRate)
  BY DEF P_Leave, P_TooEarly, P_WaitOver, P_Begin, P_Request, P_GiveUp, retryAtExpRate, At
<1>7. ~(P_Parse \/ P_DoubleFree \/ P_ApplyNothing \/ P_ApplyFails \/ P_SaveFails \/ P_Reread \/ P_RereadFails)
  BY DEF P_Parse, P_DoubleFree, P_ApplyNothing, P_ApplyFails, P_SaveFails, P_Reread, P_RereadFails,
         Failure, Crash, AfterWait, At
<1> QED
  BY <1>1, <1>2, <1>3, <1>4, <1>5, <1>6, <1>7 DEF Next, Loop

LEMMA FromDocumentStep ==
  ASSUME Stored, FromDocument, [Next]_vars
  PROVE  FromDocument'
<1> SUFFICES ASSUME pc' = "reread", last' # None
             PROVE  /\ last' \in Docs
                    /\ \E c : /\ AreSettings(c)
                              /\ conf' = Result(c, last')
  BY DEF FromDocument
<1>1. CASE P_Apply
  <2>1. PICK b \in Broken : /\ conf' = [XPC_apply_config(conf, content, b) EXCEPT !.chg = FALSE, !.broken = {}]
                            /\ last' = IF b = {} THEN content ELSE None
    BY <1>1 DEF P_Apply
  <2>2. b = {} /\ last' = content /\ content \in Docs
    BY <1>1, <2>1 DEF P_Apply
  <2>3. AreSettings(conf)
    BY DEF Stored
  <2>4. conf' = Result(conf, last')
    BY <2>1, <2>2 DEF Result, Unmark
  <2> QED
    BY <2>2, <2>3, <2>4
<1>2. CASE pc = "reread" /\ UNCHANGED <<conf, last>>
  BY <1>2 DEF FromDocument
<1> QED
  BY <1>1, <1>2, Rereads

LEMMA FromDocumentSettles == FromDocument => Settled
<1> SUFFICES ASSUME FromDocument, pc = "reread", last # None
             PROVE  /\ Settings(XPC_apply_config(conf, last, {})) = Settings(conf)
                    /\ SwitchesMotion(last) => conf.md_mode = conf.mot
  BY DEF Settled
<1>1. PICK c : /\ AreSettings(c)
               /\ conf = Result(c, last)
  BY DEF FromDocument
<1>2. IsDocument(last)
  BY SettingsAssumption DEF FromDocument
<1> QED
  BY <1>1, <1>2, AppliedSettles

\* Whatever document was applied without a failure, it changes nothing if it comes again, and motion
\* detection is the same in usr_config and in All_Conf once it was switched (XPC_apply_config).
THEOREM DocumentsSettle == Spec => []Settled
<1>1. Init => FromDocument
  BY DEF Init, FromDocument
<1>2. Stored /\ FromDocument /\ [Next]_vars => FromDocument'
  BY FromDocumentStep
<1>3. FromDocument => Settled
  BY FromDocumentSettles
<1> QED
  BY <1>1, <1>2, <1>3, AlwaysStored, PTL DEF Spec
====
