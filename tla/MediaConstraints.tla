-------------------------- MODULE MediaConstraints --------------------------
(***************************************************************************)
(* How lib/adapter.js rewrites the constraints of getUserMedia: for Chrome *)
(* (constraintsToChrome_, 352-401) into mandatory and optional parts, for  *)
(* Firefox before 38 (constraintsToFF37_, 2194-2236) into require and      *)
(* advanced ones.                                                          *)
(*                                                                         *)
(* Constraints are a record with the members that are present: require,    *)
(* advanced, mandatory, optional, and settings, a function from names of   *)
(* settings to what is asked of them.  That is a record with the present   *)
(* ones of exact, ideal, min and max.  A bare value is the ideal one, and  *)
(* was made a record before.  A value is one of Numbers, or else a text.   *)
(***************************************************************************)
EXTENDS Integers, Sequences, SequencesExt, Selection

Has(r, field) == field \in DOMAIN r
Without(r, fields) == [f \in DOMAIN r \ fields |-> r[f]]
\* The members of r, and those of s that r has not.
With(r, s) == [f \in DOMAIN r \union DOMAIN s |-> IF f \in DOMAIN r THEN r[f] ELSE s[f]]
Member(r, field, default) == IF Has(r, field) THEN r[field] ELSE default

\* Values that are numbers; Numbers is the part of them that is modelled.
CONSTANT Numbers

\* A name of the old style: a limit and a setting, or the setting alone.
OldName(prefix, name) ==
  <<prefix, IF prefix = "" /\ name = "deviceId" THEN "sourceId" ELSE name>>

\* What is asked of a setting, once an exact number became its own limits.
LimitsKept(r) == IF Has(r, "exact") /\ r.exact \in Numbers
                 THEN With(r, [min |-> r.exact, max |-> r.exact]) ELSE r
Limits(r) == IF Has(r, "exact") /\ r.exact \in Numbers
             THEN With([min |-> r.exact, max |-> r.exact], r) ELSE r

\* Constraints of the old style are left as they are.
OldStyle(c) == Has(c, "mandatory") \/ Has(c, "optional")

\* The order of the keys of an object is the order of names.
ConstraintsToChrome(c, names) ==
  LET asked == Filter(names, LAMBDA n : n \in DOMAIN c.settings)
      Optional(n) ==
        LET r == c.settings[n]
        IN IF ~Has(r, "ideal") THEN <<>>
           ELSE IF r.ideal \in Numbers
                THEN <<[key |-> OldName("min", n), value |-> r.ideal],
                       [key |-> OldName("max", n), value |-> r.ideal]>>
                ELSE <<[key |-> OldName("", n), value |-> r.ideal]>>
      Mandatory(n) ==
        LET r == Limits(c.settings[n])
        IN IF Has(r, "exact") /\ r.exact \notin Numbers
           THEN {<<OldName("", n), r.exact>>}
           ELSE {<<OldName(mix, n), r[mix]>> : mix \in {"min", "max"} \intersect DOMAIN r}
      mandatory == UNION {Mandatory(n) : n \in DOMAIN c.settings}
      optional == FlattenSeq([i \in DOMAIN asked |-> Optional(asked[i])])
                    \o Member(c, "advanced", <<>>)
  IN IF OldStyle(c) THEN c
     ELSE With([settings |-> <<>>],
            With(IF mandatory = {} THEN <<>> ELSE [mandatory |-> mandatory],
                 IF optional = <<>> /\ ~Has(c, "advanced") THEN <<>>
                 ELSE [optional |-> optional]))

\* An exact text replaces the record of its setting, but the record the code
\* goes on with is the old one: with an ideal value as well it is found empty
\* and the setting is deleted.  A bare text is [text |-> ...] here.
ConstraintsToFF37(c, names) ==
  LET asked == Filter(names, LAMBDA n : n \in DOMAIN c.settings)
      Limited(n) == {"min", "max", "exact"} \intersect DOMAIN c.settings[n] # {}
      Left(n) == Without(Limits(c.settings[n]), {"exact", "ideal"})
      Replaced(n) == /\ Has(c.settings[n], "exact")
                     /\ c.settings[n].exact \notin Numbers
      Deleted(n) == Has(c.settings[n], "ideal") /\ DOMAIN Left(n) = {}
      Advanced(n) ==
        LET r == c.settings[n]
        IN IF ~Has(r, "ideal") THEN <<>>
           ELSE <<[key |-> n, value |-> IF r.ideal \in Numbers
                     THEN [min |-> r.ideal, max |-> r.ideal]
                     ELSE [text |-> r.ideal]]>>
      advanced == Member(c, "advanced", <<>>)
                    \o FlattenSeq([i \in DOMAIN asked |-> Advanced(asked[i])])
      require == Filter(asked, Limited)
  IN IF Has(c, "require") THEN c
     ELSE With([settings |-> [n \in {m \in DOMAIN c.settings : ~Deleted(m)} |->
                  IF Replaced(n) THEN [text |-> c.settings[n].exact] ELSE Left(n)]],
            With(IF require = <<>> THEN <<>> ELSE [require |-> require],
                 IF advanced = <<>> /\ ~Has(c, "advanced") THEN <<>>
                 ELSE [advanced |-> advanced]))
=============================================================================
