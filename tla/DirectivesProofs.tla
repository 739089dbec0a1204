--------------------------- MODULE DirectivesProofs ---------------------------
(* Directives for files of any length, servers and arguments of any number. *)
EXTENDS Directives, TLAPS

(* What is on has been turned on by its directive, which set the rest.     *)
Settled(s) ==
  /\ conf[s]["enabled"] = "On" => \A f \in General : conf[s][f] # "null"
  /\ conf[s]["fraud_detection"] = "On" => \A f \in Fraud : conf[s][f] # "null"

ConfInv == TypeOK /\ \A s \in Server : Settled(s)

(* The groups of settings that a directive resets do not overlap.          *)
LEMMA Groups ==
  /\ General \cap Fraud = {}
  /\ {"enabled", "fraud_detection", "service_list"} \cap (General \cup Fraud) = {}
  /\ {"enabled", "fraud_detection", "service_list", "learning_mode"} \subseteq Field
  /\ General \subseteq Field /\ Fraud \subseteq Field /\ FraudField \subseteq Fraud
  /\ "learning_mode" \in Fraud
  BY DEF General, CookieField, SessionField, LogonField, ServiceField, Fraud, FraudField,
     Field

(* Before the file is read all settings are NULL.                          *)
LEMMA ConfInit == Init => ConfInv
  BY Groups, DirectivesAssumption DEF Init, ConfInv, TypeOK, Settled

(* One field is set, to something.                                         *)
LEMMA SetKeeps ==
  ASSUME ConfInv, NEW s \in Server, NEW f \in Field \ {"enabled", "fraud_detection"},
         NEW arg \in Text \cup Flag, Set(s, f, arg), url_store' = url_store
  PROVE  ConfInv'
<1>1. arg # "null"
  BY DirectivesAssumption DEF Flag
<1>2. TypeOK'
  BY DEF ConfInv, TypeOK, Set
<1>3. ASSUME NEW t \in Server
      PROVE  Settled(t)'
  BY <1>1, Groups DEF ConfInv, TypeOK, Settled, Set
<1>4. QED BY <1>2, <1>3 DEF ConfInv

(* MOD_MSHIELD_ENABLED keeps every server settled.                         *)
LEMMA EnabledKeeps ==
  ASSUME ConfInv, NEW s \in Server, NEW arg \in Flag, mshield_config_enabled(s, arg)
  PROVE  ConfInv'
<1> DEFINE c == [f \in Field |-> IF f = "enabled" THEN arg
                                 ELSE IF f = "fraud_detection" THEN "Off"
                                 ELSE IF f \in General THEN "default" ELSE conf[s][f]]
<1>1. conf' = [conf EXCEPT ![s] = c] /\ url_store' = url_store
  BY DEF mshield_config_enabled
<1>2. c \in [Field -> Text \cup Flag \cup {"null", "default"}]
  BY DEF ConfInv, TypeOK, Flag
<1>3. c["fraud_detection"] = "Off" /\ \A f \in General : c[f] = "default"
  BY Groups
<1> HIDE DEF c
<1>4. TypeOK'
  BY <1>1, <1>2 DEF ConfInv, TypeOK
<1>5. ASSUME NEW t \in Server
      PROVE  Settled(t)'
  BY <1>1, <1>3 DEF ConfInv, TypeOK, Settled
<1>6. QED BY <1>4, <1>5 DEF ConfInv

(* So does MOD_MSHIELD_FRAUD_DETECTION_ENABLED.                            *)
LEMMA FraudKeeps ==
  ASSUME ConfInv, NEW s \in Server, NEW arg \in Flag,
         mshield_config_fraud_detection_enabled(s, arg)
  PROVE  ConfInv'
<1> DEFINE c == [f \in Field |-> IF f = "fraud_detection" THEN "On"
                                 ELSE IF f \in Fraud THEN "default" ELSE conf[s][f]]
<1>1. CASE UNCHANGED <<conf, url_store>>
  BY <1>1 DEF ConfInv, TypeOK, Settled
<1>2. CASE /\ conf' = [conf EXCEPT ![s] = c]
           /\ url_store' = [url_store EXCEPT ![s] = [p \in Pattern |-> -1]]
  <2>1. c \in [Field -> Text \cup Flag \cup {"null", "default"}]
    BY DEF ConfInv, TypeOK, Flag
  <2>2. /\ \A f \in Fraud : c[f] = "default"
        /\ c["enabled"] = conf[s]["enabled"] /\ \A f \in General : c[f] = conf[s][f]
    BY Groups
  <2> HIDE DEF c
  <2>3. TypeOK'
    BY <1>2, <2>1 DEF ConfInv, TypeOK
  <2>4. ASSUME NEW t \in Server
        PROVE  Settled(t)'
    BY <1>2, <2>2 DEF ConfInv, TypeOK, Settled
  <2>5. QED BY <2>3, <2>4 DEF ConfInv
<1>3. QED BY <1>1, <1>2 DEF mshield_config_fraud_detection_enabled

(* An entry of MOD_MSHIELD_URL.                                            *)
LEMMA UrlsKeeps ==
  ASSUME ConfInv, NEW s \in Server, NEW p \in Pattern, NEW level \in Level,
         mshield_config_urls(s, p, level)
  PROVE  ConfInv'
<1>1. TypeOK'
  <2>1. CASE url_store' = url_store
    BY <2>1 DEF ConfInv, TypeOK, mshield_config_urls
  <2>2. CASE InRange(level) /\ url_store' = [url_store EXCEPT ![s][p] = level]
    <3> DEFINE L == (LEVEL_MIN .. LEVEL_MAX) \cup {-1}
    <3>1. level \in L
      BY <2>2 DEF InRange
    <3>2. url_store \in [Server -> [Pattern -> L]]
      BY DEF ConfInv, TypeOK
    <3> HIDE DEF L
    <3>3. url_store' \in [Server -> [Pattern -> L]]
      BY <2>2, <3>1, <3>2
    <3>4. QED BY <3>3 DEF L, ConfInv, TypeOK, mshield_config_urls
  <2>3. QED BY <2>1, <2>2 DEF mshield_config_urls
<1>2. \A t \in Server : Settled(t)'
  BY DEF ConfInv, Settled, mshield_config_urls
<1>3. QED BY <1>1, <1>2 DEF ConfInv

(* Every directive keeps every server settled.                             *)
LEMMA ConfStep == ConfInv /\ [Next]_vars => ConfInv'
<1> SUFFICES ASSUME ConfInv, [Next]_vars PROVE ConfInv'
  OBVIOUS
<1>0. CASE UNCHANGED <<conf, url_store>>
  BY <1>0 DEF ConfInv, TypeOK, Settled
<1>1. ASSUME NEW s \in Server, NEW arg \in Flag,
             \/ mshield_config_enabled(s, arg)
             \/ mshield_config_service_list_enabled(s, arg)
             \/ mshield_config_fraud_detection_enabled(s, arg)
             \/ mshield_config_fraud_learning_mode(s, arg)
      PROVE  ConfInv'
  <2>1. CASE mshield_config_service_list_enabled(s, arg)
    BY <1>0, <2>1, SetKeeps, Groups DEF mshield_config_service_list_enabled
  <2>2. CASE mshield_config_fraud_learning_mode(s, arg)
    BY <1>0, <2>2, SetKeeps, Groups DEF mshield_config_fraud_learning_mode
  <2>3. QED BY <1>1, <2>1, <2>2, EnabledKeeps, FraudKeeps
<1>2. ASSUME NEW s \in Server, NEW f \in GIVEN \cap General, NEW arg \in Arg(f),
             mshield_config_general(s, f, arg)
      PROVE  ConfInv'
  <2>1. f \in Field \ {"enabled", "fraud_detection"} /\ arg \in Text \cup Flag
    BY Groups DEF Arg
  <2>2. QED BY <1>2, <2>1, SetKeeps DEF mshield_config_general
<1>3. ASSUME NEW s \in Server, NEW f \in GIVEN \cap FraudField, NEW arg \in Text,
             mshield_config_fraud(s, f, arg)
      PROVE  ConfInv'
  <2>1. f \in Field \ {"enabled", "fraud_detection"}
    BY Groups
  <2>2. QED BY <1>0, <1>3, <2>1, SetKeeps DEF mshield_config_fraud
<1>4. ASSUME NEW s \in Server, NEW p \in Pattern, NEW level \in Level,
             mshield_config_urls(s, p, level)
      PROVE  ConfInv'
  BY <1>4, UrlsKeeps
<1>5. CASE UNCHANGED vars
  BY <1>0, <1>5 DEF vars
<1>6. QED BY <1>1, <1>2, <1>3, <1>4, <1>5 DEF Next

(* The settings keep their types, levels out of range being dropped.       *)
THEOREM ConfTypesCorrect == Spec => []TypeOK
<1>1. ConfInv => TypeOK
  BY DEF ConfInv
<1>2. QED BY <1>1, ConfInit, ConfStep, PTL DEF Spec

(* No file, however long and however ordered, turns the module or fraud    *)
(* detection on with a setting of it NULL, in a virtual host either.       *)
THEOREM CompleteCorrect == Spec => []Complete
<1>1. ConfInv => Complete
  BY DirectivesAssumption DEF ConfInv, Settled, Complete, Conf
<1>2. QED BY <1>1, ConfInit, ConfStep, PTL DEF Spec

-----------------------------------------------------------------------------
(* The file and the settings it comes to.                                  *)

Directive ==
  {d \in [server : Server, name : Field \cup Pattern, arg : Text \cup Flag \cup Level] :
     d.name \in {"learning_mode", "service_list"} => d.arg \in Flag}

Setting == General \cup FraudField \cup {"learning_mode", "service_list"}

(* The rule of the handlers themselves, which InForce is derived from: as  *)
(* that of the documents, but no Off of these three switches counts.       *)
TakesAt(s, i) ==
  \E j \in Of(s) :
    /\ j < i /\ file[j].name = "fraud_detection" /\ file[j].arg = "On"
    /\ \A k \in Of(s) : j < k /\ k < i => file[k].name # "enabled"

Takes(d, fraud) ==
  \/ d.name \in General
  \/ d.name = "service_list" /\ d.arg = "On"
  \/ d.name \in FraudField /\ fraud
  \/ d.name = "learning_mode" /\ d.arg = "On" /\ fraud
  \/ d.name \in Pattern /\ InRange(d.arg) /\ fraud

Taken(s, f) ==
  {i \in Of(s) : Resets(file[i], f)
                   \/ (file[i].name = f /\ Takes(file[i], TakesAt(s, i)))}

LastTaken(s, f, v, reset, none) ==
  \/ Taken(s, f) = {} /\ v = none
  \/ \E i \in Taken(s, f) :
       /\ \A j \in Taken(s, f) : j <= i
       /\ v = IF file[i].name = f THEN file[i].arg ELSE reset

AsRead ==
  \A s \in Server :
    /\ FraudOn(s) <=> TakesAt(s, Len(file) + 1)
    /\ \A f \in Setting : LastTaken(s, f, conf[s][f], "default", "null")
    /\ \A p \in Pattern : LastTaken(s, p, url_store[s][p], -1, -1)

ForceInv == ConfInv /\ file \in Seq(Directive) /\ AsRead

(* Whether d, read where the file ends, has a say about f in server t.     *)
Counts(d, t, f) ==
  d.server = t /\ (Resets(d, f) \/ (d.name = f /\ Takes(d, FraudOn(t))))

(* What reading d does to the settings of every server.                    *)
Effect(d) ==
  \A t \in Server :
    /\ FraudOn(t)' <=>
         \/ d.server = t /\ d.name = "fraud_detection" /\ d.arg = "On"
         \/ FraudOn(t) /\ ~ (d.server = t /\ d.name = "enabled")
    /\ \A f \in Setting :
         conf'[t][f] = IF Counts(d, t, f) THEN IF d.name = f THEN d.arg ELSE "default"
                       ELSE conf[t][f]
    /\ \A p \in Pattern :
         url_store'[t][p] = IF Counts(d, t, p) THEN IF d.name = p THEN d.arg ELSE -1
                            ELSE url_store[t][p]

(* A directive at the end of the file leaves what was said before it.      *)
LEMMA AppendOf ==
  ASSUME file \in Seq(Directive), NEW d \in Directive, file' = Append(file, d),
         NEW t \in Server
  PROVE  /\ \A i : i \in Of(t)' <=> i \in Of(t) \/ (d.server = t /\ i = Len(file) + 1)
         /\ \A i \in Of(t) : i \in Nat /\ i <= Len(file) /\ file'[i] = file[i]
         /\ file'[Len(file) + 1] = d
         /\ Len(file) \in Nat /\ Len(file') = Len(file) + 1
<1>1. /\ Len(file) \in Nat /\ DOMAIN file = 1 .. Len(file)
      /\ Len(file') = Len(file) + 1 /\ DOMAIN file' = 1 .. Len(file) + 1
      /\ \A i \in 1 .. Len(file) : file'[i] = file[i]
      /\ file'[Len(file) + 1] = d
  OBVIOUS
<1> DEFINE n == Len(file)
<1> HIDE DEF n
<1>2. \A i : i \in Of(t)' <=> i \in 1 .. n + 1 /\ file'[i].server = t
  BY <1>1 DEF Of, n
<1>3. \A i : i \in Of(t) <=> i \in 1 .. n /\ file[i].server = t
  BY <1>1 DEF Of, n
<1>4. /\ n \in Nat /\ \A i \in 1 .. n : file'[i] = file[i]
      /\ file'[n + 1] = d
  BY <1>1 DEF n
<1>5. \A i : i \in 1 .. n + 1 <=> i \in 1 .. n \/ i = n + 1
  BY <1>4
<1>6. n + 1 \notin 1 .. n
  BY <1>4
<1>7. \A i : i \in Of(t)' <=> i \in Of(t) \/ (d.server = t /\ i = n + 1)
  BY <1>2, <1>3, <1>4, <1>5, <1>6
<1>8. QED BY <1>1, <1>3, <1>4, <1>7 DEF n

(* A directive of the set o of s turned fraud detection on before i.       *)
TurnedOn(s, o, i) ==
  \E j \in o : /\ j < i /\ s[j].name = "fraud_detection" /\ s[j].arg = "On"
               /\ \A k \in o : j < k /\ k < i => s[k].name # "enabled"

(* s1 goes on after n; o1 has the place n + 1 too if mine is true.         *)
Extended(s, o, s1, o1, n, mine) ==
  /\ n \in Nat
  /\ \A i : i \in o1 <=> i \in o \/ (mine /\ i = n + 1)
  /\ \A i \in o : i \in Nat /\ i <= n /\ s1[i] = s[i]

(* A directive turns fraud detection on or off from its place on, and      *)
(* not before.                                                             *)
LEMMA TurnedOnAfter ==
  ASSUME NEW s, NEW s1, NEW o, NEW o1, NEW n, NEW mine \in BOOLEAN,
         Extended(s, o, s1, o1, n, mine)
  PROVE  /\ \A i \in Nat : i <= n + 1 => (TurnedOn(s1, o1, i) <=> TurnedOn(s, o, i))
         /\ TurnedOn(s1, o1, n + 2) <=>
              \/ mine /\ s1[n + 1].name = "fraud_detection" /\ s1[n + 1].arg = "On"
              \/ TurnedOn(s, o, n + 1) /\ ~ (mine /\ s1[n + 1].name = "enabled")
<1> USE DEF Extended
<1>d. PICK d : d = s1[n + 1]
  OBVIOUS
<1>1. ASSUME NEW i \in Nat, i <= n + 1, TurnedOn(s1, o1, i) PROVE TurnedOn(s, o, i)
  <2>1. PICK j \in o1 : /\ j < i /\ s1[j].name = "fraud_detection" /\ s1[j].arg = "On"
                        /\ \A k \in o1 : j < k /\ k < i => s1[k].name # "enabled"
    BY <1>1 DEF TurnedOn
  <2>2. j \in o /\ s1[j] = s[j]
    BY <2>1, <1>1
  <2>3. \A k \in o : j < k /\ k < i => s[k].name # "enabled"
    BY <2>1
  <2>4. QED BY <2>1, <2>2, <2>3 DEF TurnedOn
<1>2. ASSUME NEW i \in Nat, i <= n + 1, TurnedOn(s, o, i) PROVE TurnedOn(s1, o1, i)
  <2>1. PICK j \in o : /\ j < i /\ s[j].name = "fraud_detection" /\ s[j].arg = "On"
                       /\ \A k \in o : j < k /\ k < i => s[k].name # "enabled"
    BY <1>2 DEF TurnedOn
  <2>2. j \in o1 /\ s1[j] = s[j]
    OBVIOUS
  <2>3. \A k \in o1 : j < k /\ k < i => k \in o /\ s1[k] = s[k]
    BY <1>2
  <2>4. QED BY <2>1, <2>2, <2>3 DEF TurnedOn
<1>3. ASSUME TurnedOn(s1, o1, n + 2)
      PROVE  \/ mine /\ d.name = "fraud_detection" /\ d.arg = "On"
             \/ TurnedOn(s, o, n + 1) /\ ~ (mine /\ d.name = "enabled")
  <2>1. PICK j \in o1 : /\ j < n + 2 /\ s1[j].name = "fraud_detection" /\ s1[j].arg = "On"
                        /\ \A k \in o1 : j < k /\ k < n + 2 => s1[k].name # "enabled"
    BY <1>3 DEF TurnedOn
  <2>2. CASE j \notin o
    BY <2>1, <2>2, <1>d
  <2>3. CASE j \in o
    <3>1. j < n + 1 /\ s[j] = s1[j] /\ j \in Nat
      BY <2>3
    <3>2. \A k \in o : j < k /\ k < n + 1 => s[k].name # "enabled"
      BY <2>1
    <3>3. TurnedOn(s, o, n + 1)
      BY <2>1, <2>3, <3>1, <3>2 DEF TurnedOn
    <3>4. ~ (mine /\ d.name = "enabled")
      BY <2>1, <3>1, <1>d
    <3>5. QED BY <3>3, <3>4
  <2>4. QED BY <2>2, <2>3
<1>4. ASSUME mine, d.name = "fraud_detection", d.arg = "On"
      PROVE  TurnedOn(s1, o1, n + 2)
  <2>1. n + 1 \in o1 /\ n + 1 < n + 2
    BY <1>4
  <2>2. \A k \in o1 : ~ (n + 1 < k)
    OBVIOUS
  <2>3. QED BY <1>4, <1>d, <2>1, <2>2 DEF TurnedOn
<1>5. ASSUME TurnedOn(s, o, n + 1), ~ (mine /\ d.name = "enabled")
      PROVE  TurnedOn(s1, o1, n + 2)
  <2>1. PICK j \in o : /\ j < n + 1 /\ s[j].name = "fraud_detection" /\ s[j].arg = "On"
                       /\ \A k \in o : j < k /\ k < n + 1 => s[k].name # "enabled"
    BY <1>5 DEF TurnedOn
  <2>2. j \in o1 /\ j < n + 2 /\ s1[j] = s[j]
    BY <2>1
  <2>3. ASSUME NEW k \in o1, j < k PROVE s1[k].name # "enabled"
    <3>1. CASE k \in o
      BY <2>1, <2>3, <3>1
    <3>2. CASE k \notin o
      BY <1>5, <3>2, <1>d
    <3>3. QED BY <3>1, <3>2
  <2>4. QED BY <2>1, <2>2, <2>3 DEF TurnedOn
<1>6. QED BY <1>1, <1>2, <1>3, <1>4, <1>5, <1>d

(* Whether fraud detection is on depends on what comes before only.        *)
LEMMA AppendFraud ==
  ASSUME file \in Seq(Directive), NEW d \in Directive, file' = Append(file, d),
         NEW t \in Server, NEW n, n = Len(file)
  PROVE  /\ \A i \in Nat : i <= n + 1 => (TakesAt(t, i)' <=> TakesAt(t, i))
         /\ TakesAt(t, n + 2)' <=>
              \/ d.server = t /\ d.name = "fraud_detection" /\ d.arg = "On"
              \/ TakesAt(t, n + 1) /\ ~ (d.server = t /\ d.name = "enabled")
<1> DEFINE o == Of(t)
           o1 == Of(t)'
           f1 == file'
<1>1. /\ \A i : i \in o1 <=> i \in o \/ (d.server = t /\ i = n + 1)
      /\ \A i \in o : i \in Nat /\ i <= n /\ f1[i] = file[i]
      /\ f1[n + 1] = d /\ n \in Nat
  BY AppendOf
<1>2. \A i : /\ TakesAt(t, i)' <=> TurnedOn(f1, o1, i)
             /\ TakesAt(t, i) <=> TurnedOn(file, o, i)
  BY DEF TakesAt, TurnedOn
<1> HIDE DEF o, o1, f1
<1>3. PICK mine \in BOOLEAN : mine <=> d.server = t
  OBVIOUS
<1>4. Extended(file, o, f1, o1, n, mine)
  BY <1>1, <1>3 DEF Extended
<1>5. /\ \A i \in Nat : i <= n + 1 => (TurnedOn(f1, o1, i) <=> TurnedOn(file, o, i))
      /\ TurnedOn(f1, o1, n + 2) <=>
           \/ mine /\ f1[n + 1].name = "fraud_detection" /\ f1[n + 1].arg = "On"
           \/ TurnedOn(file, o, n + 1) /\ ~ (mine /\ f1[n + 1].name = "enabled")
  BY <1>4, TurnedOnAfter
<1>6. \A i \in Nat : i <= n + 1 => (TakesAt(t, i)' <=> TakesAt(t, i))
  BY <1>2, <1>5
<1>7. TakesAt(t, n + 2)' <=>
        \/ d.server = t /\ d.name = "fraud_detection" /\ d.arg = "On"
        \/ TakesAt(t, n + 1) /\ ~ (d.server = t /\ d.name = "enabled")
  <2>1. /\ TakesAt(t, n + 2)' <=> TurnedOn(f1, o1, n + 2)
        /\ TakesAt(t, n + 1) <=> TurnedOn(file, o, n + 1)
    BY <1>2
  <2>2. QED BY <2>1, <1>1, <1>3, <1>5
<1>8. QED BY <1>6, <1>7

(* The directive has a say, or leaves the list of those that had one.      *)
LEMMA AppendSaid ==
  ASSUME ForceInv, NEW d \in Directive, file' = Append(file, d), NEW t \in Server, NEW f,
         NEW n, n = Len(file)
  PROVE  \A i : i \in Taken(t, f)' <=>
                  i \in Taken(t, f) \/ (Counts(d, t, f) /\ i = n + 1)
<1>a. file \in Seq(Directive) /\ (FraudOn(t) <=> TakesAt(t, n + 1))
  BY DEF ForceInv, AsRead
<1>1. /\ \A i : i \in Of(t)' <=> i \in Of(t) \/ (d.server = t /\ i = n + 1)
      /\ \A i \in Of(t) : i \in Nat /\ i <= n /\ file'[i] = file[i]
      /\ file'[n + 1] = d /\ n \in Nat
  BY <1>a, AppendOf
<1>2. \A i \in Nat : i <= n + 1 => (TakesAt(t, i)' <=> TakesAt(t, i))
  BY <1>a, AppendFraud
<1>3. ASSUME NEW i
      PROVE  /\ i \in Taken(t, f)' <=>
                  /\ i \in Of(t)'
                  /\ \/ Resets(file'[i], f)
                     \/ file'[i].name = f /\ Takes(file'[i], TakesAt(t, i)')
             /\ i \in Taken(t, f) <=>
                  /\ i \in Of(t)
                  /\ \/ Resets(file[i], f)
                     \/ file[i].name = f /\ Takes(file[i], TakesAt(t, i))
  BY DEF Taken, Resets, Takes
<1>4. ASSUME NEW i \in Of(t) PROVE TakesAt(t, i)' <=> TakesAt(t, i)
  BY <1>1, <1>2
<1>5. TakesAt(t, n + 1)' <=> FraudOn(t)
  <2>1. n + 1 \in Nat /\ n + 1 <= n + 1
    BY <1>1
  <2>2. TakesAt(t, n + 1)' <=> TakesAt(t, n + 1)
    BY <2>1, <1>2
  <2>3. QED BY <2>2, <1>a
<1>6. ASSUME NEW i \in Of(t) PROVE i \in Taken(t, f)' <=> i \in Taken(t, f)
  BY <1>1, <1>3, <1>4 DEF Takes
<1>7. n + 1 \in Taken(t, f)' <=> Counts(d, t, f)
  <2> DEFINE m == n + 1
  <2>1. /\ m \in Of(t)' <=> d.server = t
        /\ file'[m] = d /\ (TakesAt(t, m)' <=> FraudOn(t))
    BY <1>1, <1>5
  <2>2. m \in Taken(t, f)' <=>
          /\ m \in Of(t)'
          /\ \/ Resets(file'[m], f)
             \/ file'[m].name = f /\ Takes(file'[m], TakesAt(t, m)')
    BY <1>3
  <2> HIDE DEF m
  <2>3. QED BY <2>1, <2>2 DEF Takes, Counts, m
<1>8. n + 1 \notin Of(t)
  BY <1>1
<1>9. QED BY <1>1, <1>3, <1>6, <1>7, <1>8 DEF Counts

(* So the last word stays, or is that of the new directive.                *)
LEMMA LastWordStep ==
  ASSUME ForceInv, NEW d \in Directive, file' = Append(file, d), NEW t \in Server,
         NEW f, NEW v, NEW v1, NEW reset, NEW none,
         LastTaken(t, f, v, reset, none),
         v1 = IF Counts(d, t, f) THEN IF d.name = f THEN d.arg ELSE reset ELSE v
  PROVE  LastTaken(t, f, v1, reset, none)'
<1> PICK n : n = Len(file)
  OBVIOUS
<1>1. \A i : i \in Taken(t, f)' <=> i \in Taken(t, f) \/ (Counts(d, t, f) /\ i = n + 1)
  BY AppendSaid
<1>2. /\ \A i \in Taken(t, f) : i \in Nat /\ i <= n /\ file'[i] = file[i]
      /\ file'[n + 1] = d /\ n \in Nat
  <2>1. /\ \A i \in Of(t) : i \in Nat /\ i <= n /\ file'[i] = file[i]
        /\ file'[n + 1] = d /\ n \in Nat
    BY AppendOf DEF ForceInv
  <2>2. \A i \in Taken(t, f) : i \in Of(t)
    BY DEF Taken
  <2>3. QED BY <2>1, <2>2
<1>3. CASE Counts(d, t, f)
  <2>1. n + 1 \in Taken(t, f)' /\ \A j \in Taken(t, f)' : j <= n + 1
    BY <1>1, <1>2, <1>3
  <2>2. v1 = IF d.name = f THEN d.arg ELSE reset
    BY <1>3
  <2>3. QED BY <2>1, <2>2, <1>2 DEF LastTaken
<1>4. CASE ~ Counts(d, t, f)
  <2>1. v1 = v /\ \A i : i \in Taken(t, f)' <=> i \in Taken(t, f)
    BY <1>1, <1>4
  <2>2. CASE Taken(t, f) = {}
    BY <2>1, <2>2 DEF LastTaken
  <2>3. CASE Taken(t, f) # {}
    <3>1. PICK i \in Taken(t, f) : /\ \A j \in Taken(t, f) : j <= i
                                  /\ v = IF file[i].name = f THEN file[i].arg ELSE reset
      BY <2>3 DEF LastTaken
    <3>2. /\ i \in Taken(t, f)' /\ \A j \in Taken(t, f)' : j <= i
          /\ v1 = IF file'[i].name = f THEN file'[i].arg ELSE reset
      BY <2>1, <3>1, <1>2
    <3>3. QED BY <3>2 DEF LastTaken
  <2>4. QED BY <2>2, <2>3
<1>5. QED BY <1>3, <1>4

(* A directive with its effect keeps the settings what the file says.      *)
LEMMA EffectKeeps ==
  ASSUME ForceInv, NEW d \in Directive, file' = Append(file, d), Effect(d)
  PROVE  AsRead' /\ file' \in Seq(Directive)
<1>a. file \in Seq(Directive) /\ AsRead
  BY DEF ForceInv
<1>1. PICK n : n = Len(file)
  OBVIOUS
<1>2. n \in Nat /\ Len(file') = n + 1 /\ file' \in Seq(Directive)
  BY <1>a, <1>1
<1>3. ASSUME NEW t \in Server
      PROVE  FraudOn(t)' <=> TakesAt(t, Len(file) + 1)'
  <2>1. TakesAt(t, n + 2)' <=>
          \/ d.server = t /\ d.name = "fraud_detection" /\ d.arg = "On"
          \/ TakesAt(t, n + 1) /\ ~ (d.server = t /\ d.name = "enabled")
    BY <1>a, <1>1, AppendFraud
  <2>2. FraudOn(t) <=> TakesAt(t, n + 1)
    BY <1>a, <1>1 DEF AsRead
  <2>3. n + 2 = Len(file') + 1
    BY <1>2
  <2>4. QED BY <2>1, <2>2, <2>3 DEF Effect
<1>4. ASSUME NEW t \in Server,
             NEW f \in Setting
      PROVE  LastTaken(t, f, conf[t][f], "default", "null")'
  <2>1. LastTaken(t, f, conf[t][f], "default", "null")
    BY <1>a DEF AsRead
  <2>2. conf'[t][f] = IF Counts(d, t, f) THEN IF d.name = f THEN d.arg ELSE "default"
                      ELSE conf[t][f]
    BY DEF Effect
  <2>3. PICK v1 : v1 = conf'[t][f]
    OBVIOUS
  <2>4. LastTaken(t, f, v1, "default", "null")'
    BY <2>1, <2>2, <2>3, LastWordStep
  <2>5. QED BY <2>3, <2>4
<1>5. ASSUME NEW t \in Server, NEW p \in Pattern
      PROVE  LastTaken(t, p, url_store[t][p], -1, -1)'
  <2>1. LastTaken(t, p, url_store[t][p], -1, -1)
    BY <1>a DEF AsRead
  <2>2. url_store'[t][p] = IF Counts(d, t, p) THEN IF d.name = p THEN d.arg ELSE -1
                           ELSE url_store[t][p]
    BY DEF Effect
  <2>3. PICK v1 : v1 = url_store'[t][p]
    OBVIOUS
  <2>4. LastTaken(t, p, v1, -1, -1)'
    BY <2>1, <2>2, <2>3, LastWordStep
  <2>5. QED BY <2>3, <2>4
<1>6. QED BY <1>2, <1>3, <1>4, <1>5 DEF AsRead

-----------------------------------------------------------------------------
(* Every handler has that effect.                                          *)

(* What a directive has no say about.                                      *)
LEMMA NamesApart ==
  ASSUME NEW d, NEW t
  PROVE  /\ d.name = "enabled" => \A f \in Setting : Counts(d, t, f) <=> d.server = t /\ f \in General
         /\ d.name = "enabled" => \A p \in Pattern : ~ Counts(d, t, p)
<1>1. /\ General \cap Pattern = {} /\ Fraud \cap Pattern = {}
      /\ {"enabled", "fraud_detection", "service_list"}
           \cap (General \cup Fraud \cup Pattern) = {}
      /\ Setting \subseteq General \cup Fraud \cup {"service_list"}
  BY Groups, DirectivesAssumption DEF Setting
<1>2. QED BY <1>1, Groups DEF Counts, Resets, Takes

(* Reading puts the directive at the end of the file.                      *)
LEMMA ReadAppends ==
  ASSUME NEW s \in Server, NEW name \in Field \cup Pattern,
         NEW arg \in Text \cup Flag \cup Level, Read(s, name, arg),
         name \in {"learning_mode", "service_list"} => arg \in Flag
  PROVE  \E d \in Directive :
           /\ d.server = s /\ d.name = name /\ d.arg = arg
           /\ file' = Append(file, d)
<1> DEFINE d == [server |-> s, name |-> name, arg |-> arg]
<1>1. d \in Directive /\ d.server = s /\ d.name = name /\ d.arg = arg
  BY DEF Directive
<1>2. file' = Append(file, d)
  BY DEF Read
<1>3. QED BY <1>1, <1>2

(* The handlers that set the field they are named after, if they may.      *)
LEMMA FieldEffect ==
  ASSUME ConfInv, NEW d \in Directive, url_store' = url_store,
         d.name \in Setting,
         \/ Set(d.server, d.name, d.arg) /\ Counts(d, d.server, d.name)
         \/ conf' = conf /\ ~ Counts(d, d.server, d.name)
  PROVE  Effect(d)
<1>1. /\ d.name \in Field /\ d.name \notin {"enabled", "fraud_detection"} \cup Pattern
      /\ d.server \in Server /\ Setting \subseteq Field
      /\ "fraud_detection" \in Field \ Setting
  BY Groups, DirectivesAssumption DEF Setting, Directive
<1>2. ASSUME NEW t, NEW f
      PROVE  Counts(d, t, f) <=> d.server = t /\ d.name = f /\ Counts(d, d.server, d.name)
  BY <1>1 DEF Counts, Resets
<1>3. conf \in [Server -> [Field -> Text \cup Flag \cup {"null", "default"}]]
  BY DEF ConfInv, TypeOK
<1>4. CASE conf' = conf /\ ~ Counts(d, d.server, d.name)
  BY <1>1, <1>2, <1>4 DEF Effect, FraudOn
<1>5. CASE Set(d.server, d.name, d.arg) /\ Counts(d, d.server, d.name)
  <2>1. ASSUME NEW t \in Server, NEW f \in Field
        PROVE  conf'[t][f] = IF t = d.server /\ f = d.name THEN d.arg ELSE conf[t][f]
    BY <1>1, <1>3, <1>5 DEF Set
  <2>2. \A t \in Server : FraudOn(t)' <=> FraudOn(t)
    BY <1>1, <2>1 DEF FraudOn
  <2>3. \A t \in Server : \A f \in Setting :
          conf'[t][f] = IF Counts(d, t, f) THEN IF d.name = f THEN d.arg ELSE "default"
                        ELSE conf[t][f]
    BY <1>1, <1>2, <1>5, <2>1
  <2>4. \A t \in Server, p \in Pattern : ~ Counts(d, t, p)
    BY <1>1, <1>2
  <2>5. QED BY <1>1, <2>2, <2>3, <2>4 DEF Effect
<1>6. QED BY <1>4, <1>5

(* MOD_MSHIELD_URL.                                                        *)
LEMMA UrlEffect ==
  ASSUME ConfInv, NEW d \in Directive, conf' = conf, d.name \in Pattern,
         IF FraudOn(d.server) /\ InRange(d.arg)
         THEN url_store' = [url_store EXCEPT ![d.server][d.name] = d.arg]
         ELSE url_store' = url_store
  PROVE  Effect(d)
<1>1. /\ d.name \notin {"enabled", "fraud_detection", "learning_mode", "service_list"}
      /\ d.name \notin General \cup FraudField \cup Setting
      /\ d.server \in Server
  BY Groups, DirectivesAssumption DEF Setting, Directive
<1>2. ASSUME NEW t, NEW f
      PROVE  Counts(d, t, f) <=> d.server = t /\ d.name = f /\ FraudOn(t) /\ InRange(d.arg)
  BY <1>1 DEF Counts, Resets, Takes
<1>3. url_store \in [Server -> [Pattern -> (LEVEL_MIN .. LEVEL_MAX) \cup {-1}]]
  BY DEF ConfInv, TypeOK
<1>4. PICK L : url_store \in [Server -> [Pattern -> L]]
  BY <1>3
<1>5. ASSUME NEW t \in Server, NEW p \in Pattern
      PROVE  url_store'[t][p] = IF Counts(d, t, p) THEN d.arg ELSE url_store[t][p]
  BY <1>1, <1>2, <1>4
<1>6. ASSUME NEW t \in Server, NEW f \in Setting PROVE ~ Counts(d, t, f)
  BY <1>1, <1>2
<1>7. ASSUME NEW t \in Server, NEW p \in Pattern, Counts(d, t, p) PROVE d.name = p
  BY <1>2, <1>7
<1>8. QED BY <1>1, <1>5, <1>6, <1>7 DEF Effect, FraudOn

(* MOD_MSHIELD_ENABLED.                                                    *)
LEMMA EnabledEffect ==
  ASSUME ConfInv, NEW d \in Directive, d.name = "enabled", url_store' = url_store,
         NEW c, conf' = [conf EXCEPT ![d.server] = c],
         c["fraud_detection"] = "Off",
         \A f \in Setting : c[f] = IF f \in General THEN "default"
                                   ELSE conf[d.server][f]
  PROVE  Effect(d)
<1>1. d.server \in Server /\ "enabled" \notin Setting
  BY Groups DEF Setting, Directive
<1>2. DOMAIN conf = Server
  BY DEF ConfInv, TypeOK
<1>3. /\ \A t, f : f \in Setting => (Counts(d, t, f) <=> d.server = t /\ f \in General)
      /\ \A t, p : p \in Pattern => ~ Counts(d, t, p)
  BY NamesApart
<1>4. \A t \in Server : conf'[t] = IF t = d.server THEN c ELSE conf[t]
  BY <1>1, <1>2
<1>5. QED BY <1>1, <1>3, <1>4 DEF Effect, FraudOn

(* MOD_MSHIELD_FRAUD_DETECTION_ENABLED On.                                 *)
LEMMA FraudEffect ==
  ASSUME ConfInv, NEW d \in Directive, d.name = "fraud_detection", d.arg = "On",
         \A t \in Server \ {d.server} : conf'[t] = conf[t] /\ url_store'[t] = url_store[t],
         conf'[d.server]["fraud_detection"] = "On",
         \A p \in Pattern : url_store'[d.server][p] = -1,
         \A f \in Setting : conf'[d.server][f] = IF f \in Fraud THEN "default"
                                                 ELSE conf[d.server][f]
  PROVE  Effect(d)
<1>1. /\ d.server \in Server /\ Setting \subseteq General \cup Fraud \cup {"service_list"}
      /\ "fraud_detection" \notin General \cup Fraud \cup Pattern
      /\ Fraud \cap Pattern = {} /\ Setting \cap Pattern = {}
  BY Groups, DirectivesAssumption DEF Setting, Directive
<1>3. ASSUME NEW t, NEW f \in Setting \cup Pattern
      PROVE  /\ Counts(d, t, f) <=> d.server = t /\ f \in Fraud \cup Pattern
             /\ d.name # f
  BY <1>1 DEF Counts, Resets
<1>4. QED BY <1>1, <1>3 DEF Effect, FraudOn

(* Each handler reads one directive, with its effect.                      *)
LEMMA HandlerEffect ==
  ASSUME ConfInv, Next
  PROVE  \E d \in Directive : file' = Append(file, d) /\ Effect(d)
<1> DEFINE Done == \E d \in Directive : file' = Append(file, d) /\ Effect(d)
<1> USE Groups
<1>1. ASSUME NEW s \in Server, NEW arg \in Flag, mshield_config_enabled(s, arg)
      PROVE  Done
  <2>1. PICK d \in Directive :
          /\ d.server = s /\ d.name = "enabled" /\ d.arg = arg
          /\ file' = Append(file, d)
    BY <1>1, ReadAppends DEF mshield_config_enabled
  <2> DEFINE c == [f \in Field |-> IF f = "enabled" THEN arg
                                   ELSE IF f = "fraud_detection" THEN "Off"
                                   ELSE IF f \in General THEN "default" ELSE conf[s][f]]
  <2>2. conf' = [conf EXCEPT ![s] = c] /\ url_store' = url_store
    BY <1>1 DEF mshield_config_enabled
  <2>3. /\ c["fraud_detection"] = "Off"
        /\ \A f \in Setting : c[f] = IF f \in General THEN "default" ELSE conf[s][f]
    BY DEF Setting
  <2> HIDE DEF c
  <2>4. Effect(d)
    BY <2>1, <2>2, <2>3, EnabledEffect
  <2>5. QED BY <2>1, <2>4
<1>2. ASSUME NEW s \in Server, NEW arg \in Flag,
             mshield_config_service_list_enabled(s, arg)
      PROVE  Done
  <2>1. PICK d \in Directive :
          /\ d.server = s /\ d.name = "service_list" /\ d.arg = arg
          /\ file' = Append(file, d)
    BY <1>2, ReadAppends DEF mshield_config_service_list_enabled
  <2>2. "service_list" \notin General \cup FraudField \cup Fraud \cup Pattern
    BY DirectivesAssumption
  <2>3. Counts(d, d.server, d.name) <=> arg = "On"
    BY <2>1, <2>2 DEF Counts, Resets, Takes
  <2>4. Effect(d)
    BY <1>2, <2>1, <2>3, FieldEffect DEF mshield_config_service_list_enabled, Setting, Flag
  <2>5. QED BY <2>1, <2>4
<1>3. ASSUME NEW s \in Server, NEW arg \in Flag,
             mshield_config_fraud_detection_enabled(s, arg)
      PROVE  Done
  <2>1. PICK d \in Directive :
          /\ d.server = s /\ d.name = "fraud_detection" /\ d.arg = arg
          /\ file' = Append(file, d)
    BY <1>3, ReadAppends DEF mshield_config_fraud_detection_enabled
  <2>2. CASE arg = "On"
    <3> DEFINE c == [f \in Field |-> IF f = "fraud_detection" THEN "On"
                                     ELSE IF f \in Fraud THEN "default"
                                     ELSE conf[s][f]]
               u == [p \in Pattern |-> -1]
    <3>1. /\ conf' = [conf EXCEPT ![s] = c]
          /\ url_store' = [url_store EXCEPT ![s] = u]
      BY <1>3, <2>2 DEF mshield_config_fraud_detection_enabled
    <3>2. /\ c["fraud_detection"] = "On" /\ \A p \in Pattern : u[p] = -1
          /\ \A f \in Setting : c[f] = IF f \in Fraud THEN "default" ELSE conf[s][f]
      BY DEF Setting
    <3> HIDE DEF c, u
    <3>3. /\ \A t \in Server \ {d.server} : conf'[t] = conf[t] /\ url_store'[t] = url_store[t]
          /\ conf'[d.server]["fraud_detection"] = "On"
          /\ \A p \in Pattern : url_store'[d.server][p] = -1
          /\ \A f \in Setting : conf'[d.server][f] = IF f \in Fraud THEN "default"
                                                     ELSE conf[d.server][f]
      BY <2>1, <3>1, <3>2 DEF ConfInv, TypeOK
    <3>4. d.name = "fraud_detection" /\ d.arg = "On"
      BY <2>1, <2>2
    <3>5. Effect(d)
      BY <3>3, <3>4, FraudEffect
    <3>6. QED BY <2>1, <3>5
  <2>3. CASE arg # "On"
    <3>1. UNCHANGED <<conf, url_store>>
      BY <1>3, <2>3 DEF mshield_config_fraud_detection_enabled
    <3>2. \A t \in Server, f \in Setting \cup Pattern : ~ Counts(d, t, f)
      BY <2>1, <2>3, DirectivesAssumption DEF Setting, Counts, Resets, Takes
    <3>3. Effect(d)
      BY <2>1, <2>3, <3>1, <3>2 DEF Effect, FraudOn
    <3>4. QED BY <2>1, <3>3
  <2>4. QED BY <2>2, <2>3
<1>4. ASSUME NEW s \in Server, NEW arg \in Flag,
             mshield_config_fraud_learning_mode(s, arg)
      PROVE  Done
  <2>1. PICK d \in Directive :
          /\ d.server = s /\ d.name = "learning_mode" /\ d.arg = arg
          /\ file' = Append(file, d)
    BY <1>4, ReadAppends DEF mshield_config_fraud_learning_mode
  <2>2. "learning_mode" \notin General \cup FraudField \cup Pattern
    BY DirectivesAssumption DEF General, CookieField, SessionField, LogonField,
                                ServiceField, FraudField
  <2>3. Counts(d, d.server, d.name) <=> arg = "On" /\ FraudOn(s)
    BY <2>1, <2>2 DEF Counts, Resets, Takes
  <2>4. Effect(d)
    BY <1>4, <2>1, <2>3, FieldEffect DEF mshield_config_fraud_learning_mode, Setting
  <2>5. QED BY <2>1, <2>4
<1>5. ASSUME NEW s \in Server, NEW f \in GIVEN \cap General, NEW arg \in Arg(f),
             mshield_config_general(s, f, arg)
      PROVE  Done
  <2>1. PICK d \in Directive :
          /\ d.server = s /\ d.name = f /\ d.arg = arg /\ file' = Append(file, d)
    BY <1>5, ReadAppends DEF mshield_config_general, Arg
  <2>2. Counts(d, d.server, d.name)
    BY <2>1 DEF Counts, Takes
  <2>3. Effect(d)
    BY <1>5, <2>1, <2>2, FieldEffect DEF mshield_config_general, Setting
  <2>4. QED BY <2>1, <2>3
<1>6. ASSUME NEW s \in Server, NEW f \in GIVEN \cap FraudField, NEW arg \in Text,
             mshield_config_fraud(s, f, arg)
      PROVE  Done
  <2>0. f \notin {"learning_mode", "service_list"}
    BY DEF FraudField
  <2>1. PICK d \in Directive :
          /\ d.server = s /\ d.name = f /\ d.arg = arg /\ file' = Append(file, d)
    BY <2>0, <1>6, ReadAppends DEF mshield_config_fraud
  <2>2. f \notin General \cup Pattern \cup {"enabled", "fraud_detection", "learning_mode"}
    BY DirectivesAssumption DEF FraudField
  <2>3. Counts(d, d.server, d.name) <=> FraudOn(s)
    BY <2>1, <2>2 DEF Counts, Resets, Takes
  <2>4. Effect(d)
    BY <1>6, <2>1, <2>3, FieldEffect DEF mshield_config_fraud, Setting
  <2>5. QED BY <2>1, <2>4
<1>7. ASSUME NEW s \in Server, NEW p \in Pattern, NEW level \in Level,
             mshield_config_urls(s, p, level)
      PROVE  Done
  <2>0. p \notin {"learning_mode", "service_list"}
    BY DirectivesAssumption
  <2>1. PICK d \in Directive :
          /\ d.server = s /\ d.name = p /\ d.arg = level /\ file' = Append(file, d)
    BY <2>0, <1>7, ReadAppends DEF mshield_config_urls
  <2>2. Effect(d)
    BY <1>7, <2>1, UrlEffect DEF mshield_config_urls
  <2>3. QED BY <2>1, <2>2
<1>8. QED BY <1>1, <1>2, <1>3, <1>4, <1>5, <1>6, <1>7 DEF Next

(* Before the file is read nothing is set, and nothing has been said.      *)
LEMMA ForceInit == Init => ForceInv
<1> SUFFICES ASSUME Init PROVE ForceInv
  OBVIOUS
<1>1. ConfInv /\ file \in Seq(Directive)
  BY ConfInit DEF Init
<1>2. \A s \in Server : Of(s) = {}
  <2>1. DOMAIN file = 1 .. Len(file) /\ Len(file) = 0
    BY DEF Init
  <2>2. DOMAIN file = {}
    BY <2>1
  <2>3. QED BY <2>2 DEF Of
<1>3. \A s \in Server : \A f : Taken(s, f) = {}
  BY <1>2 DEF Taken
<1>4. \A s \in Server : \A i : ~ TakesAt(s, i)
  BY <1>2 DEF TakesAt
<1>5. /\ \A s \in Server, f \in Field : conf[s][f] = "null"
      /\ \A s \in Server, p \in Pattern : url_store[s][p] = -1
  BY DEF Init
<1>6. AsRead
  <2>1. Setting \subseteq Field /\ "fraud_detection" \in Field
    BY Groups DEF Setting
  <2>2. ASSUME NEW s \in Server PROVE ~ FraudOn(s) /\ ~ TakesAt(s, Len(file) + 1)
    BY <1>4, <1>5, <2>1 DEF FraudOn
  <2>3. ASSUME NEW s \in Server, NEW f \in Setting
        PROVE  LastTaken(s, f, conf[s][f], "default", "null")
    BY <1>3, <1>5, <2>1 DEF LastTaken
  <2>4. ASSUME NEW s \in Server, NEW p \in Pattern
        PROVE  LastTaken(s, p, url_store[s][p], -1, -1)
    BY <1>3, <1>5 DEF LastTaken
  <2>5. QED BY <2>2, <2>3, <2>4 DEF AsRead
<1>7. QED BY <1>1, <1>6 DEF ForceInv

(* Every directive read keeps the settings true to the file.               *)
LEMMA ForceStep == ForceInv /\ [Next]_vars => ForceInv'
<1> SUFFICES ASSUME ForceInv, [Next]_vars PROVE ForceInv'
  OBVIOUS
<1>1. ConfInv'
  BY ConfStep DEF ForceInv
<1>2. CASE Next
  <2>1. PICK d \in Directive : file' = Append(file, d) /\ Effect(d)
    BY <1>2, HandlerEffect DEF ForceInv
  <2>2. QED BY <1>1, <2>1, EffectKeeps DEF ForceInv
<1>3. CASE UNCHANGED vars
  <2>1. file' = file /\ conf' = conf /\ url_store' = url_store
    BY <1>3 DEF vars
  <2>2. \A s : /\ Of(s)' = Of(s)
               /\ \A i : TakesAt(s, i)' <=> TakesAt(s, i)
    BY <2>1 DEF Of, TakesAt
  <2>3. \A s, f : Taken(s, f)' = Taken(s, f)
    BY <2>1, <2>2 DEF Taken
  <2>4. Len(file)' = Len(file) /\ AsRead /\ file \in Seq(Directive)
    BY <2>1 DEF ForceInv
  <2>5. AsRead'
    BY <2>1, <2>2, <2>3, <2>4 DEF AsRead, LastTaken, FraudOn
  <2>6. QED BY <1>1, <2>1, <2>4, <2>5 DEF ForceInv
<1>4. QED BY <1>2, <1>3

-----------------------------------------------------------------------------
(* Where no switch is turned off, the handlers' rule is the documents'.    *)

(* The places of a file are numbers, and so in an order.                   *)
LEMMA Places ==
  ASSUME file \in Seq(Directive), NEW s
  PROVE  \A i \in Of(s) : i \in Nat
  BY DEF Of

(* Fraud detection is on where the handlers have it on.                    *)
LEMMA OnAsTaken ==
  ASSUME file \in Seq(Directive), NEW s \in Server, ~ SwitchedOff(s, "fraud_detection"),
         NEW i \in Nat
  PROVE  FraudOnAt(s, i) <=> TakesAt(s, i)
<1>1. \A d : Resets(d, "fraud_detection") <=> d.name = "enabled"
  BY Groups, DirectivesAssumption DEF Resets, Field
<1>2. ASSUME TakesAt(s, i) PROVE FraudOnAt(s, i)
  <2>1. PICK j \in Of(s) :
          /\ j < i /\ file[j].name = "fraud_detection" /\ file[j].arg = "On"
          /\ \A k \in Of(s) : j < k /\ k < i => file[k].name # "enabled"
    BY <1>2 DEF TakesAt
  <2>2. ASSUME NEW k \in Of(s), j < k, k < i
        PROVE  ~ Says(file[k], "fraud_detection", "Off")
    <3>1. \A m \in Of(s) : j < m /\ m < k => ~ Resets(file[m], "fraud_detection")
      <4>1. ASSUME NEW m \in Of(s), j < m, m < k PROVE file[m].name # "enabled"
        <5>1. j \in Int /\ m \in Int /\ k \in Int
          BY Places
        <5>2. CASE m < i
          BY <2>1, <4>1, <5>2
        <5>3. QED BY <2>1, <2>2, <4>1, <5>1, <5>2 DEF TakesAt
      <4>2. QED BY <4>1, <1>1
    <3>2. QED BY <2>1, <2>2, <3>1 DEF SwitchedOff, Says
  <2>3. QED BY <1>1, <2>1, <2>2 DEF FraudOnAt, Says
<1>3. ASSUME FraudOnAt(s, i) PROVE TakesAt(s, i)
  BY <1>1, <1>3 DEF FraudOnAt, TakesAt, Says
<1>4. QED BY <1>2, <1>3

(* What has a say for the handlers has one; nothing else has, but an Off.   *)
LEMMA SaidAndTaken ==
  ASSUME file \in Seq(Directive), NEW s \in Server, NEW f \in Setting \cup Pattern,
         f \in FraudField \cup {"learning_mode"} \cup Pattern
           => ~ SwitchedOff(s, "fraud_detection")
  PROVE  /\ Taken(s, f) \subseteq Said(s, f)
         /\ \A i \in Said(s, f) : \/ i \in Taken(s, f)
                                  \/ /\ f \in {"learning_mode", "service_list"}
                                     /\ file[i].name = f /\ file[i].arg # "On"
<1>1. /\ {"service_list", "learning_mode"} \cap (General \cup FraudField \cup Pattern) = {}
      /\ General \cap FraudField = {} /\ (General \cup FraudField) \cap Pattern = {}
  BY Groups, DirectivesAssumption
     DEF FraudField, General, CookieField, SessionField, LogonField, ServiceField
<1>2. ASSUME NEW i \in Of(s), f \in FraudField \cup {"learning_mode"} \cup Pattern
      PROVE  FraudOnAt(s, i) <=> TakesAt(s, i)
  BY <1>2, OnAsTaken, Places
<1>3. ASSUME NEW i \in Of(s), file[i].name = f
      PROVE  /\ Takes(file[i], TakesAt(s, i)) => Honours(file[i], FraudOnAt(s, i))
             /\ Honours(file[i], FraudOnAt(s, i)) =>
                  \/ Takes(file[i], TakesAt(s, i))
                  \/ f \in {"learning_mode", "service_list"} /\ file[i].arg # "On"
  BY <1>1, <1>2, <1>3 DEF Takes, Honours
<1>4. QED BY <1>3 DEF Taken, Said

(* A setting that is no switch.                                            *)
LEMMA ValueAsSaid ==
  ASSUME ForceInv, NEW s \in Server, NEW f \in General \cup FraudField \cup Pattern,
         f \in FraudField \cup Pattern => ~ SwitchedOff(s, "fraud_detection"),
         NEW v, NEW reset, NEW none, LastTaken(s, f, v, reset, none)
  PROVE  LastWord(s, f, v, reset, none)
<1>1. /\ f \in Setting \cup Pattern /\ f \notin {"learning_mode", "service_list"}
  BY Groups, DirectivesAssumption
     DEF Setting, FraudField, General, CookieField, SessionField, LogonField, ServiceField
<1>2. Taken(s, f) = Said(s, f)
  BY <1>1, SaidAndTaken DEF ForceInv
<1>3. QED BY <1>2 DEF LastTaken, LastWord, IsLast

(* A switch that is not turned off.                                        *)
LEMMA SwitchAsSaid ==
  ASSUME ForceInv, NEW s \in Server, NEW f \in {"learning_mode", "service_list"},
         f = "learning_mode" => ~ SwitchedOff(s, "fraud_detection"),
         ~ SwitchedOff(s, f)
  PROVE  conf[s][f] = "On" <=> LastSaysOn(s, f)
<1>1. f \in Setting /\ f \notin FraudField \cup Pattern
  BY Groups, DirectivesAssumption DEF Setting, FraudField
<1>2. /\ Taken(s, f) \subseteq Said(s, f)
      /\ \A i \in Said(s, f) : \/ i \in Taken(s, f)
                               \/ file[i].name = f /\ file[i].arg # "On"
  BY <1>1, SaidAndTaken DEF ForceInv
<1>3. LastTaken(s, f, conf[s][f], "default", "null")
  BY <1>1 DEF ForceInv, AsRead
<1>4. ASSUME conf[s][f] = "On" PROVE LastSaysOn(s, f)
  <2>1. PICK i \in Taken(s, f) : /\ \A j \in Taken(s, f) : j <= i
                                 /\ file[i].name = f /\ file[i].arg = "On"
    BY <1>3, <1>4 DEF LastTaken
  <2>2. ASSUME NEW j \in Said(s, f), i < j PROVE FALSE
    <3>1. i \in Of(s) /\ j \in Of(s) /\ i \in Nat /\ j \in Nat
      BY <2>1, <2>2, Places DEF Taken, Said, ForceInv
    <3>2. file[j].name = f /\ file[j].arg = "Off"
      <4>1. file[j].name = f /\ file[j].arg # "On"
        BY <1>2, <2>1, <2>2, <3>1
      <4>2. file[j] \in Directive
        BY <3>1 DEF Of, ForceInv
      <4>3. QED BY <4>1, <4>2 DEF Directive, Flag
    <3>3. ASSUME NEW k \in Of(s), i < k, k < j PROVE ~ Resets(file[k], f)
      BY <2>1, <3>1, <3>3, Places DEF Taken, ForceInv
    <3>4. QED BY <2>1, <2>2, <3>1, <3>2, <3>3 DEF SwitchedOff, Says
  <2>3. \A j \in Said(s, f) : j \in Nat /\ i \in Nat
    BY <2>1, Places DEF Said, Taken, ForceInv
  <2>4. QED BY <1>2, <2>1, <2>2, <2>3 DEF LastSaysOn, IsLast, Says
<1>5. ASSUME LastSaysOn(s, f) PROVE conf[s][f] = "On"
  <2>1. PICK i \in Said(s, f) : /\ \A j \in Said(s, f) : j <= i
                                /\ file[i].name = f /\ file[i].arg = "On"
    BY <1>5 DEF LastSaysOn, IsLast, Says
  <2>2. i \in Taken(s, f)
    BY <1>2, <2>1
  <2>3. PICK m \in Taken(s, f) :
          /\ \A j \in Taken(s, f) : j <= m
          /\ conf[s][f] = IF file[m].name = f THEN file[m].arg ELSE "default"
    BY <1>3, <2>2 DEF LastTaken
  <2>4. m <= i /\ i <= m /\ i \in Nat /\ m \in Nat
    BY <1>2, <2>1, <2>2, <2>3, Places DEF Taken, ForceInv
  <2>5. QED BY <2>1, <2>3, <2>4
<1>6. QED BY <1>4, <1>5

(* What each server runs with is what its own part of the file says, in    *)
(* files of any length and of any number of servers: the last directive    *)
(* with a say about a setting decides, except about a switch that is       *)
(* turned off after it was on, and what hangs on it.                       *)
THEOREM InForceCorrect == Spec => []InForce
<1>1. ForceInv => InForce
  <2> SUFFICES ASSUME ForceInv PROVE InForce
    OBVIOUS
  <2>1. ASSUME NEW s \in Server, NEW f \in GIVEN \cap General
        PROVE  LastWord(s, f, conf[s][f], "default", "null")
    <3>1. f \in Setting /\ f \notin FraudField \cup Pattern
      BY Groups, DirectivesAssumption DEF Setting
    <3>2. QED BY <3>1, ValueAsSaid DEF ForceInv, AsRead
  <2>2. ASSUME NEW s \in Server, ~ SwitchedOff(s, "service_list")
        PROVE  conf[s]["service_list"] = "On" <=> LastSaysOn(s, "service_list")
    BY <2>2, SwitchAsSaid
  <2>3. ASSUME NEW s \in Server, ~ SwitchedOff(s, "fraud_detection")
        PROVE  /\ FraudOn(s) <=> FraudOnAt(s, Len(file) + 1)
               /\ \A f \in GIVEN \cap FraudField :
                    LastWord(s, f, conf[s][f], "default", "null")
               /\ \A p \in Pattern : LastWord(s, p, url_store[s][p], -1, -1)
    <3>1. FraudOn(s) <=> FraudOnAt(s, Len(file) + 1)
      <4>1. Len(file) + 1 \in Nat /\ (FraudOn(s) <=> TakesAt(s, Len(file) + 1))
        BY DEF ForceInv, AsRead
      <4>2. QED BY <2>3, <4>1, OnAsTaken DEF ForceInv
    <3>2. ASSUME NEW f \in GIVEN \cap FraudField
          PROVE  LastWord(s, f, conf[s][f], "default", "null")
      BY <2>3, ValueAsSaid DEF ForceInv, AsRead, Setting
    <3>3. ASSUME NEW p \in Pattern PROVE LastWord(s, p, url_store[s][p], -1, -1)
      BY <2>3, ValueAsSaid DEF ForceInv, AsRead
    <3>4. QED BY <3>1, <3>2, <3>3
  <2>4. ASSUME NEW s \in Server, ~ SwitchedOff(s, "fraud_detection"),
               ~ SwitchedOff(s, "learning_mode")
        PROVE  conf[s]["learning_mode"] = "On" <=> LastSaysOn(s, "learning_mode")
    BY <2>4, SwitchAsSaid
  <2>5. QED BY <2>1, <2>2, <2>3, <2>4 DEF InForce, AsDocumented
<1>2. QED BY <1>1, ForceInit, ForceStep, PTL DEF Spec

=============================================================================
