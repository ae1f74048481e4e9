----------------------- MODULE ContentImport_proofs -----------------------
(***************************************************************************)
(* Proofs about ContentImport, for any content, any number of containers   *)
(* and any organisations: no import touches the ack of a user, the acks of *)
(* Red Hat that an import leaves behind follow the autoack tag, and an     *)
(* import that ends has brought its content into the tables.               *)
(*                                                                         *)
(* The argument.  What an importer holds in memory is of its own content   *)
(* (Prepared).  Importers that run beside an undisturbed one hold the same *)
(* content (Kin), so whatever they write moves a table towards that        *)
(* content and never away from it (Toward).  What the importer itself has  *)
(* established of the table at hand, and of those it has left, then stays  *)
(* true until it ends (Mirroring, BooksKept).                              *)
(*                                                                         *)
(* The last section proves the same of the requests of the content server. *)
(***************************************************************************)
EXTENDS ContentImport, TLAPS

\* The tables whose rows an import copies from the content, where they
\* stand in Order, the rows they should have, and the fields of a row.
Copied == {"rule", "ruleTag", "resolution"}
Place(t) == CASE t = "rule" -> 4 [] t = "ruleTag" -> 5 [] t = "resolution" -> 7
Target(c, t) ==
  CASE t = "rule"       -> RuleRows(c, c.risks)
    [] t = "ruleTag"    -> RuleTagRows(c)
    [] t = "resolution" -> ResolutionRows(c)
Fields(t) ==
  CASE t = "rule"       -> {"active", "total", "pathway"}
    [] t = "ruleTag"    -> {"tag"}
    [] t = "resolution" -> {"risk"}
Shaped(row, t) == row = [f \in Fields(t) |-> row[f]]

Writing(i) == step[i] \in {"insert", "update", "delete"}

\* What a container that is not disturbed by other content knows.
Calm(i) == Running(i) /\ "content" \notin disturbed[i]

-----------------------------------------------------------------------------
(* The order of the tables, spelt out. *)

LEMMA OrderIs ==
  /\ Len(Order) = 8
  /\ Order[1] = "impact" /\ Order[2] = "risk" /\ Order[3] = "tag" /\ Order[4] = "rule"
  /\ Order[5] = "ruleTag" /\ Order[6] = "ack" /\ Order[7] = "resolution" /\ Order[8] = "playbook"
  BY DEF Order

LEMMA TablesAre ==
  Tables = {"impact", "risk", "tag", "rule", "ruleTag", "ack", "resolution", "playbook"}
  <1>1. DOMAIN Order = 1..8
    BY DEF Order
  <1>2. Tables = {Order[n] : n \in 1..8}
    BY <1>1 DEF Tables, Range
  <1>3. 1..8 = {1, 2, 3, 4, 5, 6, 7, 8}
    OBVIOUS
  <1> QED
    BY <1>2, <1>3, OrderIs

-----------------------------------------------------------------------------
(* The types: what importers hold, and the rows of the tables.             *)

Steps == {"maps", "acked", "read", "insert", "update", "delete"}

ImporterType ==
  /\ at \in [Importers -> 0..9]
  /\ step \in [Importers -> Steps]
  /\ content \in [Importers -> Contents]
  /\ DOMAIN snap = Importers
  /\ DOMAIN want = Importers
  /\ DOMAIN maps = Importers
  /\ \A i \in Importers : DOMAIN maps[i] = {"risks", "impacts", "tags", "rules"}
  /\ DOMAIN disturbed = Importers

\* Only tables that lose rows are visited for it.
DeletesWhereMeant ==
  \A i \in Importers : Running(i) /\ step[i] = "delete" => Table(i) \in DeleteMissing

AckRow(row) == row = [by |-> "user"] \/ row = [by |-> "redhat"]
TableType ==
  /\ DOMAIN db = Tables
  /\ \A k \in DOMAIN db["ack"] : AckRow(db["ack"][k])
  /\ \A t \in Copied : \A k \in DOMAIN db[t] : Shaped(db[t][k], t)

\* What an importer has prepared for the table at hand is of its content:
\* the lookups, the acks it asks for, the rows it writes and has read.
Prepared(i) ==
  Running(i) =>
    /\ at[i] = 4 /\ step[i] # "maps" => maps[i].risks = content[i].risks
    /\ at[i] = 6 /\ step[i] # "acked" =>
         \A k \in DOMAIN want[i] : want[i][k] = [by |-> "redhat"] /\ k[1] \in AutoackRules(content[i])
    /\ at[i] = 6 /\ Writing(i) =>
         \A k \in DOMAIN snap[i] : snap[i][k].pk = k /\ snap[i][k].row = [by |-> "redhat"]
    /\ \A t \in Copied : at[i] = Place(t) /\ Writing(i) =>
         /\ want[i] = Target(content[i], t)
         /\ \A k \in DOMAIN snap[i] : snap[i][k].pk = k

Base == ImporterType /\ DeletesWhereMeant /\ TableType /\ \A i \in Importers : Prepared(i)

\* The table that a running importer is at.
LEMMA TableIs ==
  ASSUME ImporterType, NEW i \in Importers, Running(i)
  PROVE  /\ at[i] \in 1..8
         /\ Table(i) \in Tables
         /\ (Table(i) = "tag" <=> at[i] = 3) /\ (Table(i) = "rule" <=> at[i] = 4)
         /\ (Table(i) = "ruleTag" <=> at[i] = 5) /\ (Table(i) = "ack" <=> at[i] = 6)
         /\ (Table(i) = "resolution" <=> at[i] = 7) /\ (Table(i) = "playbook" <=> at[i] = 8)
         /\ \A t \in Copied : Table(i) = t <=> at[i] = Place(t)
  <1>1. at[i] \in {1, 2, 3, 4, 5, 6, 7, 8}
    BY OrderIs DEF Running
  <1>2. Table(i) = Order[at[i]]
    BY DEF Table
  <1>3. /\ Table(i) \in Tables
        /\ (Table(i) = "tag" <=> at[i] = 3) /\ (Table(i) = "rule" <=> at[i] = 4)
        /\ (Table(i) = "ruleTag" <=> at[i] = 5) /\ (Table(i) = "ack" <=> at[i] = 6)
        /\ (Table(i) = "resolution" <=> at[i] = 7) /\ (Table(i) = "playbook" <=> at[i] = 8)
    BY <1>1, <1>2, OrderIs, TablesAre
  <1> QED
    BY <1>1, <1>3 DEF Copied, Place

LEMMA RunningIs ==
  ASSUME ImporterType, NEW i \in Importers
  PROVE  Running(i) <=> at[i] \in 1..8
  BY OrderIs DEF Running

\* A step of importer i leaves what the others hold.
Apart(i) ==
  \A j \in Importers \ {i} :
    /\ at'[j] = at[j] /\ step'[j] = step[j] /\ snap'[j] = snap[j] /\ want'[j] = want[j]
    /\ maps'[j] = maps[j]

\* What Leave and Abandon do.
Left(i) ==
  /\ at'[i] = at[i] + 1
  /\ step'[i] \in {"maps", "acked", "read"}
  /\ at'[i] = 4 => step'[i] = "maps"
  /\ at'[i] = 6 => step'[i] = "acked"
Restarted(i) == at'[i] = 1 /\ step'[i] = "read"
Stays(i, s)  == at'[i] = at[i] /\ step'[i] = s
Frame(i) ==
  ImporterType' /\ Apart(i) /\ content' = content /\ disturbed' = disturbed /\ newOrg' = newOrg

LEMMA LeaveSays ==
  ASSUME ImporterType, NEW i \in Importers, Running(i), Leave(i), maps' = maps,
         content' = content, disturbed' = disturbed, newOrg' = newOrg
  PROVE  Left(i) /\ Frame(i)
  <1>1. at[i] \in 1..8
    BY TableIs
  <1>2. FirstStep("rule") = "maps" /\ FirstStep("ack") = "acked"
    BY DEF FirstStep
  <1>3. \A t : FirstStep(t) \in {"maps", "acked", "read"}
    BY DEF FirstStep
  <1>4. /\ at' = [at EXCEPT ![i] = @ + 1]
        /\ step' = [step EXCEPT ![i] = IF at[i] = 8 THEN "read" ELSE FirstStep(Order[at[i] + 1])]
        /\ snap' = [snap EXCEPT ![i] = Empty] /\ want' = [want EXCEPT ![i] = Empty]
    BY OrderIs DEF Leave
  <1>5. /\ at'[i] = at[i] + 1 /\ at' \in [Importers -> 0..9]
        /\ DOMAIN snap' = Importers /\ DOMAIN want' = Importers
    BY <1>1, <1>4 DEF ImporterType
  <1>6. step'[i] = IF at[i] = 8 THEN "read" ELSE FirstStep(Order[at[i] + 1])
    BY <1>4 DEF ImporterType
  <1>7. step'[i] \in {"maps", "acked", "read"}
    BY <1>3, <1>6
  <1>8. step' \in [Importers -> Steps]
    BY <1>4, <1>6, <1>7 DEF ImporterType, Steps
  <1>9. at'[i] = 4 => step'[i] = "maps"
    <2> SUFFICES ASSUME at'[i] = 4 PROVE step'[i] = "maps"
      OBVIOUS
    <2>1. at[i] = 3
      BY <1>1, <1>5
    <2> QED
      BY <2>1, <1>6, <1>2, OrderIs
  <1>10. at'[i] = 6 => step'[i] = "acked"
    <2> SUFFICES ASSUME at'[i] = 6 PROVE step'[i] = "acked"
      OBVIOUS
    <2>1. at[i] = 5
      BY <1>1, <1>5
    <2> QED
      BY <2>1, <1>6, <1>2, OrderIs
  <1>11. Apart(i)
    BY <1>4 DEF Apart, ImporterType
  <1> QED
    BY <1>5, <1>7, <1>8, <1>9, <1>10, <1>11 DEF Left, Frame, ImporterType

LEMMA AbandonSays ==
  ASSUME ImporterType, NEW i \in Importers, Abandon(i),
         content' = content, disturbed' = disturbed, newOrg' = newOrg
  PROVE  Restarted(i) /\ Frame(i)
  <1>1. /\ at' = [at EXCEPT ![i] = 1] /\ step' = [step EXCEPT ![i] = "read"]
        /\ snap' = [snap EXCEPT ![i] = Empty] /\ want' = [want EXCEPT ![i] = Empty]
        /\ maps' = [maps EXCEPT ![i] = NoMaps]
    BY DEF Abandon
  <1>2. Restarted(i) /\ Apart(i)
    BY <1>1 DEF ImporterType, Apart, Restarted
  <1>3. ImporterType'
    BY <1>1 DEF ImporterType, Steps, NoMaps
  <1> QED
    BY <1>2, <1>3 DEF Frame

LEMMA GoSays ==
  ASSUME ImporterType, NEW i \in Importers, NEW s \in Steps, Go(i, s), at' = at,
         DOMAIN snap' = Importers, DOMAIN want' = Importers, maps' = maps,
         content' = content, disturbed' = disturbed, newOrg' = newOrg,
         \A j \in Importers \ {i} : snap'[j] = snap[j] /\ want'[j] = want[j]
  PROVE  Stays(i, s) /\ Frame(i)
  <1>1. step' = [step EXCEPT ![i] = s]
    BY DEF Go
  <1>2. Stays(i, s) /\ Apart(i)
    BY <1>1 DEF ImporterType, Apart, Stays
  <1>3. ImporterType'
    BY <1>1 DEF ImporterType
  <1> QED
    BY <1>2, <1>3 DEF Frame

-----------------------------------------------------------------------------
(* What the steps of an importer do. *)

LEMMA LoadMapsSays ==
  ASSUME ImporterType, NEW i \in Importers, LoadMaps(i)
  PROVE  /\ Running(i) /\ step[i] = "maps" /\ Frame(i) /\ db' = db
         /\ \/ Restarted(i)
            \/ /\ Stays(i, "read") /\ snap' = snap /\ want' = want
               /\ at[i] = 4 =>
                    /\ maps'[i].risks = [n \in DOMAIN content[i].risks |-> content[i].risks[n]]
                    /\ maps'[i].tags = DOMAIN db["tag"]
               /\ at[i] # 4 => maps'[i].tags = maps[i].tags
  <1>1. /\ Running(i) /\ step[i] = "maps" /\ db' = db
        /\ content' = content /\ disturbed' = disturbed /\ newOrg' = newOrg
    BY DEF LoadMaps, Outside
  <1>2. Table(i) = "rule" <=> at[i] = 4
    BY <1>1, TableIs
  <1>3. CASE Abandon(i)
    BY <1>1, <1>3, AbandonSays
  <1>4. CASE /\ at[i] = 4 /\ Go(i, "read") /\ UNCHANGED <<at, snap, want>>
             /\ maps' = [maps EXCEPT ![i] = [NoMaps EXCEPT
                  !.risks = [n \in DOMAIN content[i].risks |-> content[i].risks[n]],
                  !.impacts = DOMAIN db["impact"], !.tags = DOMAIN db["tag"]]]
    <2>1. /\ maps'[i].risks = [n \in DOMAIN content[i].risks |-> content[i].risks[n]]
          /\ maps'[i].tags = DOMAIN db["tag"]
          /\ DOMAIN maps'[i] = {"risks", "impacts", "tags", "rules"}
      BY <1>4 DEF ImporterType, NoMaps
    <2>2. DOMAIN maps' = Importers /\ \A j \in Importers \ {i} : maps'[j] = maps[j]
      BY <1>4 DEF ImporterType
    <2>3. step' = [step EXCEPT ![i] = "read"]
      BY <1>4 DEF Go
    <2>4. Stays(i, "read") /\ Apart(i)
      BY <2>2, <2>3, <1>4 DEF ImporterType, Apart, Stays
    <2>5. ImporterType'
      BY <2>1, <2>2, <2>3, <1>1, <1>4 DEF ImporterType, Steps
    <2> QED
      BY <2>1, <2>4, <2>5, <1>1, <1>4 DEF Frame
  <1>5. CASE /\ at[i] # 4 /\ Go(i, "read") /\ UNCHANGED <<at, snap, want>>
             /\ maps' = [maps EXCEPT ![i].rules = DOMAIN db["rule"]]
    <2>1. /\ maps'[i].tags = maps[i].tags
          /\ DOMAIN maps'[i] = {"risks", "impacts", "tags", "rules"}
      BY <1>5 DEF ImporterType
    <2>2. DOMAIN maps' = Importers /\ \A j \in Importers \ {i} : maps'[j] = maps[j]
      BY <1>5 DEF ImporterType
    <2>3. step' = [step EXCEPT ![i] = "read"]
      BY <1>5 DEF Go
    <2>4. Stays(i, "read") /\ Apart(i)
      BY <2>2, <2>3, <1>5 DEF ImporterType, Apart, Stays
    <2>5. ImporterType'
      BY <2>1, <2>2, <2>3, <1>1, <1>5 DEF ImporterType, Steps
    <2> QED
      BY <2>1, <2>4, <2>5, <1>1, <1>5 DEF Frame
  <1> QED
    BY <1>2, <1>3, <1>4, <1>5 DEF LoadMaps

LEMMA ReadAckedSays ==
  ASSUME ImporterType, NEW i \in Importers, ReadAcked(i)
  PROVE  /\ Running(i) /\ step[i] = "acked" /\ Frame(i) /\ db' = db /\ maps' = maps
         /\ Stays(i, "read") /\ want'[i] = AutoackRows(content[i])
  <1>1. /\ Running(i) /\ step[i] = "acked" /\ db' = db /\ maps' = maps /\ at' = at /\ snap' = snap
        /\ want' = [want EXCEPT ![i] = AutoackRows(content[i])] /\ Go(i, "read")
        /\ content' = content /\ disturbed' = disturbed /\ newOrg' = newOrg
    BY DEF ReadAcked, Outside
  <1>2. /\ DOMAIN want' = Importers /\ want'[i] = AutoackRows(content[i])
        /\ \A j \in Importers \ {i} : want'[j] = want[j]
    BY <1>1 DEF ImporterType
  <1>3. Stays(i, "read") /\ Frame(i)
    BY <1>1, <1>2, GoSays DEF ImporterType, Steps
  <1> QED
    BY <1>1, <1>2, <1>3

\* The rows that an importer has read, each under the key it stands for.
HasRead(i, t) ==
  /\ DOMAIN snap'[i] = {KeyOf(t, pk) : pk \in InScope(t)}
  /\ \A k \in DOMAIN snap'[i] :
       /\ KeyOf(t, snap'[i][k].pk) = k
       /\ snap'[i][k].pk \in InScope(t)
       /\ snap'[i][k].row = db[t][snap'[i][k].pk]

LEMMA ReadSays ==
  ASSUME ImporterType, NEW i \in Importers, Read(i)
  PROVE  /\ Running(i) /\ step[i] = "read" /\ Frame(i) /\ db' = db
         /\ \/ Restarted(i)
            \/ Left(i) /\ maps' = maps /\ Skips(i, Table(i))
            \/ /\ Stays(i, "insert") /\ maps' = maps /\ ~ Skips(i, Table(i))
               /\ HasRead(i, Table(i)) /\ want'[i] = Config(i, Table(i))
  <1> DEFINE t == Table(i)
  <1>1. /\ Running(i) /\ step[i] = "read" /\ db' = db
        /\ content' = content /\ disturbed' = disturbed /\ newOrg' = newOrg
    BY DEF Read, Outside
  <1>2. CASE Raises(i, t)
    <2>1. Abandon(i)
      BY <1>2 DEF Read
    <2> QED
      BY <1>1, <2>1, AbandonSays
  <1>3. CASE ~ Raises(i, t) /\ Skips(i, t)
    <2>1. Leave(i) /\ maps' = maps
      BY <1>3 DEF Read
    <2> QED
      BY <1>1, <1>3, <2>1, LeaveSays
  <1>4. CASE ~ Raises(i, t) /\ ~ Skips(i, t)
    <2>1. PICK pick \in [{KeyOf(t, pk) : pk \in InScope(t)} -> InScope(t)] :
            /\ \A k \in DOMAIN pick : KeyOf(t, pick[k]) = k
            /\ snap' = [snap EXCEPT ![i] =
                          [k \in DOMAIN pick |-> [pk |-> pick[k], row |-> db[t][pick[k]]]]]
            /\ want' = [want EXCEPT ![i] = Config(i, t)]
            /\ Go(i, "insert") /\ at' = at /\ maps' = maps
      BY <1>4 DEF Read
    <2> HIDE DEF t
    <2>2. snap'[i] = [k \in DOMAIN pick |-> [pk |-> pick[k], row |-> db[t][pick[k]]]]
      BY <2>1 DEF ImporterType
    <2>3. HasRead(i, t)
      BY <2>1, <2>2 DEF HasRead
    <2>4. want'[i] = Config(i, t)
      BY <2>1 DEF ImporterType
    <2>5. /\ DOMAIN snap' = Importers /\ DOMAIN want' = Importers
          /\ \A j \in Importers \ {i} : snap'[j] = snap[j] /\ want'[j] = want[j]
      BY <2>1 DEF ImporterType
    <2>6. Stays(i, "insert") /\ Frame(i)
      BY <2>1, <2>5, <1>1, GoSays DEF Steps
    <2>7. ~ Skips(i, t) /\ maps' = maps
      BY <1>4, <2>1
    <2> USE DEF t
    <2> QED
      BY <1>1, <2>3, <2>4, <2>6, <2>7
  <1> QED
    BY <1>2, <1>3, <1>4

\* The rows that an insert adds: those wanted that were not read.
NewKeys(i) == DOMAIN want[i] \ DOMAIN snap[i]

\* What an insert does to its table.
Inserts(i, t) ==
  /\ DOMAIN db' = Tables
  /\ \A u \in Tables \ {t} : db'[u] = db[u]
  /\ DOMAIN db'[t] = DOMAIN db[t] \cup {Pk(t, k) : k \in NewKeys(i)}
  /\ \A k \in DOMAIN db[t] : db'[t][k] = db[t][k]
  /\ t # "playbook" =>
       /\ NewKeys(i) \cap DOMAIN db[t] = {}
       /\ DOMAIN db'[t] = DOMAIN db[t] \cup NewKeys(i)
       /\ \A k \in NewKeys(i) : db'[t][k] = want[i][k]

LEMMA InsertSays ==
  ASSUME ImporterType, DOMAIN db = Tables, NEW i \in Importers, Insert(i)
  PROVE  /\ Running(i) /\ step[i] = "insert" /\ Frame(i)
         /\ \/ db' = db /\ Restarted(i)
            \/ /\ Inserts(i, Table(i)) /\ maps' = maps
               /\ \/ snap[i] = Empty /\ Left(i)
                  \/ Stays(i, "update") /\ snap' = snap /\ want' = want
  <1> DEFINE t == Table(i)
             rows == Restrict(want[i], DOMAIN want[i] \ DOMAIN snap[i])
  <1>1. /\ Running(i) /\ step[i] = "insert"
        /\ content' = content /\ disturbed' = disturbed /\ newOrg' = newOrg
    BY DEF Insert, Outside
  <1>2. t \in Tables
    BY <1>1, TableIs
  <1>3. CASE Refused(t, rows)
    <2>1. Abandon(i) /\ db' = db
      BY <1>3 DEF Insert
    <2> QED
      BY <1>1, <2>1, AbandonSays
  <1>4. CASE ~ Refused(t, rows)
    <2>1. /\ db' = [db EXCEPT ![t] =
                [pk \in DOMAIN @ \cup {Pk(t, k) : k \in DOMAIN rows} |->
                   IF pk \in DOMAIN @ THEN @[pk] ELSE rows[KeyOf(t, pk)]]]
          /\ maps' = maps
          /\ IF snap[i] = Empty THEN Leave(i)
             ELSE Go(i, "update") /\ UNCHANGED <<at, snap, want>>
      BY <1>4 DEF Insert
    <2>2. DOMAIN rows = NewKeys(i) /\ \A k \in NewKeys(i) : rows[k] = want[i][k]
      BY DEF Restrict, NewKeys
    <2>3. t # "playbook" => NewKeys(i) \cap DOMAIN db[t] = {}
      BY <1>4, <2>2 DEF Refused
    <2> HIDE DEF t, rows
    <2>4. /\ DOMAIN db' = Tables /\ \A u \in Tables \ {t} : db'[u] = db[u]
          /\ db'[t] = [pk \in DOMAIN db[t] \cup {Pk(t, k) : k \in DOMAIN rows} |->
                   IF pk \in DOMAIN db[t] THEN db[t][pk] ELSE rows[KeyOf(t, pk)]]
      BY <1>2, <2>1
    <2>5. /\ DOMAIN db'[t] = DOMAIN db[t] \cup {Pk(t, k) : k \in NewKeys(i)}
          /\ \A k \in DOMAIN db[t] : db'[t][k] = db[t][k]
      BY <2>2, <2>4
    <2>6. ASSUME t # "playbook"
          PROVE  /\ DOMAIN db'[t] = DOMAIN db[t] \cup NewKeys(i)
                 /\ \A k \in NewKeys(i) : db'[t][k] = want[i][k]
      <3>1. \A k : Pk(t, k) = k /\ KeyOf(t, k) = k
        BY <2>6 DEF Pk, KeyOf
      <3>2. {Pk(t, k) : k \in NewKeys(i)} = NewKeys(i)
        BY <3>1
      <3> QED
        BY <2>2, <2>3, <2>4, <2>5, <2>6, <3>1, <3>2
    <2>7. Inserts(i, t)
      BY <2>3, <2>4, <2>5, <2>6 DEF Inserts
    <2>8. CASE snap[i] = Empty
      BY <1>1, <2>1, <2>7, <2>8, LeaveSays DEF t
    <2>9. CASE snap[i] # Empty
      <3>1. Go(i, "update") /\ at' = at /\ snap' = snap /\ want' = want
        BY <2>1, <2>9
      <3>2. Stays(i, "update") /\ Frame(i)
        BY <1>1, <2>1, <3>1, GoSays DEF ImporterType, Steps
      <3> QED
        BY <1>1, <2>1, <2>7, <3>1, <3>2 DEF t
    <2> QED
      BY <2>8, <2>9
  <1> QED
    BY <1>3, <1>4

\* The rows and fields that an update writes.
Changed(i) == {k \in DOMAIN want[i] \cap DOMAIN snap[i] : snap[i][k].row # want[i][k]}
ChangedFields(i) ==
  {f \in UNION {DOMAIN want[i][k] : k \in Changed(i)} :
     \E k \in Changed(i) : snap[i][k].row[f] # want[i][k][f]}

\* What an update does to a table whose rows are stored by their key.
Updates(i, t) ==
  /\ DOMAIN db' = Tables
  /\ \A u \in Tables \ {t} : db'[u] = db[u]
  /\ DOMAIN db'[t] = DOMAIN db[t]
  /\ t # "playbook" /\ (\A k \in DOMAIN snap[i] : snap[i][k].pk = k) =>
       \A k \in DOMAIN db[t] :
         db'[t][k] = IF k \in Changed(i)
                     THEN [f \in DOMAIN want[i][k] |->
                             IF f \in ChangedFields(i) THEN want[i][k][f] ELSE db[t][k][f]]
                     ELSE db[t][k]

LEMMA UpdateSays ==
  ASSUME ImporterType, DOMAIN db = Tables, NEW i \in Importers, Update(i)
  PROVE  /\ Running(i) /\ step[i] = "update" /\ Frame(i) /\ maps' = maps
         /\ Updates(i, Table(i))
         /\ \/ Table(i) \in DeleteMissing /\ Stays(i, "delete") /\ snap' = snap /\ want' = want
            \/ Table(i) \notin DeleteMissing /\ Left(i)
  <1> DEFINE t == Table(i)
             written == {snap[i][k].pk : k \in Changed(i)} \cap DOMAIN db[t]
             merged(pk) == [f \in DOMAIN want[i][KeyOf(t, pk)] |->
                IF f \in ChangedFields(i) THEN want[i][KeyOf(t, pk)][f] ELSE db[t][pk][f]]
  <1>1. /\ Running(i) /\ step[i] = "update" /\ maps' = maps
        /\ content' = content /\ disturbed' = disturbed /\ newOrg' = newOrg
    BY DEF Update, Outside
  <1>2. t \in Tables
    BY <1>1, TableIs
  <1>3. /\ db' = [db EXCEPT ![t] = [pk \in DOMAIN @ |->
                      IF pk \in written THEN merged(pk) ELSE @[pk]]]
        /\ IF t \in DeleteMissing
           THEN Go(i, "delete") /\ UNCHANGED <<at, snap, want>>
           ELSE Leave(i)
    BY DEF Update, Changed, ChangedFields
  <1>4. ASSUME t # "playbook", \A k \in DOMAIN snap[i] : snap[i][k].pk = k
        PROVE  \A k \in DOMAIN db[t] :
                 /\ (k \in written <=> k \in Changed(i))
                 /\ merged(k) = [f \in DOMAIN want[i][k] |->
                       IF f \in ChangedFields(i) THEN want[i][k][f] ELSE db[t][k][f]]
    <2>1. \A k : KeyOf(t, k) = k
      BY <1>4 DEF KeyOf
    <2>2. {snap[i][k].pk : k \in Changed(i)} = Changed(i)
      BY <1>4 DEF Changed
    <2> QED
      BY <2>1, <2>2
  <1>5. Updates(i, t)
    <2> HIDE DEF t, written, merged
    <2>1. /\ DOMAIN db' = Tables /\ \A u \in Tables \ {t} : db'[u] = db[u]
          /\ db'[t] = [pk \in DOMAIN db[t] |-> IF pk \in written THEN merged(pk) ELSE db[t][pk]]
      BY <1>2, <1>3
    <2> QED
      BY <1>4, <2>1 DEF Updates
  <1>6. CASE t \in DeleteMissing
    <2>1. Go(i, "delete") /\ at' = at /\ snap' = snap /\ want' = want
      BY <1>3, <1>6
    <2>2. Stays(i, "delete") /\ Frame(i)
      BY <1>1, <2>1, GoSays DEF ImporterType, Steps
    <2> QED
      BY <1>1, <1>5, <1>6, <2>1, <2>2
  <1>7. CASE t \notin DeleteMissing
    <2>1. Leave(i)
      BY <1>3, <1>7
    <2> QED
      BY <1>1, <1>5, <1>7, <2>1, LeaveSays
  <1> QED
    BY <1>6, <1>7

\* What deleting the rows in gone does; the playbooks of a resolution go
\* with it, and only with it.
Removes(t, gone) ==
  /\ DOMAIN db' = Tables
  /\ \A u \in Tables \ {t, "playbook"} : db'[u] = db[u]
  /\ DOMAIN db'[t] = DOMAIN db[t] \ gone
  /\ \A k \in DOMAIN db'[t] : db'[t][k] = db[t][k]
  /\ t # "resolution" \/ gone = {} => DOMAIN db'["playbook"] = DOMAIN db["playbook"]

LEMMA WithoutSays ==
  ASSUME DOMAIN db = Tables, NEW t \in Tables \ {"playbook"}, NEW gone, db' = WithoutRows(t, gone)
  PROVE  Removes(t, gone)
  <1>1. "playbook" \in Tables /\ t \in Tables /\ t # "playbook"
    BY TablesAre
  <1>2. db' = [[db EXCEPT ![t] = Restrict(db[t], DOMAIN db[t] \ gone)] EXCEPT
             !["playbook"] = Restrict(db["playbook"], {pk \in DOMAIN db["playbook"] :
                  ~ (t = "resolution" /\ <<pk[1], db["playbook"][pk].sys>> \in gone)})]
    BY <1>1 DEF WithoutRows
  <1>3. /\ DOMAIN db' = Tables /\ \A u \in Tables \ {t, "playbook"} : db'[u] = db[u]
        /\ db'[t] = Restrict(db[t], DOMAIN db[t] \ gone)
        /\ db'["playbook"] = Restrict(db["playbook"], {pk \in DOMAIN db["playbook"] :
                  ~ (t = "resolution" /\ <<pk[1], db["playbook"][pk].sys>> \in gone)})
    BY <1>1, <1>2
  <1>4. DOMAIN db'[t] = DOMAIN db[t] \ gone /\ \A k \in DOMAIN db'[t] : db'[t][k] = db[t][k]
    BY <1>3 DEF Restrict
  <1>5. t # "resolution" \/ gone = {} => DOMAIN db'["playbook"] = DOMAIN db["playbook"]
    BY <1>3 DEF Restrict
  <1> QED
    BY <1>3, <1>4, <1>5 DEF Removes

LEMMA DeleteSays ==
  ASSUME ImporterType, DeletesWhereMeant, DOMAIN db = Tables, NEW i \in Importers, Delete(i)
  PROVE  /\ Running(i) /\ step[i] = "delete" /\ Frame(i) /\ maps' = maps /\ Left(i)
         /\ Table(i) \in DeleteMissing
         /\ Removes(Table(i), InScope(Table(i)) \ DOMAIN want[i])
  <1>1. /\ Running(i) /\ step[i] = "delete" /\ Leave(i) /\ maps' = maps
        /\ content' = content /\ disturbed' = disturbed /\ newOrg' = newOrg
        /\ db' = WithoutRows(Table(i), InScope(Table(i)) \ DOMAIN want[i])
    BY DEF Delete
  <1>2. Table(i) \in DeleteMissing
    BY <1>1 DEF DeletesWhereMeant
  <1>3. Table(i) \in Tables \ {"playbook"}
    BY <1>2, TablesAre DEF DeleteMissing
  <1> QED
    BY <1>1, <1>2, <1>3, LeaveSays, WithoutSays

LEMMA CrashSays ==
  ASSUME ImporterType, NEW i \in Importers, Crash(i)
  PROVE  Running(i) /\ Frame(i) /\ db' = db /\ Restarted(i)
  BY AbandonSays DEF Crash

LEMMA StartSays ==
  ASSUME ImporterType, NEW i \in Importers, Start(i)
  PROVE  /\ ~ Running(i) /\ db' = db /\ content' = content /\ newOrg' = newOrg
         /\ ImporterType' /\ Apart(i) /\ Restarted(i)
         /\ Others(i) # {} => "content" \in disturbed'[i]
         /\ newOrg # NoOrg => "org" \in disturbed'[i]
         /\ \A j \in Importers \ {i} :
              /\ disturbed[j] \subseteq disturbed'[j]
              /\ j \in Others(i) => "content" \in disturbed'[j]
  <1>1. /\ ~ Running(i) /\ db' = db /\ content' = content /\ newOrg' = newOrg /\ snap' = snap /\ want' = want
        /\ at' = [at EXCEPT ![i] = 1] /\ step' = [step EXCEPT ![i] = "read"]
        /\ maps' = [maps EXCEPT ![i] = NoMaps]
        /\ disturbed' = [j \in Importers |->
             IF j = i THEN (IF Others(i) # {} THEN {"content"} ELSE {})
                           \cup (IF newOrg # NoOrg THEN {"org"} ELSE {})
             ELSE IF j \in Others(i) THEN disturbed[j] \cup {"content"} ELSE disturbed[j]]
    BY DEF Start
  <1>2. Restarted(i) /\ Apart(i)
    BY <1>1 DEF ImporterType, Apart, Restarted
  <1>3. ImporterType'
    BY <1>1 DEF ImporterType, Steps, NoMaps
  <1>4. /\ Others(i) # {} => "content" \in disturbed'[i]
        /\ newOrg # NoOrg => "org" \in disturbed'[i]
        /\ \A j \in Importers \ {i} :
              /\ disturbed[j] \subseteq disturbed'[j]
              /\ j \in Others(i) => "content" \in disturbed'[j]
    <2> HIDE DEF Others, NoOrg
    <2> QED
      BY <1>1
  <1> QED
    BY <1>1, <1>2, <1>3, <1>4

\* Users and the Advisor Service change the acks alone, and only a new
\* organisation brings acks of Red Hat.
Outer == View \/ Service \/ UNCHANGED vars

LEMMA SetAckSays ==
  ASSUME DOMAIN db = Tables, NEW k, SetAck(k, "user")
  PROVE  /\ DOMAIN db' = Tables /\ \A u \in Tables \ {"ack"} : db'[u] = db[u]
         /\ \A x \in DOMAIN db'["ack"] :
              db'["ack"][x] = [by |-> "user"] \/ (x \in DOMAIN db["ack"] /\ db'["ack"][x] = db["ack"][x])
  <1>1. "ack" \in Tables
    BY TablesAre
  <1>2. db'["ack"] = [x \in DOMAIN db["ack"] \cup {k} |-> IF x = k THEN [by |-> "user"] ELSE db["ack"][x]]
    BY <1>1 DEF SetAck
  <1>3. DOMAIN db' = Tables /\ \A u \in Tables \ {"ack"} : db'[u] = db[u]
    BY <1>1 DEF SetAck
  <1> QED
    BY <1>2, <1>3

LEMMA OuterSays ==
  ASSUME ImporterType, TableType, Outer
  PROVE  /\ importerVars' = importerVars
         /\ DOMAIN db' = Tables /\ \A u \in Tables \ {"ack", "playbook"} : db'[u] = db[u]
         /\ DOMAIN db'["playbook"] = DOMAIN db["playbook"]
         /\ \A k \in DOMAIN db'["ack"] :
              /\ AckRow(db'["ack"][k])
              /\ \/ db'["ack"][k].by = "user"
                 \/ k \in DOMAIN db["ack"] /\ db'["ack"][k] = db["ack"][k]
                 \/ newOrg # NoOrg
         /\ DOMAIN disturbed' = Importers /\ \A i \in Importers : disturbed[i] \subseteq disturbed'[i]
         /\ \/ newOrg' \in {newOrg, NoOrg}
            \/ \A i \in Importers : Running(i) => "org" \in disturbed'[i]
  <1>0. "ack" \in Tables /\ "playbook" \in Tables /\ DOMAIN db = Tables
    BY TablesAre DEF TableType
  <1> DEFINE Tells ==
         /\ DOMAIN db' = Tables /\ \A u \in Tables \ {"ack", "playbook"} : db'[u] = db[u]
         /\ DOMAIN db'["playbook"] = DOMAIN db["playbook"]
         /\ \A k \in DOMAIN db'["ack"] :
              /\ AckRow(db'["ack"][k])
              /\ \/ db'["ack"][k].by = "user"
                 \/ k \in DOMAIN db["ack"] /\ db'["ack"][k] = db["ack"][k]
                 \/ newOrg # NoOrg
  <1>1. db' = db => Tells
    BY <1>0 DEF TableType
  <1>2. \A k : SetAck(k, "user") => Tells
    <2> SUFFICES ASSUME NEW k, SetAck(k, "user") PROVE Tells
      OBVIOUS
    <2>1. /\ DOMAIN db' = Tables /\ \A u \in Tables \ {"ack"} : db'[u] = db[u]
          /\ \A x \in DOMAIN db'["ack"] :
              db'["ack"][x] = [by |-> "user"] \/ (x \in DOMAIN db["ack"] /\ db'["ack"][x] = db["ack"][x])
      BY <1>0, SetAckSays
    <2> QED
      BY <1>0, <2>1 DEF TableType, AckRow
  <1>3. ASSUME NEW gone, db' = WithoutRows("ack", gone)
        PROVE  Tells
    <2>1. Removes("ack", gone)
      BY <1>0, <1>3, WithoutSays
    <2> QED
      BY <1>0, <2>1 DEF Removes, TableType
  <1>4. CASE View
    <2>1. importerVars' = importerVars /\ newOrg' = newOrg /\ disturbed' = disturbed
      BY <1>4 DEF View, CreateAck, ReadAck, SaveAck, DestroyAck
    <2>2. db' = db \/ (\E k : SetAck(k, "user")) \/ (\E gone : db' = WithoutRows("ack", gone))
      <3>1. CASE \E r \in DOMAIN db["rule"], o \in Orgs : CreateAck(r, o)
        BY <3>1 DEF CreateAck
      <3>2. CASE \E r \in DOMAIN db["rule"], o \in Orgs :
                   \E op \in {"update", "destroy", "satDestroy"} : ReadAck(op, r, o)
        BY <3>2 DEF ReadAck
      <3>3. CASE SaveAck
        BY <3>3 DEF SaveAck
      <3>4. CASE DestroyAck
        BY <3>4 DEF DestroyAck
      <3> QED
        BY <1>4, <3>1, <3>2, <3>3, <3>4 DEF View
    <2>3. Tells
      BY <1>1, <1>2, <1>3, <2>2
    <2> QED
      BY <2>1, <2>3 DEF ImporterType
  <1>5. CASE NewOrgWrite
    <2>1. /\ importerVars' = importerVars /\ newOrg' = NoOrg /\ disturbed' = disturbed /\ newOrg # NoOrg
      BY <1>5 DEF NewOrgWrite
    <2>2. CASE db' = db
      BY <2>1, <2>2, <1>1 DEF ImporterType
    <2>3. CASE db' = [db EXCEPT !["ack"] = [k \in DOMAIN @ \cup (newOrg.rules \X {newOrg.org}) |->
                      IF k \in newOrg.rules \X {newOrg.org} THEN [by |-> "redhat"] ELSE @[k]]]
      <3> DEFINE new == newOrg.rules \X {newOrg.org}
      <3> HIDE DEF new
      <3>1. db' = [db EXCEPT !["ack"] = [k \in DOMAIN @ \cup new |->
                      IF k \in new THEN [by |-> "redhat"] ELSE @[k]]]
        BY <2>3 DEF new
      <3>2. /\ DOMAIN db' = Tables /\ \A u \in Tables \ {"ack"} : db'[u] = db[u]
            /\ db'["ack"] = [k \in DOMAIN db["ack"] \cup new |->
                      IF k \in new THEN [by |-> "redhat"] ELSE db["ack"][k]]
        BY <1>0, <3>1
      <3>3. \A k \in DOMAIN db'["ack"] : AckRow(db'["ack"][k])
        BY <3>2 DEF TableType, AckRow
      <3>4. Tells
        BY <1>0, <2>1, <3>2, <3>3
      <3> QED
        BY <2>1, <3>4 DEF ImporterType
    <2> QED
      BY <1>5, <2>2, <2>3 DEF NewOrgWrite
  <1>6. ASSUME NEW o \in Orgs, NewOrgRead(o)
        PROVE  /\ importerVars' = importerVars /\ db' = db
               /\ DOMAIN disturbed' = Importers
               /\ \A i \in Importers : disturbed[i] \subseteq disturbed'[i]
               /\ \A i \in Importers : Running(i) => "org" \in disturbed'[i]
    <2>1. /\ importerVars' = importerVars /\ db' = db
          /\ disturbed' = [i \in Importers |-> IF Running(i) THEN disturbed[i] \cup {"org"} ELSE disturbed[i]]
      BY <1>6 DEF NewOrgRead
    <2> QED
      BY <2>1
  <1>7. CASE UNCHANGED vars
    <2>1. importerVars' = importerVars /\ newOrg' = newOrg /\ disturbed' = disturbed /\ db' = db
      BY <1>7 DEF vars
    <2> QED
      BY <1>1, <2>1 DEF ImporterType
  <1> QED
    BY <1>1, <1>4, <1>5, <1>6, <1>7 DEF Outer, Service

\* Every step is one of these.
LEMMA StepIs ==
  ASSUME [Next]_vars
  PROVE  \/ Outer
         \/ \E i \in Importers : \/ Start(i) \/ LoadMaps(i) \/ ReadAcked(i) \/ Read(i)
                                 \/ Insert(i) \/ Update(i) \/ Delete(i) \/ Crash(i)
  BY DEF Next, Import, Outer

-----------------------------------------------------------------------------
(* The content is of the shape of the tables. *)

LEMMA TargetShaped ==
  ASSUME NEW c, NEW t \in Copied, NEW k \in DOMAIN Target(c, t)
  PROVE  Shaped(Target(c, t)[k], t) /\ DOMAIN Target(c, t)[k] = Fields(t)
  <1>1. CASE t = "rule"
    <2>1. Target(c, t) = RuleRows(c, c.risks) /\ Fields(t) = {"active", "total", "pathway"}
      BY <1>1 DEF Target, Fields
    <2>2. Target(c, t)[k] = RuleRow(c, c.risks, LastRow(c, k))
      BY <2>1 DEF RuleRows
    <2>3. PICK a, b, p : Target(c, t)[k] = [active |-> a, total |-> b, pathway |-> p]
      BY <2>2 DEF RuleRow
    <2> QED
      BY <2>1, <2>3 DEF Shaped
  <1>2. CASE t = "ruleTag"
    <2>1. Target(c, t) = RuleTagRows(c) /\ Fields(t) = {"tag"}
      BY <1>2 DEF Target, Fields
    <2>2. PICK a : Target(c, t)[k] = [tag |-> a]
      BY <2>1 DEF RuleTagRows
    <2> QED
      BY <2>1, <2>2 DEF Shaped
  <1>3. CASE t = "resolution"
    <2>1. Target(c, t) = ResolutionRows(c) /\ Fields(t) = {"risk"}
      BY <1>3 DEF Target, Fields
    <2>2. PICK a : Target(c, t)[k] = [risk |-> a]
      BY <2>1 DEF ResolutionRows
    <2> QED
      BY <2>1, <2>2 DEF Shaped
  <1> QED
    BY <1>1, <1>2, <1>3 DEF Copied

-----------------------------------------------------------------------------
(* Base holds always. *)

LEMMA CopiedAre ==
  /\ Copied \subseteq Tables /\ "ack" \in Tables /\ "tag" \in Tables /\ "playbook" \in Tables
  /\ "ack" \notin Copied /\ "tag" \notin Copied /\ "playbook" \notin Copied
  /\ \A t \in Copied : Place(t) \in {4, 5, 7}
  BY TablesAre DEF Copied, Place

LEMMA BaseInit == Init => Base
  <1> SUFFICES ASSUME Init PROVE Base
    OBVIOUS
  <1>1. PICK load \in Loads : content = load.content
    BY DEF Init
  <1>2. content \in [Importers -> Contents]
    BY <1>1, ImportAssumption
  <1>3. ImporterType
    BY <1>2 DEF Init, ImporterType, Steps, NoMaps, Idle
  <1>4. \A i \in Importers : ~ Running(i)
    BY <1>3, RunningIs DEF Init, Idle
  <1>5. \A t \in Tables : DOMAIN db[t] = {}
    BY DEF Init, Empty
  <1>6. TableType
    BY <1>5, CopiedAre DEF TableType, Init
  <1> QED
    BY <1>3, <1>4, <1>6 DEF Base, DeletesWhereMeant, Prepared

LEMMA PreparedApart ==
  ASSUME ImporterType, ImporterType', NEW j \in Importers, Prepared(j),
         at'[j] = at[j], step'[j] = step[j], snap'[j] = snap[j], want'[j] = want[j],
         maps'[j] = maps[j], content' = content
  PROVE  Prepared(j)'
  <1>1. Running(j)' <=> Running(j)
    BY RunningIs DEF Running
  <1>2. Writing(j)' <=> Writing(j)
    BY DEF Writing
  <1> QED
    BY <1>1, <1>2 DEF Prepared

LEMMA MeantApart ==
  ASSUME NEW j \in Importers, at'[j] = at[j], step'[j] = step[j],
         Running(j) /\ step[j] = "delete" => Table(j) \in DeleteMissing
  PROVE  (Running(j) /\ step[j] = "delete" => Table(j) \in DeleteMissing)'
  BY DEF Running, Table

\* What is left to show of a step of importer i.
LEMMA BaseByOne ==
  ASSUME Base, NEW i \in Importers, ImporterType', Apart(i), content' = content, TableType',
         Prepared(i)', step'[i] = "delete" => at'[i] = at[i] /\ Table(i) \in DeleteMissing
  PROVE  Base'
  <1>1. \A j \in Importers : Prepared(j)'
    BY PreparedApart DEF Base, Apart
  <1>2. \A j \in Importers : (Running(j) /\ step[j] = "delete" => Table(j) \in DeleteMissing)'
    <2> SUFFICES ASSUME NEW j \in Importers
                 PROVE  (Running(j) /\ step[j] = "delete" => Table(j) \in DeleteMissing)'
      OBVIOUS
    <2>1. CASE j = i
      BY <2>1 DEF Table
    <2>2. CASE j # i
      BY <2>2, MeantApart DEF Apart, Base, DeletesWhereMeant
    <2> QED
      BY <2>1, <2>2
  <1> QED
    BY <1>1, <1>2 DEF Base, DeletesWhereMeant

\* An importer that starts over, or goes on to the next table, has prepared
\* nothing yet.
LEMMA PreparedAnew ==
  ASSUME NEW i \in Importers, Left(i) \/ Restarted(i)
  PROVE  Prepared(i)' /\ step'[i] # "delete"
  <1>1. /\ at'[i] = 4 => step'[i] = "maps"
        /\ at'[i] = 6 => step'[i] = "acked"
        /\ step'[i] \in {"maps", "acked", "read"}
    BY DEF Left, Restarted
  <1>2. ~ Writing(i)'
    BY <1>1 DEF Writing
  <1> QED
    BY <1>1, <1>2 DEF Prepared

LEMMA StartBase ==
  ASSUME Base, NEW i \in Importers, Start(i)
  PROVE  Base'
  <1>1. /\ db' = db /\ content' = content /\ ImporterType' /\ Apart(i) /\ Restarted(i)
    BY StartSays DEF Base
  <1>2. TableType'
    BY <1>1 DEF Base, TableType
  <1>3. Prepared(i)' /\ step'[i] # "delete"
    BY <1>1, PreparedAnew
  <1> QED
    BY <1>1, <1>2, <1>3, BaseByOne

LEMMA CrashBase ==
  ASSUME Base, NEW i \in Importers, Crash(i)
  PROVE  Base'
  <1>1. Frame(i) /\ db' = db /\ Restarted(i)
    BY CrashSays DEF Base
  <1>2. TableType'
    BY <1>1 DEF Base, TableType
  <1>3. Prepared(i)' /\ step'[i] # "delete"
    BY <1>1, PreparedAnew
  <1> QED
    BY <1>1, <1>2, <1>3, BaseByOne DEF Frame

LEMMA LoadMapsBase ==
  ASSUME Base, NEW i \in Importers, LoadMaps(i)
  PROVE  Base'
  <1>1. /\ Running(i) /\ step[i] = "maps" /\ Frame(i) /\ db' = db
        /\ \/ Restarted(i)
           \/ /\ Stays(i, "read") /\ snap' = snap /\ want' = want
              /\ at[i] = 4 =>
                   maps'[i].risks = [n \in DOMAIN content[i].risks |-> content[i].risks[n]]
    BY LoadMapsSays DEF Base
  <1>2. TableType'
    BY <1>1 DEF Base, TableType
  <1>3. CASE Restarted(i)
    <2>1. Prepared(i)' /\ step'[i] # "delete"
      BY <1>3, PreparedAnew
    <2> QED
      BY <1>1, <1>2, <2>1, BaseByOne DEF Frame
  <1>4. CASE /\ Stays(i, "read") /\ snap' = snap /\ want' = want
             /\ at[i] = 4 =>
                   maps'[i].risks = [n \in DOMAIN content[i].risks |-> content[i].risks[n]]
    <2>1. content'[i] = content[i] /\ content[i] \in Contents /\ at'[i] = at[i] /\ step'[i] = "read"
      BY <1>1, <1>4 DEF Base, ImporterType, Frame, Stays
    <2>2. at[i] = 4 => maps'[i].risks = content'[i].risks
      BY <1>4, <2>1, ContentAssumption
    <2>3. at[i] = 6 => \A k \in DOMAIN want'[i] :
             want'[i][k] = [by |-> "redhat"] /\ k[1] \in AutoackRules(content'[i])
      BY <1>1, <1>4, <2>1 DEF Base, Prepared
    <2>4. ~ Writing(i)'
      BY <2>1 DEF Writing
    <2>5. Prepared(i)'
      BY <2>1, <2>2, <2>3, <2>4 DEF Prepared
    <2> QED
      BY <1>1, <1>2, <2>1, <2>5, BaseByOne DEF Frame
  <1> QED
    BY <1>1, <1>3, <1>4

LEMMA ReadAckedBase ==
  ASSUME Base, NEW i \in Importers, ReadAcked(i)
  PROVE  Base'
  <1>1. /\ Running(i) /\ step[i] = "acked" /\ Frame(i) /\ db' = db /\ maps' = maps
        /\ Stays(i, "read") /\ want'[i] = AutoackRows(content[i])
    BY ReadAckedSays DEF Base
  <1>2. TableType'
    BY <1>1 DEF Base, TableType
  <1>3. content'[i] = content[i] /\ at'[i] = at[i] /\ step'[i] = "read"
    BY <1>1 DEF Frame, Stays
  <1>4. \A k \in DOMAIN want'[i] :
             want'[i][k] = [by |-> "redhat"] /\ k[1] \in AutoackRules(content[i])
    BY <1>1 DEF AutoackRows
  <1>5. at[i] = 4 => maps'[i].risks = content[i].risks
    BY <1>1 DEF Base, Prepared
  <1>6. ~ Writing(i)'
    BY <1>3 DEF Writing
  <1>7. Prepared(i)'
    BY <1>3, <1>4, <1>5, <1>6 DEF Prepared
  <1> QED
    BY <1>1, <1>2, <1>3, <1>7, BaseByOne DEF Frame

LEMMA ConfigIs ==
  ASSUME ImporterType, NEW i \in Importers, Running(i), Prepared(i), step[i] = "read"
  PROVE  /\ \A t \in Copied : at[i] = Place(t) => Config(i, Table(i)) = Target(content[i], t)
         /\ at[i] = 6 => Config(i, Table(i)) = want[i]
         /\ at[i] = 3 => Config(i, Table(i)) = TagRows(content[i])
         /\ at[i] = 8 => Config(i, Table(i)) = PlaybookRows(content[i])
  <1>1. at[i] = 4 => Config(i, Table(i)) = Target(content[i], "rule")
    BY TableIs DEF Prepared, Config, Target
  <1>2. at[i] = 5 => Config(i, Table(i)) = Target(content[i], "ruleTag")
    BY TableIs DEF Config, Target
  <1>3. at[i] = 7 => Config(i, Table(i)) = Target(content[i], "resolution")
    BY TableIs DEF Config, Target
  <1>4. \A t \in Copied : at[i] = Place(t) => Config(i, Table(i)) = Target(content[i], t)
    BY <1>1, <1>2, <1>3 DEF Place, Copied
  <1>5. at[i] = 6 => Config(i, Table(i)) = want[i]
    BY TableIs DEF Config
  <1>6. at[i] = 3 => Config(i, Table(i)) = TagRows(content[i])
    BY TableIs DEF Config
  <1>7. at[i] = 8 => Config(i, Table(i)) = PlaybookRows(content[i])
    BY TableIs DEF Config
  <1> QED
    BY <1>4, <1>5, <1>6, <1>7

LEMMA ReadBase ==
  ASSUME Base, NEW i \in Importers, Read(i)
  PROVE  Base'
  <1>1. /\ Running(i) /\ step[i] = "read" /\ Frame(i) /\ db' = db
        /\ \/ Restarted(i)
           \/ Left(i)
           \/ /\ Stays(i, "insert") /\ maps' = maps
              /\ HasRead(i, Table(i)) /\ want'[i] = Config(i, Table(i))
    BY ReadSays DEF Base
  <1>2. TableType'
    BY <1>1 DEF Base, TableType
  <1>3. CASE Restarted(i) \/ Left(i)
    <2>1. Prepared(i)' /\ step'[i] # "delete"
      BY <1>3, PreparedAnew
    <2> QED
      BY <1>1, <1>2, <2>1, BaseByOne DEF Frame
  <1>4. CASE /\ Stays(i, "insert") /\ maps' = maps
             /\ HasRead(i, Table(i)) /\ want'[i] = Config(i, Table(i))
    <2>1. content'[i] = content[i] /\ at'[i] = at[i] /\ step'[i] = "insert"
      BY <1>1, <1>4 DEF Frame, Stays
    <2>2. at[i] = 4 => maps'[i].risks = content[i].risks
      BY <1>1, <1>4 DEF Base, Prepared
    <2>3. at[i] = 6 => \A k \in DOMAIN want'[i] :
             want'[i][k] = [by |-> "redhat"] /\ k[1] \in AutoackRules(content[i])
      <3>1. at[i] = 6 => want'[i] = want[i]
        BY <1>1, <1>4, ConfigIs DEF Base
      <3> QED
        BY <1>1, <3>1 DEF Base, Prepared
    <2>4. at[i] = 6 => \A k \in DOMAIN snap'[i] : snap'[i][k].pk = k /\ snap'[i][k].row = [by |-> "redhat"]
      <3> SUFFICES ASSUME at[i] = 6, NEW k \in DOMAIN snap'[i]
                   PROVE  snap'[i][k].pk = k /\ snap'[i][k].row = [by |-> "redhat"]
        OBVIOUS
      <3>1. Table(i) = "ack"
        BY <1>1, TableIs DEF Base
      <3>2. /\ KeyOf("ack", snap'[i][k].pk) = k
            /\ snap'[i][k].pk \in InScope("ack")
            /\ snap'[i][k].row = db["ack"][snap'[i][k].pk]
        BY <1>4, <3>1 DEF HasRead
      <3>3. snap'[i][k].pk = k
        BY <3>2 DEF KeyOf
      <3>4. k \in DOMAIN db["ack"] /\ db["ack"][k].by = "redhat"
        BY <3>2, <3>3 DEF InScope
      <3>5. db["ack"][k] = [by |-> "redhat"]
        BY <3>4 DEF Base, TableType, AckRow
      <3> QED
        BY <3>2, <3>3, <3>5
    <2>5. \A t \in Copied : at[i] = Place(t) =>
             /\ want'[i] = Target(content[i], t)
             /\ \A k \in DOMAIN snap'[i] : snap'[i][k].pk = k
      <3> SUFFICES ASSUME NEW t \in Copied, at[i] = Place(t)
                   PROVE  /\ want'[i] = Target(content[i], t)
                          /\ \A k \in DOMAIN snap'[i] : snap'[i][k].pk = k
        OBVIOUS
      <3>1. Table(i) = t /\ t # "playbook"
        BY <1>1, TableIs DEF Base, Copied
      <3>2. want'[i] = Target(content[i], t)
        BY <1>1, <1>4, ConfigIs DEF Base
      <3>3. \A k \in DOMAIN snap'[i] : KeyOf(t, snap'[i][k].pk) = k
        BY <1>4, <3>1 DEF HasRead
      <3> QED
        BY <3>1, <3>2, <3>3 DEF KeyOf
    <2>6. Prepared(i)'
      BY <2>1, <2>2, <2>3, <2>4, <2>5 DEF Prepared
    <2> QED
      BY <1>1, <1>2, <2>1, <2>6, BaseByOne DEF Frame
  <1> QED
    BY <1>1, <1>3, <1>4

\* An importer that goes on with the table at hand keeps what it prepared.
LEMMA PreparedStays ==
  ASSUME Base, NEW i \in Importers, Running(i), Writing(i), NEW s \in Steps, Stays(i, s),
         snap' = snap, want' = want, maps' = maps, content' = content
  PROVE  Prepared(i)'
  <1>1. step[i] # "maps" /\ step[i] # "acked"
    BY DEF Writing
  <1> QED
    BY <1>1 DEF Base, Prepared, Stays

LEMMA InsertBase ==
  ASSUME Base, NEW i \in Importers, Insert(i)
  PROVE  Base'
  <1>1. /\ Running(i) /\ step[i] = "insert" /\ Frame(i)
        /\ \/ db' = db /\ Restarted(i)
           \/ /\ Inserts(i, Table(i)) /\ maps' = maps
              /\ \/ Left(i)
                 \/ Stays(i, "update") /\ snap' = snap /\ want' = want
    BY InsertSays DEF Base, TableType
  <1>2. TableType'
    <2>1. CASE db' = db
      BY <2>1 DEF Base, TableType
    <2>2. CASE Inserts(i, Table(i))
      <3>1. Prepared(i) /\ Writing(i)
        BY <1>1 DEF Base, Writing
      <3>2. \A k \in DOMAIN db'["ack"] : AckRow(db'["ack"][k])
        <4>1. CASE Table(i) # "ack"
          BY <2>2, <4>1, CopiedAre DEF Inserts, Base, TableType
        <4>2. CASE Table(i) = "ack"
          <5>1. \A k \in NewKeys(i) : want[i][k] = [by |-> "redhat"]
            BY <1>1, <3>1, <4>2, TableIs DEF Base, Prepared, NewKeys
          <5>2. /\ DOMAIN db'["ack"] = DOMAIN db["ack"] \cup NewKeys(i)
                /\ \A k \in DOMAIN db["ack"] : db'["ack"][k] = db["ack"][k]
                /\ \A k \in NewKeys(i) : db'["ack"][k] = want[i][k]
            BY <2>2, <4>2 DEF Inserts
          <5> QED
            BY <5>1, <5>2 DEF Base, TableType, AckRow
        <4> QED
          BY <4>1, <4>2
      <3>3. ASSUME NEW t \in Copied, NEW k \in DOMAIN db'[t]
            PROVE  Shaped(db'[t][k], t)
        <4>1. CASE Table(i) # t
          <5>1. db'[t] = db[t]
            BY <2>2, <4>1, CopiedAre DEF Inserts
          <5> QED
            BY <3>3, <5>1 DEF Base, TableType, Shaped
        <4>2. CASE Table(i) = t
          <5>1. want[i] = Target(content[i], t)
            BY <1>1, <3>1, <4>2, TableIs DEF Base, Prepared
          <5>2. /\ DOMAIN db'[t] = DOMAIN db[t] \cup NewKeys(i)
                /\ \A x \in DOMAIN db[t] : db'[t][x] = db[t][x]
                /\ \A x \in NewKeys(i) : db'[t][x] = want[i][x]
            BY <2>2, <4>2, CopiedAre DEF Inserts
          <5>3. CASE k \in DOMAIN db[t]
            BY <5>2, <5>3 DEF Base, TableType, Shaped
          <5>4. CASE k \in NewKeys(i)
            <6>1. k \in DOMAIN Target(content[i], t) /\ db'[t][k] = Target(content[i], t)[k]
              BY <5>1, <5>2, <5>4 DEF NewKeys
            <6>2. Shaped(Target(content[i], t)[k], t)
              BY <6>1, TargetShaped
            <6> QED
              BY <6>1, <6>2 DEF Shaped
          <5> QED
            BY <3>3, <5>2, <5>3, <5>4
        <4> QED
          BY <4>1, <4>2
      <3> QED
        BY <2>2, <3>2, <3>3 DEF TableType, Inserts
    <2> QED
      BY <1>1, <2>1, <2>2
  <1>3. CASE Restarted(i) \/ Left(i)
    <2>1. Prepared(i)' /\ step'[i] # "delete"
      BY <1>3, PreparedAnew
    <2> QED
      BY <1>1, <1>2, <2>1, BaseByOne DEF Frame
  <1>4. CASE Stays(i, "update") /\ snap' = snap /\ want' = want /\ maps' = maps
    <2>1. Prepared(i)'
      BY <1>1, <1>4, PreparedStays DEF Steps, Writing, Frame
    <2> QED
      BY <1>1, <1>2, <1>4, <2>1, BaseByOne DEF Frame, Stays
  <1> QED
    BY <1>1, <1>3, <1>4

\* The acks that an importer would update are what it read: none changes.
LEMMA NoAckChanged ==
  ASSUME Base, NEW i \in Importers, Running(i), Writing(i), at[i] = 6
  PROVE  Changed(i) = {}
  <1>1. step[i] # "acked" /\ Prepared(i)
    BY DEF Base, Writing
  <1>2. /\ \A k \in DOMAIN want[i] : want[i][k] = [by |-> "redhat"]
        /\ \A k \in DOMAIN snap[i] : snap[i][k].row = [by |-> "redhat"]
    BY <1>1 DEF Prepared
  <1> QED
    BY <1>2 DEF Changed

LEMMA UpdateBase ==
  ASSUME Base, NEW i \in Importers, Update(i)
  PROVE  Base'
  <1>1. /\ Running(i) /\ step[i] = "update" /\ Frame(i) /\ maps' = maps
        /\ Updates(i, Table(i))
        /\ \/ Table(i) \in DeleteMissing /\ Stays(i, "delete") /\ snap' = snap /\ want' = want
           \/ Left(i)
    BY UpdateSays DEF Base, TableType
  <1>2. Prepared(i) /\ Writing(i)
    BY <1>1 DEF Base, Writing
  <1>3. \A k \in DOMAIN db'["ack"] : AckRow(db'["ack"][k])
    <2>1. CASE Table(i) # "ack"
      BY <1>1, <2>1, CopiedAre DEF Updates, Base, TableType
    <2>2. CASE Table(i) = "ack"
      <3>1. at[i] = 6
        BY <1>1, <2>2, TableIs DEF Base
      <3>2. Changed(i) = {} /\ \A k \in DOMAIN snap[i] : snap[i][k].pk = k
        BY <1>1, <1>2, <3>1, NoAckChanged DEF Prepared
      <3>3. DOMAIN db'["ack"] = DOMAIN db["ack"] /\ \A k \in DOMAIN db["ack"] : db'["ack"][k] = db["ack"][k]
        BY <1>1, <2>2, <3>2 DEF Updates
      <3> QED
        BY <3>3 DEF Base, TableType, AckRow
    <2> QED
      BY <2>1, <2>2
  <1>4. ASSUME NEW t \in Copied, NEW k \in DOMAIN db'[t]
        PROVE  Shaped(db'[t][k], t)
    <2>1. CASE Table(i) # t
      <3>1. db'[t] = db[t]
        BY <1>1, <2>1, CopiedAre DEF Updates
      <3> QED
        BY <1>4, <3>1 DEF Base, TableType, Shaped
    <2>2. CASE Table(i) = t
      <3>1. want[i] = Target(content[i], t) /\ \A x \in DOMAIN snap[i] : snap[i][x].pk = x
        BY <1>1, <1>2, <2>2, TableIs DEF Base, Prepared
      <3>2. /\ k \in DOMAIN db[t]
            /\ db'[t][k] = IF k \in Changed(i)
                     THEN [f \in DOMAIN want[i][k] |->
                             IF f \in ChangedFields(i) THEN want[i][k][f] ELSE db[t][k][f]]
                     ELSE db[t][k]
        BY <1>1, <1>4, <2>2, <3>1, CopiedAre DEF Updates
      <3>3. CASE k \in Changed(i)
        <4>1. DOMAIN want[i][k] = Fields(t)
          BY <3>1, <3>3, TargetShaped DEF Changed
        <4>2. db'[t][k] = [f \in Fields(t) |->
                 IF f \in ChangedFields(i) THEN want[i][k][f] ELSE db[t][k][f]]
          BY <3>2, <3>3, <4>1
        <4> QED
          BY <4>2 DEF Shaped
      <3>4. CASE k \notin Changed(i)
        BY <3>2, <3>4 DEF Base, TableType, Shaped
      <3> QED
        BY <3>3, <3>4
    <2> QED
      BY <2>1, <2>2
  <1>5. TableType'
    BY <1>1, <1>3, <1>4 DEF Updates, TableType
  <1>6. CASE Left(i)
    <2>1. Prepared(i)' /\ step'[i] # "delete"
      BY <1>6, PreparedAnew
    <2> QED
      BY <1>1, <1>5, <2>1, BaseByOne DEF Frame
  <1>7. CASE Table(i) \in DeleteMissing /\ Stays(i, "delete") /\ snap' = snap /\ want' = want
    <2>1. Prepared(i)'
      BY <1>1, <1>2, <1>7, PreparedStays DEF Steps, Frame
    <2> QED
      BY <1>1, <1>5, <1>7, <2>1, BaseByOne DEF Frame, Stays
  <1> QED
    BY <1>1, <1>6, <1>7

LEMMA DeleteBase ==
  ASSUME Base, NEW i \in Importers, Delete(i)
  PROVE  Base'
  <1>1. /\ Running(i) /\ step[i] = "delete" /\ Frame(i) /\ Left(i)
        /\ Table(i) \in DeleteMissing
        /\ Removes(Table(i), InScope(Table(i)) \ DOMAIN want[i])
    BY DeleteSays DEF Base, TableType
  <1>2. \A t \in Tables \ {"playbook"} : \A k \in DOMAIN db'[t] : k \in DOMAIN db[t] /\ db'[t][k] = db[t][k]
    BY <1>1 DEF Removes
  <1>3. TableType'
    <2>1. \A k \in DOMAIN db'["ack"] : AckRow(db'["ack"][k])
      BY <1>2, CopiedAre DEF Base, TableType, AckRow
    <2>2. \A t \in Copied : \A k \in DOMAIN db'[t] : Shaped(db'[t][k], t)
      BY <1>2, CopiedAre DEF Base, TableType, Shaped
    <2> QED
      BY <1>1, <2>1, <2>2 DEF TableType, Removes
  <1>4. Prepared(i)' /\ step'[i] # "delete"
    BY <1>1, PreparedAnew
  <1> QED
    BY <1>1, <1>3, <1>4, BaseByOne DEF Frame

LEMMA OuterBase ==
  ASSUME Base, Outer
  PROVE  Base'
  <1>1. /\ importerVars' = importerVars
        /\ DOMAIN db' = Tables /\ \A u \in Tables \ {"ack", "playbook"} : db'[u] = db[u]
        /\ \A k \in DOMAIN db'["ack"] : AckRow(db'["ack"][k])
        /\ DOMAIN disturbed' = Importers
    BY OuterSays DEF Base
  <1>2. /\ at' = at /\ step' = step /\ content' = content /\ snap' = snap /\ want' = want /\ maps' = maps
    BY <1>1 DEF importerVars
  <1>3. ImporterType'
    BY <1>1, <1>2 DEF Base, ImporterType
  <1>4. \A t \in Copied : db'[t] = db[t]
    BY <1>1, CopiedAre
  <1>5. TableType'
    BY <1>1, <1>4 DEF Base, TableType, Shaped
  <1>6. \A j \in Importers : Prepared(j)'
    BY <1>2, <1>3, PreparedApart DEF Base
  <1>7. DeletesWhereMeant'
    BY <1>2 DEF Base, DeletesWhereMeant, Running, Table
  <1> QED
    BY <1>3, <1>5, <1>6, <1>7 DEF Base

LEMMA BaseStep == Base /\ [Next]_vars => Base'
  BY StepIs, OuterBase, StartBase, LoadMapsBase, ReadAckedBase, ReadBase, InsertBase, UpdateBase,
     DeleteBase, CrashBase

\* Importers and tables are as they should be: what an importer holds is of
\* its own content, acks are a user's or Red Hat's, and the rows that the
\* command writes have the fields of their table.
THEOREM TypeCorrect == Spec => []Base
  BY BaseInit, BaseStep, PTL DEF Spec

-----------------------------------------------------------------------------
(* The acks of users. *)

LEMMA InsertKeepsAcks ==
  ASSUME Base, NEW i \in Importers, Insert(i) \/ Update(i)
  PROVE  \A k \in DOMAIN db["ack"] : k \in DOMAIN db'["ack"] /\ db'["ack"][k] = db["ack"][k]
  <1>1. CASE Insert(i)
    <2>1. db' = db \/ Inserts(i, Table(i))
      BY <1>1, InsertSays DEF Base, TableType
    <2> QED
      BY <2>1, CopiedAre DEF Inserts
  <1>2. CASE Update(i)
    <2>1. Running(i) /\ step[i] = "update" /\ Updates(i, Table(i))
      BY <1>2, UpdateSays DEF Base, TableType
    <2>2. CASE Table(i) # "ack"
      BY <2>1, <2>2, CopiedAre DEF Updates
    <2>3. CASE Table(i) = "ack"
      <3>1. at[i] = 6 /\ Writing(i)
        BY <2>1, <2>3, TableIs DEF Base, Writing
      <3>2. Changed(i) = {} /\ \A k \in DOMAIN snap[i] : snap[i][k].pk = k
        BY <2>1, <3>1, NoAckChanged DEF Base, Prepared
      <3> QED
        BY <2>1, <2>3, <3>2 DEF Updates
    <2> QED
      BY <2>2, <2>3
  <1> QED
    BY <1>1, <1>2

LEMMA UserAcksStep ==
  ASSUME Base, [Next]_vars, importerVars' # importerVars,
         NEW k \in DOMAIN db["ack"], db["ack"][k].by = "user"
  PROVE  k \in DOMAIN db'["ack"] /\ db'["ack"][k] = db["ack"][k]
  <1>1. ~ Outer
    BY OuterSays DEF Base
  <1>2. PICK i \in Importers : \/ Start(i) \/ LoadMaps(i) \/ ReadAcked(i) \/ Read(i)
                               \/ Insert(i) \/ Update(i) \/ Delete(i) \/ Crash(i)
    BY <1>1, StepIs
  <1>3. CASE Start(i) \/ LoadMaps(i) \/ ReadAcked(i) \/ Read(i) \/ Crash(i)
    BY <1>3 DEF Start, LoadMaps, ReadAcked, Read, Crash
  <1>4. CASE Insert(i) \/ Update(i)
    BY <1>4, InsertKeepsAcks
  <1>5. CASE Delete(i)
    <2>1. Removes(Table(i), InScope(Table(i)) \ DOMAIN want[i])
      BY <1>5, DeleteSays DEF Base, TableType
    <2>2. CASE Table(i) = "ack"
      BY <2>1, <2>2 DEF Removes, InScope
    <2>3. CASE Table(i) # "ack"
      BY <2>1, <2>3, CopiedAre DEF Removes
    <2> QED
      BY <2>2, <2>3
  <1> QED
    BY <1>2, <1>3, <1>4, <1>5

\* No import removes or takes over the ack of a user, whatever the user does
\* between the import's reads and writes: what it inserts was not there, of
\* what it updates nothing differs, and it deletes Red Hat's acks alone.
THEOREM UsersKeepTheirAcks == Spec => UserAcksKept
  <1>1. Base /\ [Next]_vars =>
          [importerVars' # importerVars =>
             \A k \in DOMAIN db["ack"] : db["ack"][k].by = "user" =>
               k \in DOMAIN db'["ack"] /\ db'["ack"][k] = db["ack"][k]]_vars
    BY UserAcksStep
  <1> QED
    BY <1>1, TypeCorrect, PTL DEF Spec, UserAcksKept

-----------------------------------------------------------------------------
(* What an importer knows that no other content disturbs. *)

\* The others that run bring the same content; no organisation is new.
Kin   == \A i \in Importers : Calm(i) => \A j \in Importers : Running(j) => content[j] = content[i]
Alone == \A i \in Importers : Running(i) /\ "org" \notin disturbed[i] => newOrg = NoOrg

\* Red Hat's acks follow the tag once the importer has deleted those that
\* do not, or has found none there.
Follows(c) == \A k \in DOMAIN db["ack"] : db["ack"][k].by = "redhat" => k[1] \in AutoackRules(c)
PastAcks(i) == at[i] > 6 \/ (at[i] = 6 /\ step[i] = "insert" /\ DOMAIN snap[i] = {})
Tagged(i) == Running(i) /\ disturbed[i] = {} /\ PastAcks(i) => Follows(content[i])

\* The tags of the content, from the table into the importer's lookup.
TagsKept(i) ==
  Running(i) =>
    /\ at[i] = 3 /\ step[i] = "insert" =>
         want[i] = TagRows(content[i]) /\ DOMAIN snap[i] \subseteq DOMAIN db["tag"]
    /\ at[i] = 3 /\ step[i] = "update" => content[i].tags \subseteq DOMAIN db["tag"]
    /\ at[i] > 3 => content[i].tags \subseteq DOMAIN db["tag"]
    /\ (at[i] = 4 /\ step[i] # "maps") \/ at[i] = 5 => content[i].tags \subseteq maps[i].tags

\* How far a table is brought to content c: every row of the content is
\* there as it should be; there is no other; a row is not there yet only if
\* the importer did not read it, and differs from what it read only where
\* it is as it should be already.
Complete(c, t) == \A k \in DOMAIN Target(c, t) : k \in DOMAIN db[t] /\ db[t][k] = Target(c, t)[k]
Exact(c, t)    == DOMAIN db[t] \subseteq DOMAIN Target(c, t)
Seen(i, t) ==
  LET goal == Target(content[i], t) IN
  /\ \A k \in DOMAIN db[t] \ DOMAIN snap[i] : k \in DOMAIN goal /\ db[t][k] = goal[k]
  /\ \A k \in DOMAIN snap[i] :
       /\ Shaped(snap[i][k].row, t)
       /\ k \in DOMAIN goal =>
            /\ k \in DOMAIN db[t]
            /\ \A f \in Fields(t) : db[t][k][f] \in {snap[i][k].row[f], goal[k][f]}
\* The command leaves rule tags alone that the configuration does not list.
Spared(c, t) == t = "ruleTag" /\ \E k \in DOMAIN RuleTagRows(c) : k[2] \notin c.tags
Brought(c, t) == Spared(c, t) \/ (Complete(c, t) /\ (t \in DeleteMissing => Exact(c, t)))

Mirroring(i, t) ==
  /\ at[i] = Place(t) /\ step[i] \in {"insert", "update"} => Seen(i, t)
  /\ at[i] = Place(t) /\ step[i] = "update" => DOMAIN Target(content[i], t) \subseteq DOMAIN db[t]
  /\ at[i] = Place(t) /\ step[i] = "delete" => Complete(content[i], t)
  /\ at[i] > Place(t) => Brought(content[i], t)

\* The playbooks of the rules that have a resolution.
HasBook(k) == \E pk \in DOMAIN db["playbook"] : <<pk[1], pk[2]>> = k
Usable(c)  == {p \in c.playbooks : SystemOf(p.rule) # {}}
BooksKept(i) ==
  at[i] = 8 =>
    /\ step[i] \in {"insert", "update"} =>
         /\ DOMAIN want[i] = {<<p.rule, p.type>> : p \in Usable(content[i])}
         /\ \A k \in DOMAIN snap[i] : HasBook(k)
    /\ step[i] = "update" => \A k \in DOMAIN want[i] : HasBook(k)

Known(i) == Calm(i) => BooksKept(i) /\ \A t \in Copied : Mirroring(i, t)

LEMMA ImporterMoves ==
  ASSUME Base, NEW i \in Importers,
         LoadMaps(i) \/ ReadAcked(i) \/ Read(i) \/ Insert(i) \/ Update(i) \/ Delete(i) \/ Crash(i)
  PROVE  Running(i) /\ Frame(i)
  BY LoadMapsSays, ReadAckedSays, ReadSays, InsertSays, UpdateSays, DeleteSays, CrashSays
     DEF Base, TableType

LEMMA HistoryInit == Init => Kin /\ Alone
  <1> SUFFICES ASSUME Init PROVE Kin /\ Alone
    OBVIOUS
  <1>1. \A i \in Importers : ~ Running(i)
    BY BaseInit, RunningIs DEF Init, Idle, Base
  <1> QED
    BY <1>1 DEF Kin, Alone, Calm

LEMMA HistoryStep ==
  ASSUME Base, Kin, Alone, [Next]_vars
  PROVE  Kin' /\ Alone'
  <1>0. Base'
    BY BaseStep
  <1>1. ASSUME Outer PROVE Kin' /\ Alone'
    <2>1. /\ at' = at /\ content' = content
          /\ \A i \in Importers : disturbed[i] \subseteq disturbed'[i]
          /\ \/ newOrg' \in {newOrg, NoOrg}
             \/ \A i \in Importers : Running(i) => "org" \in disturbed'[i]
      BY <1>1, OuterSays DEF Base, importerVars
    <2>2. \A i \in Importers : Running(i)' <=> Running(i)
      BY <2>1 DEF Running
    <2>3. Kin'
      BY <2>1, <2>2 DEF Kin, Calm
    <2>4. Alone'
      BY <2>1, <2>2 DEF Alone
    <2> QED
      BY <2>3, <2>4
  <1>2. ASSUME NEW i \in Importers, Start(i) PROVE Kin' /\ Alone'
    <2>1. /\ content' = content /\ newOrg' = newOrg /\ Apart(i)
          /\ Others(i) # {} => "content" \in disturbed'[i]
          /\ newOrg # NoOrg => "org" \in disturbed'[i]
          /\ \A j \in Importers \ {i} :
               /\ disturbed[j] \subseteq disturbed'[j]
               /\ j \in Others(i) => "content" \in disturbed'[j]
      BY <1>2, StartSays DEF Base
    <2>2. \A j \in Importers \ {i} : Running(j)' <=> Running(j)
      BY <2>1 DEF Running, Apart
    <2>3. \A j \in Importers \ {i} : Running(j) /\ j \notin Others(i) => content[j] = content[i]
      BY DEF Others
    <2>4. ASSUME NEW j \in Importers, Calm(j)', NEW k \in Importers, Running(k)'
          PROVE  content'[k] = content'[j]
      <3>1. CASE j = i /\ k # i
        <4>1. "content" \notin disturbed'[i]
          BY <2>4, <3>1 DEF Calm
        <4>2. k \notin Others(i)
          BY <2>1, <4>1
        <4> QED
          BY <2>1, <2>2, <2>3, <2>4, <3>1, <4>2
      <3>2. CASE j # i
        <4>1. "content" \notin disturbed'[j] /\ Running(j)
          BY <2>2, <2>4, <3>2 DEF Calm
        <4>2. Calm(j) /\ j \notin Others(i)
          BY <2>1, <3>2, <4>1 DEF Calm
        <4> QED
          BY <2>1, <2>2, <2>3, <2>4, <3>2, <4>1, <4>2 DEF Kin
      <3> QED
        BY <3>1, <3>2
    <2>5. ASSUME NEW j \in Importers, Running(j)', "org" \notin disturbed'[j]
          PROVE  newOrg' = NoOrg
      BY <2>1, <2>2, <2>5 DEF Alone
    <2> QED
      BY <2>4, <2>5 DEF Kin, Alone
  <1>3. ASSUME NEW i \in Importers, Running(i), Frame(i) PROVE Kin' /\ Alone'
    <2>1. content' = content /\ newOrg' = newOrg /\ disturbed' = disturbed
      BY <1>3 DEF Frame
    <2>2. \A j \in Importers : Running(j)' => Running(j)
      BY <1>3 DEF Running, Apart, Frame
    <2>3. Kin'
      BY <2>1, <2>2 DEF Kin, Calm
    <2>4. Alone'
      BY <2>1, <2>2 DEF Alone
    <2> QED
      BY <2>3, <2>4
  <1> QED
    BY <1>1, <1>2, <1>3, StepIs, ImporterMoves

-----------------------------------------------------------------------------
(* Red Hat's acks. *)

\* A step that brings only acks of Red Hat that follow the tag.
LEMMA FollowsKept ==
  ASSUME NEW c, Follows(c),
         \A k \in DOMAIN db'["ack"] :
            \/ db'["ack"][k].by # "redhat"
            \/ k \in DOMAIN db["ack"] /\ db'["ack"][k] = db["ack"][k]
            \/ k[1] \in AutoackRules(c)
  PROVE  Follows(c)'
  BY DEF Follows

\* What an importer's step does to the acks.
LEMMA AcksOfImporter ==
  ASSUME Base, NEW i \in Importers,
         LoadMaps(i) \/ ReadAcked(i) \/ Read(i) \/ Insert(i) \/ Update(i) \/ Delete(i) \/ Crash(i)
  PROVE  \A k \in DOMAIN db'["ack"] :
            \/ k \in DOMAIN db["ack"] /\ db'["ack"][k] = db["ack"][k]
            \/ k[1] \in AutoackRules(content[i])
  <1>1. CASE LoadMaps(i) \/ ReadAcked(i) \/ Read(i) \/ Crash(i)
    BY <1>1 DEF LoadMaps, ReadAcked, Read, Crash
  <1>2. CASE Insert(i)
    <2>1. Running(i) /\ step[i] = "insert" /\ (db' = db \/ Inserts(i, Table(i)))
      BY <1>2, InsertSays DEF Base, TableType
    <2>2. CASE db' = db
      BY <2>2
    <2>3. CASE Inserts(i, Table(i)) /\ Table(i) # "ack"
      BY <2>3, CopiedAre DEF Inserts
    <2>4. CASE Inserts(i, Table(i)) /\ Table(i) = "ack"
      <3>1. at[i] = 6 /\ Prepared(i)
        BY <2>1, <2>4, TableIs DEF Base
      <3>2. \A k \in NewKeys(i) : k[1] \in AutoackRules(content[i])
        BY <2>1, <3>1 DEF Prepared, NewKeys
      <3>3. /\ DOMAIN db'["ack"] = DOMAIN db["ack"] \cup NewKeys(i)
            /\ \A k \in DOMAIN db["ack"] : db'["ack"][k] = db["ack"][k]
        BY <2>4 DEF Inserts
      <3> QED
        BY <3>2, <3>3
    <2> QED
      BY <2>1, <2>2, <2>3, <2>4
  <1>3. CASE Update(i)
    <2>1. DOMAIN db'["ack"] = DOMAIN db["ack"]
      BY <1>3, UpdateSays, CopiedAre DEF Base, TableType, Updates
    <2> QED
      BY <1>3, <2>1, InsertKeepsAcks
  <1>4. CASE Delete(i)
    <2>1. Removes(Table(i), InScope(Table(i)) \ DOMAIN want[i])
      BY <1>4, DeleteSays DEF Base, TableType
    <2> QED
      BY <2>1, CopiedAre DEF Removes
  <1> QED
    BY <1>1, <1>2, <1>3, <1>4

\* The step by which an importer gets past the acks.
LEMMA TaggedFirst ==
  ASSUME Base, NEW i \in Importers, Running(i),
         LoadMaps(i) \/ ReadAcked(i) \/ Read(i) \/ Insert(i) \/ Update(i) \/ Delete(i) \/ Crash(i),
         ~ PastAcks(i), PastAcks(i)'
  PROVE  Follows(content[i])'
  <1>1. at[i] \in 1..6 /\ Frame(i)
    BY TableIs, ImporterMoves DEF Base, PastAcks
  <1>2. CASE Read(i)
    <2>1. /\ db' = db /\ step[i] = "read"
          /\ \/ Restarted(i)
             \/ Left(i) /\ Skips(i, Table(i))
             \/ Stays(i, "insert") /\ HasRead(i, Table(i))
      BY <1>2, ReadSays DEF Base
    <2>2. CASE Restarted(i)
      BY <2>2 DEF Restarted, PastAcks
    <2>3. CASE Left(i) /\ Skips(i, Table(i))
      <3>1. at[i] = 6
        BY <1>1, <2>3 DEF Left, PastAcks
      <3>2. Table(i) = "ack"
        BY <3>1, TableIs DEF Base
      <3> QED
        BY <2>3, <3>2 DEF Skips, DeleteMissing
    <2>4. CASE Stays(i, "insert") /\ HasRead(i, Table(i))
      <3>1. at[i] = 6 /\ DOMAIN snap'[i] = {}
        BY <1>1, <2>4 DEF Stays, PastAcks
      <3>2. Table(i) = "ack"
        BY <3>1, TableIs DEF Base
      <3>3. \A pk \in InScope("ack") : KeyOf("ack", pk) \in DOMAIN snap'[i]
        BY <2>4, <3>2 DEF HasRead
      <3>4. InScope("ack") = {}
        BY <3>1, <3>3
      <3> QED
        BY <2>1, <3>4 DEF InScope, Follows
    <2> QED
      BY <2>1, <2>2, <2>3, <2>4
  <1>3. CASE Delete(i)
    <2>1. /\ step[i] = "delete" /\ Left(i)
          /\ Removes(Table(i), InScope(Table(i)) \ DOMAIN want[i])
      BY <1>3, DeleteSays DEF Base, TableType
    <2>2. at[i] = 6
      BY <1>1, <2>1 DEF Left, PastAcks
    <2>3. Table(i) = "ack" /\ Prepared(i)
      BY <2>2, TableIs DEF Base
    <2>4. \A k \in DOMAIN want[i] : k[1] \in AutoackRules(content[i])
      BY <2>1, <2>2, <2>3 DEF Prepared
    <2>5. \A k \in DOMAIN db'["ack"] : k \in DOMAIN db["ack"] /\ db'["ack"][k] = db["ack"][k]
                                     /\ k \notin InScope("ack") \ DOMAIN want[i]
      BY <2>1, <2>3 DEF Removes
    <2> QED
      BY <1>1, <2>4, <2>5 DEF InScope, Follows, Frame
  <1>4. CASE Insert(i)
    <2>1. /\ step[i] = "insert"
          /\ \/ Restarted(i)
             \/ snap[i] = Empty /\ Left(i)
             \/ Stays(i, "update")
      BY <1>4, InsertSays DEF Base, TableType
    <2> QED
      BY <1>1, <2>1 DEF Restarted, Left, Stays, PastAcks, Empty
  <1>5. CASE Update(i)
    <2>1. \/ Stays(i, "delete")
          \/ Table(i) \notin DeleteMissing /\ Left(i)
      BY <1>5, UpdateSays DEF Base, TableType
    <2>2. CASE Table(i) \notin DeleteMissing /\ Left(i)
      <3>1. at[i] = 6
        BY <1>1, <2>2 DEF Left, PastAcks
      <3> QED
        BY <2>2, <3>1, TableIs DEF Base, DeleteMissing
    <2> QED
      BY <1>1, <2>1, <2>2 DEF Stays, PastAcks
  <1>6. CASE LoadMaps(i)
    <2>1. Restarted(i) \/ Stays(i, "read")
      BY <1>6, LoadMapsSays DEF Base
    <2> QED
      BY <1>1, <2>1 DEF Restarted, Stays, PastAcks
  <1>7. CASE ReadAcked(i)
    BY <1>1, <1>7, ReadAckedSays DEF Base, Restarted, Stays, PastAcks
  <1>8. CASE Crash(i)
    BY <1>8, CrashSays DEF Base, Restarted, PastAcks
  <1> QED
    BY <1>2, <1>3, <1>4, <1>5, <1>6, <1>7, <1>8

LEMMA TaggedStep ==
  ASSUME Base, Kin, Alone, \A i \in Importers : Tagged(i), [Next]_vars
  PROVE  \A i \in Importers : Tagged(i)'
  <1>1. CASE Outer
    <2>1. /\ at' = at /\ step' = step /\ snap' = snap /\ content' = content
          /\ \A i \in Importers : disturbed[i] \subseteq disturbed'[i]
          /\ \A k \in DOMAIN db'["ack"] :
               \/ db'["ack"][k].by = "user"
               \/ k \in DOMAIN db["ack"] /\ db'["ack"][k] = db["ack"][k]
               \/ newOrg # NoOrg
      BY <1>1, OuterSays DEF Base, importerVars
    <2>2. ASSUME NEW i \in Importers, Running(i)', disturbed'[i] = {}, PastAcks(i)'
          PROVE  Follows(content[i])'
      <3>1. Running(i) /\ disturbed[i] = {} /\ PastAcks(i)
        BY <2>1, <2>2 DEF Running, PastAcks
      <3>2. newOrg = NoOrg /\ Follows(content[i])
        BY <3>1 DEF Alone, Tagged
      <3> DEFINE c == content[i]
      <3>3. \A k \in DOMAIN db'["ack"] :
               \/ db'["ack"][k].by # "redhat"
               \/ k \in DOMAIN db["ack"] /\ db'["ack"][k] = db["ack"][k]
        BY <2>1, <3>2
      <3>4. content'[i] = content[i]
        BY <2>1
      <3> QED
        BY <3>2, <3>3, <3>4 DEF Follows
    <2> QED
      BY <2>2 DEF Tagged
  <1>2. ASSUME NEW i \in Importers, Start(i)
        PROVE  \A j \in Importers : Tagged(j)'
    <2>1. /\ db' = db /\ content' = content /\ Apart(i) /\ Restarted(i)
          /\ \A j \in Importers \ {i} : disturbed[j] \subseteq disturbed'[j]
      BY <1>2, StartSays DEF Base
    <2>2. Tagged(i)'
      BY <2>1 DEF Restarted, Tagged, PastAcks
    <2>3. ASSUME NEW j \in Importers \ {i} PROVE Tagged(j)'
      BY <2>1 DEF Apart, Running, Tagged, PastAcks, Follows
    <2> QED
      BY <2>2, <2>3
  <1>3. ASSUME NEW i \in Importers,
               LoadMaps(i) \/ ReadAcked(i) \/ Read(i) \/ Insert(i) \/ Update(i) \/ Delete(i) \/ Crash(i)
        PROVE  \A j \in Importers : Tagged(j)'
    <2>1. Running(i) /\ Apart(i) /\ content' = content /\ disturbed' = disturbed
      BY <1>3, ImporterMoves DEF Frame
    <2>2. \A k \in DOMAIN db'["ack"] :
            \/ k \in DOMAIN db["ack"] /\ db'["ack"][k] = db["ack"][k]
            \/ k[1] \in AutoackRules(content[i])
      BY <1>3, AcksOfImporter
    <2>3. ASSUME NEW j \in Importers, Running(j)', disturbed'[j] = {}, PastAcks(j)'
          PROVE  Follows(content[j])'
      <3>1. Running(j)
        BY <2>1, <2>3 DEF Running, Apart
      <3>2. content[i] = content[j] /\ content'[j] = content[j]
        BY <2>1, <2>3, <3>1 DEF Kin, Calm
      <3>3. CASE PastAcks(j)
        <4>1. Follows(content[j])
          BY <2>1, <2>3, <3>1, <3>3 DEF Tagged
        <4> QED
          BY <2>2, <3>2, <4>1 DEF Follows
      <3>4. CASE ~ PastAcks(j)
        <4>1. j = i
          BY <2>1, <2>3, <3>4 DEF PastAcks, Apart
        <4> QED
          BY <1>3, <2>1, <2>3, <3>4, <4>1, TaggedFirst
      <3> QED
        BY <3>3, <3>4
    <2> QED
      BY <2>3 DEF Tagged
  <1> QED
    BY <1>1, <1>2, <1>3, StepIs

TagInv == Base /\ Kin /\ Alone /\ \A i \in Importers : Tagged(i)

LEMMA TagInvHolds == Spec => []TagInv
  <1>1. Init => TagInv
    <2> SUFFICES ASSUME Init PROVE TagInv
      OBVIOUS
    <2>1. \A i \in Importers : ~ Running(i)
      BY BaseInit, RunningIs DEF Init, Idle, Base
    <2> QED
      BY <2>1, BaseInit, HistoryInit DEF TagInv, Tagged
  <1>2. TagInv /\ [Next]_vars => TagInv'
    BY BaseStep, HistoryStep, TaggedStep DEF TagInv
  <1> QED
    BY <1>1, <1>2, PTL DEF Spec

\* An import ends with a step at the playbooks.
LEMMA EndsWithPlaybooks ==
  ASSUME Base, [Next]_vars, NEW i \in Importers, Finishes(i)
  PROVE  /\ Running(i) /\ at[i] = 8
         /\ Read(i) \/ Insert(i) \/ Update(i) \/ Delete(i)
         /\ Left(i) /\ Frame(i)
  <1>1. at[i] # 9 /\ at'[i] = 9
    BY OrderIs DEF Finishes, Done
  <1>2. ~ Outer
    BY <1>1, OuterSays DEF Base, importerVars
  <1>3. ASSUME NEW j \in Importers, Start(j) PROVE FALSE
    BY <1>1, <1>3, StartSays DEF Base, Apart, Restarted
  <1>4. PICK j \in Importers :
          LoadMaps(j) \/ ReadAcked(j) \/ Read(j) \/ Insert(j) \/ Update(j) \/ Delete(j) \/ Crash(j)
    BY <1>2, <1>3, StepIs
  <1>5. Running(j) /\ Frame(j)
    BY <1>4, ImporterMoves
  <1>6. j = i
    BY <1>1, <1>5 DEF Frame, Apart
  <1>7. ~ Restarted(i) /\ \A s : ~ Stays(i, s)
    BY <1>1 DEF Restarted, Stays
  <1>8. ~ LoadMaps(i) /\ ~ ReadAcked(i) /\ ~ Crash(i)
    BY <1>7, LoadMapsSays, ReadAckedSays, CrashSays DEF Base
  <1>9. Left(i)
    BY <1>4, <1>6, <1>7, <1>8, ReadSays, InsertSays, UpdateSays, DeleteSays DEF Base, TableType
  <1>10. at[i] = 8
    BY <1>1, <1>5, <1>6, <1>9, TableIs DEF Left, Base
  <1> QED
    BY <1>4, <1>5, <1>6, <1>8, <1>9, <1>10

\* Once an import ends that ran beside no other content and no new
\* organisation, Red Hat acks only rules that carry the autoack tag.
THEOREM AutoacksFollowTheTag == Spec => NoStrayAutoacks
  <1>1. ASSUME TagInv, [Next]_vars, NEW i \in Importers, Finishes(i), disturbed[i] = {}
        PROVE  \A k \in DOMAIN db'["ack"] :
                 db'["ack"][k].by = "redhat" => k[1] \in AutoackRules(content[i])
    <2>1. /\ Running(i) /\ at[i] = 8
          /\ Read(i) \/ Insert(i) \/ Update(i) \/ Delete(i)
      BY <1>1, EndsWithPlaybooks DEF TagInv
    <2>2. Follows(content[i])
      BY <1>1, <2>1 DEF TagInv, Tagged, PastAcks
    <2>3. \A k \in DOMAIN db'["ack"] :
            \/ k \in DOMAIN db["ack"] /\ db'["ack"][k] = db["ack"][k]
            \/ k[1] \in AutoackRules(content[i])
      BY <1>1, <2>1, AcksOfImporter DEF TagInv
    <2> QED
      BY <2>2, <2>3 DEF Follows
  <1>2. TagInv /\ [Next]_vars =>
          [\A i \in Importers : Finishes(i) /\ disturbed[i] = {} =>
             \A k \in DOMAIN db'["ack"] :
               db'["ack"][k].by = "redhat" => k[1] \in AutoackRules(content[i])]_vars
    BY <1>1
  <1> QED
    BY <1>2, TagInvHolds, PTL DEF Spec, NoStrayAutoacks

-----------------------------------------------------------------------------
(* Writers of one content move a table towards it.                         *)

\* No row of the content goes away, a field keeps its value or takes that
\* of the content, and what comes is a row of the content.
Toward(c, t) ==
  LET goal == Target(c, t) IN
  /\ \A k \in DOMAIN goal \cap DOMAIN db[t] :
       /\ k \in DOMAIN db'[t]
       /\ \A f \in Fields(t) : db'[t][k][f] \in {db[t][k][f], goal[k][f]}
  /\ \A k \in DOMAIN db'[t] \ DOMAIN db[t] : k \in DOMAIN goal /\ db'[t][k] = goal[k]

LEMMA TowardSame ==
  ASSUME NEW c, NEW t, db'[t] = db[t]
  PROVE  Toward(c, t)
  BY DEF Toward

LEMMA TowardWrite ==
  ASSUME Base, NEW j \in Importers, NEW t \in Copied, NEW c, c = content[j],
         Insert(j) \/ Update(j) \/ Delete(j)
  PROVE  Toward(c, t)
  <1>1. Running(j) /\ Writing(j) /\ Prepared(j)
    BY InsertSays, UpdateSays, DeleteSays DEF Base, TableType, Writing
  <1> DEFINE goal == Target(c, t)
  <1>2. ASSUME Table(j) = t PROVE want[j] = goal /\ \A k \in DOMAIN snap[j] : snap[j][k].pk = k
    BY <1>1, <1>2, TableIs DEF Base, Prepared
  <1>3. CASE Insert(j)
    <2>1. db' = db \/ Inserts(j, Table(j))
      BY <1>3, InsertSays DEF Base, TableType
    <2>2. CASE db' = db \/ Table(j) # t
      BY <2>1, <2>2, CopiedAre, TowardSame DEF Inserts
    <2>3. CASE Inserts(j, t) /\ Table(j) = t
      <3>1. /\ DOMAIN db'[t] = DOMAIN db[t] \cup NewKeys(j)
            /\ \A k \in DOMAIN db[t] : db'[t][k] = db[t][k]
            /\ \A k \in NewKeys(j) : db'[t][k] = want[j][k]
        BY <2>3, CopiedAre DEF Inserts
      <3>2. \A k \in NewKeys(j) : k \in DOMAIN goal /\ want[j][k] = goal[k]
        BY <1>2, <2>3 DEF NewKeys
      <3> HIDE DEF goal
      <3>3. /\ \A k \in DOMAIN goal \cap DOMAIN db[t] :
               /\ k \in DOMAIN db'[t]
               /\ \A f \in Fields(t) : db'[t][k][f] \in {db[t][k][f], goal[k][f]}
            /\ \A k \in DOMAIN db'[t] \ DOMAIN db[t] : k \in DOMAIN goal /\ db'[t][k] = goal[k]
        BY <3>1, <3>2
      <3> QED
        BY <3>3 DEF Toward, goal
    <2> QED
      BY <2>1, <2>2, <2>3
  <1>4. CASE Update(j)
    <2>1. Updates(j, Table(j))
      BY <1>4, UpdateSays DEF Base, TableType
    <2>2. CASE Table(j) # t
      BY <2>1, <2>2, CopiedAre, TowardSame DEF Updates
    <2>3. CASE Table(j) = t
      <3>1. /\ DOMAIN db'[t] = DOMAIN db[t]
            /\ \A k \in DOMAIN db[t] :
                 db'[t][k] = IF k \in Changed(j)
                     THEN [f \in DOMAIN want[j][k] |->
                             IF f \in ChangedFields(j) THEN want[j][k][f] ELSE db[t][k][f]]
                     ELSE db[t][k]
        BY <1>2, <2>1, <2>3, CopiedAre DEF Updates
      <3>2. ASSUME NEW k \in DOMAIN goal \cap DOMAIN db[t], NEW f \in Fields(t)
            PROVE  db'[t][k][f] \in {db[t][k][f], goal[k][f]}
        <4>1. want[j][k] = goal[k] /\ DOMAIN want[j][k] = Fields(t)
          BY <1>2, <2>3, <3>2, TargetShaped
        <4> HIDE DEF goal
        <4> QED
          BY <3>1, <3>2, <4>1
      <3> QED
        BY <3>1, <3>2 DEF Toward
    <2> QED
      BY <2>2, <2>3
  <1>5. CASE Delete(j)
    <2>1. Removes(Table(j), InScope(Table(j)) \ DOMAIN want[j])
      BY <1>5, DeleteSays DEF Base, TableType
    <2>2. CASE Table(j) # t
      BY <2>1, <2>2, CopiedAre, TowardSame DEF Removes
    <2>3. CASE Table(j) = t
      <3>1. /\ DOMAIN db'[t] = DOMAIN db[t] \ (InScope(t) \ DOMAIN goal)
            /\ \A k \in DOMAIN db'[t] : db'[t][k] = db[t][k]
        BY <1>2, <2>1, <2>3 DEF Removes
      <3> HIDE DEF goal
      <3>2. /\ \A k \in DOMAIN goal \cap DOMAIN db[t] : k \in DOMAIN db'[t] /\ db'[t][k] = db[t][k]
            /\ DOMAIN db'[t] \ DOMAIN db[t] = {}
        BY <3>1
      <3> QED
        BY <3>2 DEF Toward, goal
    <2> QED
      BY <2>2, <2>3
  <1> QED
    BY <1>3, <1>4, <1>5

\* Whoever takes a step, beside a calm importer.
LEMMA TowardStep ==
  ASSUME Base, Kin, [Next]_vars, NEW i \in Importers, Calm(i), NEW c, c = content[i], NEW t \in Copied
  PROVE  Toward(c, t)
  <1>1. CASE Outer
    BY <1>1, OuterSays, CopiedAre, TowardSame DEF Base
  <1>2. ASSUME NEW j \in Importers, Start(j) \/ LoadMaps(j) \/ ReadAcked(j) \/ Read(j) \/ Crash(j)
        PROVE  Toward(c, t)
    BY <1>2, TowardSame DEF Start, LoadMaps, ReadAcked, Read, Crash
  <1>3. ASSUME NEW j \in Importers, Insert(j) \/ Update(j) \/ Delete(j)
        PROVE  Toward(c, t)
    <2>1. Running(j)
      BY <1>3, ImporterMoves
    <2>2. content[j] = c
      BY <2>1 DEF Kin
    <2> QED
      BY <1>3, <2>2, TowardWrite
  <1> QED
    BY <1>1, <1>2, <1>3, StepIs

LEMMA SameRow ==
  ASSUME NEW t, NEW a, NEW b, Shaped(a, t), Shaped(b, t), \A f \in Fields(t) : a[f] = b[f]
  PROVE  a = b
  BY DEF Shaped

\* A row that is as it should be stays so.
LEMMA RowStays ==
  ASSUME TableType', NEW c, NEW t \in Copied, Toward(c, t),
         NEW k \in DOMAIN Target(c, t), k \in DOMAIN db[t], db[t][k] = Target(c, t)[k]
  PROVE  k \in DOMAIN db'[t] /\ db'[t][k] = Target(c, t)[k]
  <1>1. k \in DOMAIN db'[t] /\ \A f \in Fields(t) : db'[t][k][f] = Target(c, t)[k][f]
    BY DEF Toward
  <1>2. Shaped(db'[t][k], t)
    BY <1>1 DEF TableType, Shaped
  <1>3. Shaped(Target(c, t)[k], t)
    BY TargetShaped
  <1> QED
    BY <1>1, <1>2, <1>3, SameRow

LEMMA CompleteKept ==
  ASSUME TableType', NEW c, NEW t \in Copied, Toward(c, t), Complete(c, t)
  PROVE  Complete(c, t)'
  BY RowStays DEF Complete

LEMMA ExactKept ==
  ASSUME NEW c, NEW t \in Copied, Toward(c, t), Exact(c, t)
  PROVE  Exact(c, t)'
  BY DEF Exact, Toward

LEMMA BroughtKept ==
  ASSUME TableType', NEW c, NEW t \in Copied, Toward(c, t), Brought(c, t)
  PROVE  Brought(c, t)'
  BY CompleteKept, ExactKept DEF Brought, Spared

LEMMA SeenKept ==
  ASSUME TableType', NEW i \in Importers, NEW c, c = content[i], content'[i] = c, snap'[i] = snap[i],
         NEW t \in Copied, Toward(c, t), Seen(i, t)
  PROVE  Seen(i, t)'
  <1> DEFINE goal == Target(c, t)
  <1>1. /\ \A k \in DOMAIN db[t] \ DOMAIN snap[i] : k \in DOMAIN goal /\ db[t][k] = goal[k]
        /\ \A k \in DOMAIN snap[i] :
             /\ Shaped(snap[i][k].row, t)
             /\ k \in DOMAIN goal =>
                  /\ k \in DOMAIN db[t]
                  /\ \A f \in Fields(t) : db[t][k][f] \in {snap[i][k].row[f], goal[k][f]}
    BY DEF Seen
  <1>2. ASSUME NEW k \in DOMAIN db'[t] \ DOMAIN snap[i]
        PROVE  k \in DOMAIN goal /\ db'[t][k] = goal[k]
    <2>1. CASE k \in DOMAIN db[t]
      BY <1>1, <1>2, <2>1, RowStays
    <2>2. CASE k \notin DOMAIN db[t]
      BY <1>2, <2>2 DEF Toward
    <2> QED
      BY <2>1, <2>2
  <1>3. ASSUME NEW k \in DOMAIN snap[i], k \in DOMAIN goal
        PROVE  /\ k \in DOMAIN db'[t]
               /\ \A f \in Fields(t) : db'[t][k][f] \in {snap[i][k].row[f], goal[k][f]}
    <2>1. k \in DOMAIN db[t] /\ \A f \in Fields(t) : db[t][k][f] \in {snap[i][k].row[f], goal[k][f]}
      BY <1>1, <1>3
    <2>2. /\ k \in DOMAIN db'[t]
          /\ \A f \in Fields(t) : db'[t][k][f] \in {db[t][k][f], goal[k][f]}
      BY <1>3, <2>1 DEF Toward
    <2> HIDE DEF goal
    <2> QED
      BY <2>1, <2>2
  <1>4. \A k \in DOMAIN snap'[i] : Shaped(snap[i][k].row, t)' <=> Shaped(snap[i][k].row, t)
    BY DEF Shaped
  <1> QED
    BY <1>1, <1>2, <1>3, <1>4 DEF Seen

\* What importer i knows of the tables, when another takes a step.
LEMMA MirroringApart ==
  ASSUME TableType', NEW i \in Importers, NEW t \in Copied, NEW c, c = content[i], content'[i] = c,
         at'[i] = at[i], step'[i] = step[i], snap'[i] = snap[i], Toward(c, t), Mirroring(i, t)
  PROVE  Mirroring(i, t)'
  <1>1. Seen(i, t) => Seen(i, t)'
    BY SeenKept
  <1>2. Complete(c, t) => Complete(c, t)'
    BY CompleteKept
  <1>3. Brought(c, t) => Brought(c, t)'
    BY BroughtKept
  <1>4. DOMAIN Target(c, t) \subseteq DOMAIN db[t] => DOMAIN Target(c, t) \subseteq DOMAIN db'[t]
    BY DEF Toward
  <1>5. /\ (Complete(c, t)' => Complete(content[i], t)')
        /\ (Brought(c, t)' => Brought(content[i], t)')
    OBVIOUS
  <1> QED
    BY <1>1, <1>2, <1>3, <1>4, <1>5 DEF Mirroring

-----------------------------------------------------------------------------
(* The tags that the configuration lists are in their table, and known.    *)

LEMMA TagsGrow ==
  ASSUME Base, [Next]_vars
  PROVE  DOMAIN db["tag"] \subseteq DOMAIN db'["tag"]
  <1>1. CASE Outer
    BY <1>1, OuterSays, CopiedAre DEF Base
  <1>2. ASSUME NEW j \in Importers, Start(j) \/ LoadMaps(j) \/ ReadAcked(j) \/ Read(j) \/ Crash(j)
        PROVE  db' = db
    BY <1>2 DEF Start, LoadMaps, ReadAcked, Read, Crash
  <1>3. ASSUME NEW j \in Importers, Insert(j) PROVE DOMAIN db["tag"] \subseteq DOMAIN db'["tag"]
    <2>1. db' = db \/ Inserts(j, Table(j))
      BY <1>3, InsertSays DEF Base, TableType
    <2> QED
      BY <2>1, CopiedAre DEF Inserts
  <1>4. ASSUME NEW j \in Importers, Update(j) PROVE DOMAIN db["tag"] \subseteq DOMAIN db'["tag"]
    <2>1. Updates(j, Table(j))
      BY <1>4, UpdateSays DEF Base, TableType
    <2> QED
      BY <2>1, CopiedAre DEF Updates
  <1>5. ASSUME NEW j \in Importers, Delete(j) PROVE DOMAIN db["tag"] \subseteq DOMAIN db'["tag"]
    <2>1. Table(j) \in DeleteMissing /\ Removes(Table(j), InScope(Table(j)) \ DOMAIN want[j])
      BY <1>5, DeleteSays DEF Base, TableType
    <2> QED
      BY <2>1, CopiedAre DEF Removes, DeleteMissing
  <1> QED
    BY <1>1, <1>2, <1>3, <1>4, <1>5, StepIs

LEMMA TagRowsDomain == \A c : DOMAIN TagRows(c) = c.tags
  BY DEF TagRows

LEMMA TagsKeptOwn ==
  ASSUME Base, [Next]_vars, NEW i \in Importers, TagsKept(i),
         LoadMaps(i) \/ ReadAcked(i) \/ Read(i) \/ Insert(i) \/ Update(i) \/ Delete(i) \/ Crash(i)
  PROVE  TagsKept(i)'
  <1>0. PICK c \in Contents : c = content[i]
    BY DEF Base, ImporterType
  <1>1. /\ Running(i) /\ at[i] \in 1..8 /\ content'[i] = c
        /\ DOMAIN db["tag"] \subseteq DOMAIN db'["tag"]
    BY <1>0, ImporterMoves, TableIs, TagsGrow DEF Base, Frame
  <1>2. CASE Restarted(i)
    BY <1>2 DEF Restarted, TagsKept
  <1>3. ASSUME Left(i), maps' = maps, step[i] # "maps", at[i] = 3 => c.tags \subseteq DOMAIN db'["tag"]
        PROVE  TagsKept(i)'
    <2>1. at[i] > 3 => c.tags \subseteq DOMAIN db'["tag"]
      BY <1>0, <1>1 DEF TagsKept
    <2>2. at[i] = 4 => c.tags \subseteq maps[i].tags
      BY <1>0, <1>1, <1>3 DEF TagsKept
    <2> QED
      BY <1>1, <1>3, <2>1, <2>2 DEF Left, TagsKept
  <1>4. ASSUME NEW s, Stays(i, s), maps' = maps, step[i] # "maps",
               at[i] = 3 /\ s = "insert" =>
                  want'[i] = TagRows(c) /\ DOMAIN snap'[i] \subseteq DOMAIN db'["tag"],
               at[i] = 3 /\ s = "update" => c.tags \subseteq DOMAIN db'["tag"]
        PROVE  TagsKept(i)'
    <2>1. at[i] > 3 => c.tags \subseteq DOMAIN db'["tag"]
      BY <1>0, <1>1 DEF TagsKept
    <2>2. at[i] \in {4, 5} => c.tags \subseteq maps[i].tags
      BY <1>0, <1>1, <1>4 DEF TagsKept
    <2> QED
      BY <1>1, <1>4, <2>1, <2>2 DEF Stays, TagsKept
  <1>5. CASE LoadMaps(i)
    <2>1. /\ step[i] = "maps" /\ db' = db
          /\ \/ Restarted(i)
             \/ /\ Stays(i, "read")
                /\ at[i] = 4 => maps'[i].tags = DOMAIN db["tag"]
                /\ at[i] # 4 => maps'[i].tags = maps[i].tags
      BY <1>5, LoadMapsSays DEF Base
    <2>2. at[i] > 3 => c.tags \subseteq DOMAIN db["tag"]
      BY <1>0, <1>1 DEF TagsKept
    <2>3. at[i] = 5 => c.tags \subseteq maps[i].tags
      BY <1>0, <1>1 DEF TagsKept
    <2>4. CASE Stays(i, "read")
      BY <1>1, <2>1, <2>2, <2>3, <2>4 DEF Stays, TagsKept, Restarted
    <2> QED
      BY <1>2, <2>1, <2>4
  <1>6. CASE ReadAcked(i)
    <2>1. Stays(i, "read") /\ maps' = maps /\ step[i] # "maps"
      BY <1>6, ReadAckedSays DEF Base
    <2> QED
      BY <1>4, <2>1
  <1>7. CASE Read(i)
    <2>1. /\ step[i] = "read" /\ db' = db
          /\ \/ Restarted(i)
             \/ Left(i) /\ maps' = maps /\ Skips(i, Table(i))
             \/ /\ Stays(i, "insert") /\ maps' = maps
                /\ HasRead(i, Table(i)) /\ want'[i] = Config(i, Table(i))
      BY <1>7, ReadSays DEF Base
    <2>2. at[i] = 3 => Table(i) = "tag" /\ Config(i, Table(i)) = TagRows(c)
      BY <1>0, <1>1, <2>1, TableIs, ConfigIs DEF Base
    <2>3. CASE Left(i) /\ maps' = maps /\ Skips(i, Table(i))
      <3>1. ASSUME at[i] = 3 PROVE c.tags = {}
        <4>1. TagRows(c) = Empty
          BY <2>2, <2>3, <3>1 DEF Skips
        <4> QED
          BY <4>1, TagRowsDomain DEF Empty
      <3> QED
        BY <1>3, <2>1, <2>3, <3>1
    <2>4. CASE /\ Stays(i, "insert") /\ maps' = maps
               /\ HasRead(i, Table(i)) /\ want'[i] = Config(i, Table(i))
      <3>1. ASSUME at[i] = 3 PROVE DOMAIN snap'[i] \subseteq DOMAIN db["tag"]
        BY <2>2, <2>4, <3>1 DEF HasRead, KeyOf, InScope
      <3> QED
        BY <1>4, <2>1, <2>2, <2>4, <3>1
    <2> QED
      BY <1>2, <2>1, <2>3, <2>4
  <1>8. CASE Insert(i)
    <2>1. /\ step[i] = "insert"
          /\ \/ Restarted(i)
             \/ /\ Inserts(i, Table(i)) /\ maps' = maps
                /\ (Left(i) \/ Stays(i, "update"))
      BY <1>8, InsertSays DEF Base, TableType
    <2>2. ASSUME at[i] = 3, Inserts(i, Table(i)) PROVE c.tags \subseteq DOMAIN db'["tag"]
      <3>1. Table(i) = "tag"
        BY <1>1, <2>2, TableIs DEF Base
      <3>2. DOMAIN want[i] = c.tags /\ DOMAIN snap[i] \subseteq DOMAIN db["tag"]
        BY <1>0, <1>1, <2>1, <2>2, TagRowsDomain DEF TagsKept
      <3>3. DOMAIN db'["tag"] = DOMAIN db["tag"] \cup NewKeys(i)
        BY <2>2, <3>1 DEF Inserts
      <3> QED
        BY <3>2, <3>3 DEF NewKeys
    <2> QED
      BY <1>2, <1>3, <1>4, <2>1, <2>2
  <1>9. CASE Update(i)
    <2>1. step[i] = "update" /\ maps' = maps /\ (Left(i) \/ Stays(i, "delete"))
      BY <1>9, UpdateSays DEF Base, TableType
    <2>2. at[i] = 3 => c.tags \subseteq DOMAIN db'["tag"]
      BY <1>0, <1>1, <2>1 DEF TagsKept
    <2> QED
      BY <1>3, <1>4, <2>1, <2>2
  <1>10. CASE Delete(i)
    <2>1. step[i] = "delete" /\ maps' = maps /\ Left(i) /\ Table(i) \in DeleteMissing
      BY <1>10, DeleteSays DEF Base, TableType
    <2>2. at[i] # 3
      BY <1>1, <2>1, TableIs DEF Base, DeleteMissing
    <2> QED
      BY <1>3, <2>1, <2>2
  <1>11. CASE Crash(i)
    BY <1>2, <1>11, CrashSays DEF Base
  <1> QED
    BY <1>5, <1>6, <1>7, <1>8, <1>9, <1>10, <1>11

LEMMA TagsKeptApart ==
  ASSUME Base, [Next]_vars, NEW i \in Importers, TagsKept(i), at'[i] = at[i], step'[i] = step[i],
         snap'[i] = snap[i], want'[i] = want[i], maps'[i] = maps[i], content' = content
  PROVE  TagsKept(i)'
  <1>1. DOMAIN db["tag"] \subseteq DOMAIN db'["tag"] /\ (Running(i)' <=> Running(i))
    BY TagsGrow DEF Running
  <1> QED
    BY <1>1 DEF TagsKept

LEMMA TagsKeptStep ==
  ASSUME Base, [Next]_vars, \A i \in Importers : TagsKept(i)
  PROVE  \A i \in Importers : TagsKept(i)'
  <1> SUFFICES ASSUME NEW i \in Importers PROVE TagsKept(i)'
    OBVIOUS
  <1>1. CASE Outer
    BY <1>1, OuterSays, TagsKeptApart DEF Base, importerVars
  <1>2. ASSUME NEW j \in Importers, Start(j) PROVE TagsKept(i)'
    <2>1. Apart(j) /\ Restarted(j) /\ content' = content
      BY <1>2, StartSays DEF Base
    <2>2. CASE j = i
      BY <2>1, <2>2 DEF Restarted, TagsKept
    <2>3. CASE j # i
      BY <2>1, <2>3, TagsKeptApart DEF Apart
    <2> QED
      BY <2>2, <2>3
  <1>3. ASSUME NEW j \in Importers,
               LoadMaps(j) \/ ReadAcked(j) \/ Read(j) \/ Insert(j) \/ Update(j) \/ Delete(j) \/ Crash(j)
        PROVE  TagsKept(i)'
    <2>1. CASE j = i
      BY <1>3, <2>1, TagsKeptOwn
    <2>2. CASE j # i
      <3>1. Apart(j) /\ content' = content
        BY <1>3, ImporterMoves DEF Frame
      <3> QED
        BY <2>2, <3>1, TagsKeptApart DEF Apart
    <2> QED
      BY <2>1, <2>2
  <1> QED
    BY <1>1, <1>2, <1>3, StepIs

-----------------------------------------------------------------------------
(* What importer i learns of a table by its own steps there.               *)

LEMMA ReadOwn ==
  ASSUME Base, NEW i \in Importers, TagsKept(i), NEW t \in Copied, NEW c, c = content[i],
         at[i] = Place(t), Read(i)
  PROVE  \/ Restarted(i)
         \/ Left(i) /\ Brought(c, t)'
         \/ Stays(i, "insert") /\ Seen(i, t)'
  <1>1. /\ Running(i) /\ step[i] = "read" /\ Frame(i) /\ db' = db
        /\ \/ Restarted(i)
           \/ Left(i) /\ Skips(i, Table(i))
           \/ Stays(i, "insert") /\ HasRead(i, Table(i))
    BY ReadSays DEF Base
  <1>2. Table(i) = t /\ content'[i] = c
    BY <1>1, TableIs DEF Base, Frame
  <1>3. CASE Left(i) /\ Skips(i, t)
    <2>1. Config(i, t) = Target(c, t)
      BY <1>1, <1>2, ConfigIs DEF Base
    <2>2. CASE t = "ruleTag" /\ \E r \in RulesOf(c) : ~ TagsOf(c, r) \subseteq maps[i].tags
      <3>1. c.tags \subseteq maps[i].tags
        BY <1>1, <2>2 DEF TagsKept, Place
      <3>2. PICK r \in RulesOf(c) : ~ TagsOf(c, r) \subseteq c.tags
        BY <2>2, <3>1
      <3>3. PICK x \in TagsOf(c, r) : x \notin c.tags
        BY <3>2
      <3>4. <<r, x>> \in DOMAIN RuleTagRows(c) /\ <<r, x>>[2] = x
        BY <3>2, <3>3 DEF RuleTagRows
      <3> QED
        BY <1>3, <2>2, <3>3, <3>4 DEF Brought, Spared
    <2>3. CASE t \notin DeleteMissing /\ Target(c, t) = Empty
      <3>1. DOMAIN Target(c, t) = {}
        BY <2>3 DEF Empty
      <3> QED
        BY <1>3, <2>3, <3>1 DEF Brought, Complete
    <2> QED
      BY <1>3, <2>1, <2>2, <2>3, CopiedAre DEF Skips
  <1>4. CASE Stays(i, "insert") /\ HasRead(i, t)
    <2>1. /\ \A pk \in DOMAIN db[t] : pk \in DOMAIN snap'[i]
          /\ \A k \in DOMAIN snap'[i] : k \in DOMAIN db[t] /\ snap'[i][k].row = db[t][k]
      <3>1. InScope(t) = DOMAIN db[t] /\ \A k : KeyOf(t, k) = k
        BY CopiedAre DEF InScope, KeyOf
      <3> QED
        BY <1>4, <3>1 DEF HasRead
    <2>2. \A k \in DOMAIN snap'[i] : Shaped(snap'[i][k].row, t)
      BY <2>1 DEF Base, TableType, Shaped
    <2>3. Seen(i, t)'
      BY <1>1, <2>1, <2>2 DEF Seen, Shaped
    <2> QED
      BY <1>4, <2>3
  <1> QED
    BY <1>1, <1>2, <1>3, <1>4

LEMMA InsertOwn ==
  ASSUME Base, NEW i \in Importers, NEW t \in Copied, NEW c, c = content[i],
         at[i] = Place(t), Insert(i), Toward(c, t), Seen(i, t), TableType'
  PROVE  \/ Restarted(i)
         \/ Left(i) /\ Brought(c, t)'
         \/ Stays(i, "update") /\ Seen(i, t)' /\ DOMAIN Target(c, t) \subseteq DOMAIN db'[t]
  <1> DEFINE goal == Target(c, t)
  <1>1. /\ Running(i) /\ step[i] = "insert" /\ Frame(i)
        /\ \/ Restarted(i)
           \/ /\ Inserts(i, Table(i))
              /\ \/ snap[i] = Empty /\ Left(i)
                 \/ Stays(i, "update") /\ snap' = snap /\ want' = want
    BY InsertSays DEF Base, TableType
  <1>2. Table(i) = t /\ want[i] = goal /\ content'[i] = c
    BY <1>1, TableIs DEF Base, Frame, Prepared, Writing
  <1>3. CASE Inserts(i, t)
    <2>1. /\ DOMAIN db'[t] = DOMAIN db[t] \cup NewKeys(i)
          /\ NewKeys(i) \cap DOMAIN db[t] = {}
          /\ \A k \in NewKeys(i) : db'[t][k] = goal[k]
      BY <1>2, <1>3, CopiedAre DEF Inserts
    <2>2. NewKeys(i) = DOMAIN goal \ DOMAIN snap[i]
      BY <1>2 DEF NewKeys
    <2>3. DOMAIN goal \cap DOMAIN snap[i] \subseteq DOMAIN db[t]
      BY DEF Seen
    <2>4. DOMAIN goal \subseteq DOMAIN db'[t]
      BY <2>1, <2>2, <2>3
    <2>5. CASE snap[i] = Empty /\ Left(i)
      <3>1. DOMAIN snap[i] = {}
        BY <2>5 DEF Empty
      <3>2. DOMAIN db[t] \subseteq DOMAIN goal
        BY <3>1 DEF Seen
      <3>3. Complete(c, t)'
        BY <2>1, <2>2, <2>4, <3>1 DEF Complete
      <3>4. Exact(c, t)'
        BY <2>1, <2>2, <3>2 DEF Exact
      <3> QED
        BY <2>5, <3>3, <3>4 DEF Brought
    <2>6. CASE Stays(i, "update") /\ snap' = snap
      <3>1. Seen(i, t)'
        BY <1>2, <2>6, SeenKept
      <3> QED
        BY <2>4, <2>6, <3>1
    <2> QED
      BY <1>1, <1>2, <2>5, <2>6, CopiedAre DEF Restarted
  <1> QED
    BY <1>1, <1>2, <1>3

LEMMA UpdateOwn ==
  ASSUME Base, NEW i \in Importers, NEW t \in Copied, NEW c, c = content[i],
         at[i] = Place(t), Update(i), Seen(i, t), DOMAIN Target(c, t) \subseteq DOMAIN db[t], TableType'
  PROVE  \/ Left(i) /\ Brought(c, t)'
         \/ Stays(i, "delete") /\ Complete(c, t)'
  <1> DEFINE goal == Target(c, t)
  <1>1. /\ Running(i) /\ step[i] = "update" /\ Updates(i, Table(i))
        /\ \/ Table(i) \in DeleteMissing /\ Stays(i, "delete")
           \/ Table(i) \notin DeleteMissing /\ Left(i)
    BY UpdateSays DEF Base, TableType
  <1>2. Table(i) = t /\ want[i] = goal /\ \A k \in DOMAIN snap[i] : snap[i][k].pk = k
    BY <1>1, TableIs DEF Base, Prepared, Writing
  <1>3. /\ DOMAIN db'[t] = DOMAIN db[t]
        /\ \A k \in DOMAIN db[t] :
             db'[t][k] = IF k \in Changed(i)
                         THEN [f \in DOMAIN goal[k] |->
                                 IF f \in ChangedFields(i) THEN goal[k][f] ELSE db[t][k][f]]
                         ELSE db[t][k]
    BY <1>1, <1>2, CopiedAre DEF Updates
  <1>4. ASSUME NEW k \in DOMAIN goal
        PROVE  k \in DOMAIN db'[t] /\ db'[t][k] = goal[k]
    <2>1. k \in DOMAIN db[t] /\ k \in DOMAIN db'[t]
      BY <1>3, <1>4
    <2>2. Shaped(goal[k], t) /\ DOMAIN goal[k] = Fields(t)
      BY <1>4, TargetShaped
    <2>3. Shaped(db'[t][k], t)
      BY <2>1 DEF TableType, Shaped
    <2>4. CASE k \notin DOMAIN snap[i]
      <3>1. db[t][k] = goal[k] /\ k \notin Changed(i)
        BY <1>4, <2>1, <2>4 DEF Seen, Changed
      <3> QED
        BY <1>3, <2>1, <3>1
    <2>5. CASE k \in DOMAIN snap[i]
      <3>1. /\ Shaped(snap[i][k].row, t)
            /\ \A f \in Fields(t) : db[t][k][f] \in {snap[i][k].row[f], goal[k][f]}
        BY <1>4, <2>5 DEF Seen
      <3>2. k \notin Changed(i) => snap[i][k].row = goal[k]
        BY <1>2, <1>4, <2>5 DEF Changed
      <3>3. ASSUME k \in Changed(i), NEW f \in Fields(t), f \notin ChangedFields(i)
            PROVE  snap[i][k].row[f] = goal[k][f]
        BY <1>2, <2>2, <3>3 DEF ChangedFields
      <3> HIDE DEF goal
      <3>4. \A f \in Fields(t) : db'[t][k][f] = goal[k][f]
        <4>1. CASE k \in Changed(i)
          <5>1. db'[t][k] = [f \in Fields(t) |->
                   IF f \in ChangedFields(i) THEN goal[k][f] ELSE db[t][k][f]]
            BY <1>3, <2>1, <2>2, <4>1
          <5> QED
            BY <3>1, <3>3, <4>1, <5>1
        <4>2. CASE k \notin Changed(i)
          BY <1>3, <2>1, <3>1, <3>2, <4>2
        <4> QED
          BY <4>1, <4>2
      <3> QED
        BY <2>1, <2>2, <2>3, <3>4, SameRow
    <2> QED
      BY <2>4, <2>5
  <1>5. Complete(c, t)'
    BY <1>4 DEF Complete
  <1> QED
    BY <1>1, <1>2, <1>5 DEF Brought

LEMMA DeleteOwn ==
  ASSUME Base, NEW i \in Importers, NEW t \in Copied, NEW c, c = content[i],
         at[i] = Place(t), Delete(i), Complete(c, t)
  PROVE  Left(i) /\ Brought(c, t)'
  <1>1. /\ Running(i) /\ step[i] = "delete" /\ Left(i)
        /\ Removes(Table(i), InScope(Table(i)) \ DOMAIN want[i])
    BY DeleteSays DEF Base, TableType
  <1>2. Table(i) = t /\ want[i] = Target(c, t)
    BY <1>1, TableIs DEF Base, Prepared, Writing
  <1>3. InScope(t) = DOMAIN db[t]
    BY CopiedAre DEF InScope
  <1>4. /\ DOMAIN db'[t] = DOMAIN db[t] \ (DOMAIN db[t] \ DOMAIN Target(c, t))
        /\ \A k \in DOMAIN db'[t] : db'[t][k] = db[t][k]
    BY <1>1, <1>2, <1>3 DEF Removes
  <1>5. Complete(c, t)'
    BY <1>4 DEF Complete
  <1>6. Exact(c, t)'
    BY <1>4 DEF Exact
  <1> QED
    BY <1>1, <1>5, <1>6 DEF Brought

LEMMA MirroringOwn ==
  ASSUME Base, Kin, [Next]_vars, NEW i \in Importers, Calm(i), TagsKept(i),
         NEW t \in Copied, Mirroring(i, t),
         LoadMaps(i) \/ ReadAcked(i) \/ Read(i) \/ Insert(i) \/ Update(i) \/ Delete(i) \/ Crash(i)
  PROVE  Mirroring(i, t)'
  <1>0. PICK c \in Contents : c = content[i]
    BY DEF Base, ImporterType
  <1>1. /\ Running(i) /\ at[i] \in 1..8 /\ content'[i] = c /\ TableType'
        /\ Place(t) \in {4, 5, 7}
    BY <1>0, ImporterMoves, TableIs, BaseStep, CopiedAre DEF Base, Frame
  <1>2. Toward(c, t)
    BY <1>0, TowardStep
  <1>3. CASE Restarted(i)
    BY <1>1, <1>3 DEF Restarted, Mirroring
  <1>4. (\E s : Stays(i, s)) \/ Left(i) \/ Restarted(i)
    BY LoadMapsSays, ReadAckedSays, ReadSays, InsertSays, UpdateSays, DeleteSays, CrashSays
       DEF Base, TableType
  <1>5. /\ (Complete(c, t)' => Complete(content[i], t)')
        /\ (Brought(c, t)' => Brought(content[i], t)')
    BY <1>1
  <1>6. CASE at[i] < Place(t) /\ ~ Restarted(i)
    <2>1. at'[i] < Place(t) \/ (at'[i] = Place(t) /\ step'[i] \in {"maps", "acked", "read"})
      BY <1>1, <1>4, <1>6 DEF Stays, Left
    <2>2. at'[i] \in 0..9
      BY ImporterMoves DEF Frame, ImporterType
    <2> QED
      BY <1>1, <2>1, <2>2 DEF Mirroring
  <1>7. CASE at[i] > Place(t) /\ ~ Restarted(i)
    <2>1. at'[i] > Place(t)
      BY <1>1, <1>4, <1>7 DEF Stays, Left
    <2>2. Brought(c, t)'
      BY <1>0, <1>1, <1>2, <1>7, BroughtKept DEF Mirroring
    <2> QED
      BY <1>1, <1>5, <2>1, <2>2 DEF Mirroring
  <1>8. CASE at[i] = Place(t) /\ ~ Restarted(i)
    <2>1. ASSUME Left(i), Brought(c, t)' PROVE Mirroring(i, t)'
      <3>1. at'[i] = Place(t) + 1
        BY <1>8, <2>1 DEF Left
      <3> QED
        BY <1>1, <1>5, <2>1, <3>1 DEF Mirroring
    <2>2. CASE LoadMaps(i) \/ ReadAcked(i)
      <3>1. Stays(i, "read")
        BY <1>8, <2>2, LoadMapsSays, ReadAckedSays DEF Base
      <3> QED
        BY <1>1, <1>8, <3>1 DEF Stays, Mirroring
    <2>3. CASE Read(i)
      <3>1. \/ Left(i) /\ Brought(c, t)'
            \/ Stays(i, "insert") /\ Seen(i, t)'
        BY <1>0, <1>8, <2>3, ReadOwn
      <3>2. CASE Stays(i, "insert") /\ Seen(i, t)'
        BY <1>1, <1>8, <3>2 DEF Stays, Mirroring
      <3> QED
        BY <2>1, <3>1, <3>2
    <2>4. CASE Insert(i)
      <3>1. Seen(i, t)
        BY <1>8, <2>4, InsertSays DEF Mirroring, Base, TableType
      <3>2. \/ Left(i) /\ Brought(c, t)'
            \/ Stays(i, "update") /\ Seen(i, t)' /\ DOMAIN Target(c, t) \subseteq DOMAIN db'[t]
        BY <1>0, <1>1, <1>2, <1>8, <2>4, <3>1, InsertOwn
      <3>3. CASE Stays(i, "update") /\ Seen(i, t)' /\ DOMAIN Target(c, t) \subseteq DOMAIN db'[t]
        BY <1>1, <1>8, <3>3 DEF Stays, Mirroring
      <3> QED
        BY <2>1, <3>2, <3>3
    <2>5. CASE Update(i)
      <3>1. Seen(i, t) /\ DOMAIN Target(c, t) \subseteq DOMAIN db[t]
        BY <1>0, <1>8, <2>5, UpdateSays DEF Mirroring, Base, TableType
      <3>2. \/ Left(i) /\ Brought(c, t)'
            \/ Stays(i, "delete") /\ Complete(c, t)'
        BY <1>0, <1>1, <1>8, <2>5, <3>1, UpdateOwn
      <3>3. CASE Stays(i, "delete") /\ Complete(c, t)'
        BY <1>1, <1>5, <1>8, <3>3 DEF Stays, Mirroring
      <3> QED
        BY <2>1, <3>2, <3>3
    <2>6. CASE Delete(i)
      <3>1. Complete(c, t)
        BY <1>0, <1>8, <2>6, DeleteSays DEF Mirroring, Base, TableType
      <3> QED
        BY <1>0, <1>8, <2>1, <2>6, <3>1, DeleteOwn
    <2>7. CASE Crash(i)
      BY <1>8, <2>7, CrashSays DEF Base
    <2> QED
      BY <2>2, <2>3, <2>4, <2>5, <2>6, <2>7
  <1> QED
    BY <1>1, <1>3, <1>6, <1>7, <1>8

-----------------------------------------------------------------------------
(* The playbooks.                                                          *)

\* Beside a calm importer that has been through the resolutions, none of
\* them comes or goes, and no playbook goes.
LEMMA BooksGrow ==
  ASSUME Base, Kin, [Next]_vars, NEW i \in Importers, Calm(i), NEW c, c = content[i],
         DOMAIN db["resolution"] = DOMAIN Target(c, "resolution")
  PROVE  DOMAIN db["playbook"] \subseteq DOMAIN db'["playbook"]
  <1>1. CASE Outer
    BY <1>1, OuterSays DEF Base
  <1>2. ASSUME NEW j \in Importers, Start(j) \/ LoadMaps(j) \/ ReadAcked(j) \/ Read(j) \/ Crash(j)
        PROVE  db' = db
    BY <1>2 DEF Start, LoadMaps, ReadAcked, Read, Crash
  <1>3. ASSUME NEW j \in Importers, Insert(j)
        PROVE  DOMAIN db["playbook"] \subseteq DOMAIN db'["playbook"]
    <2>1. db' = db \/ Inserts(j, Table(j))
      BY <1>3, InsertSays DEF Base, TableType
    <2> QED
      BY <2>1, CopiedAre DEF Inserts
  <1>4. ASSUME NEW j \in Importers, Update(j)
        PROVE  DOMAIN db["playbook"] \subseteq DOMAIN db'["playbook"]
    <2>1. Updates(j, Table(j))
      BY <1>4, UpdateSays DEF Base, TableType
    <2> QED
      BY <2>1, CopiedAre DEF Updates
  <1>5. ASSUME NEW j \in Importers, Delete(j)
        PROVE  DOMAIN db["playbook"] \subseteq DOMAIN db'["playbook"]
    <2>1. /\ Running(j) /\ step[j] = "delete"
          /\ Removes(Table(j), InScope(Table(j)) \ DOMAIN want[j])
      BY <1>5, DeleteSays DEF Base, TableType
    <2>2. content[j] = c
      BY <2>1 DEF Kin
    <2>3. ASSUME Table(j) = "resolution" PROVE InScope("resolution") \ DOMAIN want[j] = {}
      <3>1. want[j] = Target(c, "resolution")
        BY <2>1, <2>2, <2>3, TableIs DEF Base, Prepared, Writing, Copied
      <3> QED
        BY <3>1 DEF InScope
    <2> QED
      BY <2>1, <2>3 DEF Removes
  <1> QED
    BY <1>1, <1>2, <1>3, <1>4, <1>5, StepIs

LEMMA BookStays ==
  ASSUME NEW k, HasBook(k), DOMAIN db["playbook"] \subseteq DOMAIN db'["playbook"]
  PROVE  HasBook(k)'
  BY DEF HasBook

LEMMA PlaybookKeys ==
  ASSUME NEW c
  PROVE  DOMAIN PlaybookRows(c) = {<<p.rule, p.type>> : p \in Usable(c)}
  BY DEF PlaybookRows, Usable

LEMMA UsableKept ==
  ASSUME NEW c, DOMAIN db'["resolution"] = DOMAIN db["resolution"]
  PROVE  /\ \A r : SystemOf(r)' = SystemOf(r)
         /\ Usable(c)' = Usable(c)
  BY DEF Usable, SystemOf

\* An importer's own step at the playbooks leaves none missing that it had
\* found there or wants.
LEMMA BooksOwn ==
  ASSUME Base, NEW i \in Importers, NEW c, c = content[i], at[i] = 8, BooksKept(i),
         DOMAIN db["playbook"] \subseteq DOMAIN db'["playbook"],
         DOMAIN db'["resolution"] = DOMAIN db["resolution"],
         Read(i) \/ Insert(i) \/ Update(i) \/ Delete(i)
  PROVE  \/ Restarted(i)
         \/ /\ Left(i)
            /\ ~ c.hasPlaybooks \/ \A p \in Usable(c) : HasBook(<<p.rule, p.type>>)'
         \/ /\ at'[i] = 8 /\ step'[i] \in {"insert", "update"}
            /\ DOMAIN want'[i] = {<<p.rule, p.type>> : p \in Usable(c)}
            /\ \A k \in DOMAIN snap'[i] : HasBook(k)'
            /\ step'[i] = "update" => \A k \in DOMAIN want'[i] : HasBook(k)'
  <1>1. Running(i) /\ Table(i) = "playbook" /\ Frame(i)
    <2>1. Running(i)
      BY ImporterMoves
    <2> QED
      BY <2>1, ImporterMoves, TableIs DEF Base
  <1>2. \A k : HasBook(k) => HasBook(k)'
    BY BookStays
  <1>3. CASE Read(i)
    <2>1. /\ step[i] = "read"
          /\ \/ Restarted(i)
             \/ Left(i) /\ Skips(i, "playbook")
             \/ /\ Stays(i, "insert") /\ HasRead(i, "playbook")
                /\ want'[i] = Config(i, "playbook")
      BY <1>1, <1>3, ReadSays DEF Base
    <2>2. Config(i, "playbook") = PlaybookRows(c)
      BY <1>1, <2>1, ConfigIs DEF Base
    <2>3. CASE Left(i) /\ Skips(i, "playbook")
      <3>1. ~ c.hasPlaybooks \/ DOMAIN PlaybookRows(c) = {}
        BY <2>2, <2>3 DEF Skips, Empty
      <3>2. \A p \in Usable(c) : <<p.rule, p.type>> \in DOMAIN PlaybookRows(c)
        BY PlaybookKeys
      <3> QED
        BY <2>3, <3>1, <3>2
    <2>4. CASE /\ Stays(i, "insert") /\ HasRead(i, "playbook")
               /\ want'[i] = Config(i, "playbook")
      <3>1. DOMAIN want'[i] = {<<p.rule, p.type>> : p \in Usable(c)}
        BY <2>2, <2>4, PlaybookKeys
      <3>2. ASSUME NEW k \in DOMAIN snap'[i] PROVE HasBook(k)
        BY <2>4, <3>2 DEF HasRead, KeyOf, InScope, HasBook
      <3> QED
        BY <1>2, <2>4, <3>1, <3>2 DEF Stays
    <2> QED
      BY <2>1, <2>3, <2>4
  <1>4. CASE Insert(i)
    <2>1. /\ step[i] = "insert"
          /\ \/ Restarted(i)
             \/ /\ Inserts(i, "playbook")
                /\ \/ snap[i] = Empty /\ Left(i)
                   \/ Stays(i, "update") /\ snap' = snap /\ want' = want
      BY <1>1, <1>4, InsertSays DEF Base, TableType
    <2>2. /\ DOMAIN want[i] = {<<p.rule, p.type>> : p \in Usable(c)}
          /\ \A k \in DOMAIN snap[i] : HasBook(k)
      BY <2>1 DEF BooksKept
    <2>3. ASSUME Inserts(i, "playbook"), NEW k \in DOMAIN want[i] PROVE HasBook(k)'
      <3>1. CASE k \in DOMAIN snap[i]
        BY <1>2, <2>2, <3>1
      <3>2. CASE k \notin DOMAIN snap[i]
        <4>1. Pk("playbook", k) \in DOMAIN db'["playbook"]
          BY <2>3, <3>2 DEF Inserts, NewKeys
        <4>2. PICK n : Pk("playbook", k) = <<k[1], k[2], n>>
          BY DEF Pk
        <4>3. <<k[1], k[2]>> = k
          BY <2>2, <2>3
        <4>4. <<Pk("playbook", k)[1], Pk("playbook", k)[2]>> = k
          BY <4>2, <4>3
        <4> QED
          BY <4>1, <4>4 DEF HasBook
      <3> QED
        BY <3>1, <3>2
    <2>4. Inserts(i, "playbook") => \A p \in Usable(c) : HasBook(<<p.rule, p.type>>)'
      BY <2>2, <2>3
    <2>5. CASE Stays(i, "update") /\ snap' = snap /\ want' = want /\ Inserts(i, "playbook")
      BY <1>2, <2>2, <2>3, <2>5 DEF Stays
    <2> QED
      BY <2>1, <2>4, <2>5
  <1>5. CASE Update(i)
    <2>1. step[i] = "update" /\ (Left(i) \/ "playbook" \in DeleteMissing)
      BY <1>1, <1>5, UpdateSays DEF Base, TableType
    <2>2. /\ DOMAIN want[i] = {<<p.rule, p.type>> : p \in Usable(c)}
          /\ \A k \in DOMAIN want[i] : HasBook(k)
      BY <2>1 DEF BooksKept
    <2> QED
      BY <1>2, <2>1, <2>2 DEF DeleteMissing
  <1>6. CASE Delete(i)
    BY <1>1, <1>6, DeleteSays DEF Base, TableType, DeleteMissing
  <1> QED
    BY <1>3, <1>4, <1>5, <1>6

-----------------------------------------------------------------------------
(* What calm importers know stays true until they end.                     *)

LEMMA KnownStep ==
  ASSUME Base, Kin, [Next]_vars, \A i \in Importers : TagsKept(i) /\ Known(i)
  PROVE  \A i \in Importers : Known(i)'
  <1> SUFFICES ASSUME NEW i \in Importers, Calm(i)'
               PROVE  (BooksKept(i) /\ \A t \in Copied : Mirroring(i, t))'
    BY DEF Known
  <1>0. Base' /\ content' = content
    <2>1. Base'
      BY BaseStep
    <2>2. content' = content
      BY StepIs, OuterSays, StartSays, ImporterMoves DEF Base, importerVars, Frame
    <2> QED
      BY <2>1, <2>2
  <1>1. PICK c \in Contents : c = content[i] /\ c = content'[i]
    BY <1>0 DEF Base, ImporterType
  \* One that has just begun knows nothing yet.
  <1>2. CASE at'[i] = 1
    <2>1. \A t \in Copied : at'[i] < Place(t)
      BY <1>2, CopiedAre
    <2> QED
      BY <1>2, <2>1, CopiedAre DEF BooksKept, Mirroring
  <1>3. CASE at'[i] # 1
    <2>1. ~ Start(i)
      BY <1>3, StartSays DEF Base, Restarted
    <2>2. Calm(i)
      <3>1. CASE Outer
        <4>1. at' = at /\ disturbed[i] \subseteq disturbed'[i]
          BY <3>1, OuterSays DEF Base, importerVars
        <4> QED
          BY <4>1 DEF Calm, Running
      <3>2. ASSUME NEW j \in Importers, Start(j) PROVE Calm(i)
        <4>1. j # i /\ Apart(j) /\ disturbed[i] \subseteq disturbed'[i]
          BY <2>1, <3>2, StartSays DEF Base
        <4> QED
          BY <4>1 DEF Calm, Running, Apart
      <3>3. ASSUME NEW j \in Importers, Running(j), Frame(j) PROVE Calm(i)
        BY <3>3 DEF Calm, Running, Frame, Apart
      <3> QED
        BY <3>1, <3>2, <3>3, StepIs, ImporterMoves
    <2>3. BooksKept(i) /\ TagsKept(i) /\ \A t \in Copied : Mirroring(i, t)
      BY <2>2 DEF Known
    <2>4. \A t \in Copied : Toward(c, t)
      BY <1>1, <2>2, TowardStep
    <2>5. \/ /\ at'[i] = at[i] /\ step'[i] = step[i] /\ snap'[i] = snap[i] /\ want'[i] = want[i]
          \/ LoadMaps(i) \/ ReadAcked(i) \/ Read(i) \/ Insert(i) \/ Update(i) \/ Delete(i) \/ Crash(i)
      <3>1. CASE Outer
        BY <3>1, OuterSays DEF Base, importerVars
      <3>2. ASSUME NEW j \in Importers, j # i, Apart(j)
            PROVE  at'[i] = at[i] /\ step'[i] = step[i] /\ snap'[i] = snap[i] /\ want'[i] = want[i]
        BY <3>2 DEF Apart
      <3>3. \A j \in Importers : Start(j) => j # i /\ Apart(j)
        BY <2>1, StartSays DEF Base
      <3>4. \A j \in Importers :
              LoadMaps(j) \/ ReadAcked(j) \/ Read(j) \/ Insert(j) \/ Update(j) \/ Delete(j) \/ Crash(j)
                => Apart(j)
        BY ImporterMoves DEF Frame
      <3> QED
        BY <3>1, <3>2, <3>3, <3>4, StepIs
    <2>6. ASSUME NEW t \in Copied PROVE Mirroring(i, t)'
      <3>1. CASE at'[i] = at[i] /\ step'[i] = step[i] /\ snap'[i] = snap[i]
        BY <1>0, <1>1, <2>3, <2>4, <3>1, MirroringApart DEF Base
      <3>2. CASE LoadMaps(i) \/ ReadAcked(i) \/ Read(i) \/ Insert(i) \/ Update(i) \/ Delete(i) \/ Crash(i)
        BY <2>2, <2>3, <3>2, MirroringOwn
      <3> QED
        BY <2>5, <3>1, <3>2
    <2>7. BooksKept(i)'
      <3> SUFFICES ASSUME at'[i] = 8, step'[i] \in {"insert", "update"} PROVE BooksKept(i)'
        BY DEF BooksKept
      <3>1. step'[i] # "maps" /\ step'[i] # "acked" /\ step'[i] # "read"
        OBVIOUS
      <3>2. at[i] = 8
        BY <2>5, <3>1, LoadMapsSays, ReadAckedSays, ReadSays, InsertSays, UpdateSays, DeleteSays, CrashSays
           DEF Base, TableType, Stays, Left, Restarted
      <3>3. Brought(c, "resolution") /\ Brought(c, "resolution")'
        <4>1. "resolution" \in Copied /\ Place("resolution") = 7
          BY DEF Copied, Place
        <4>2. Brought(c, "resolution")
          BY <1>1, <2>3, <3>2, <4>1 DEF Mirroring
        <4> QED
          BY <1>0, <2>4, <4>1, <4>2, BroughtKept DEF Base
      <3>4. /\ DOMAIN db["resolution"] = DOMAIN Target(c, "resolution")
            /\ DOMAIN db'["resolution"] = DOMAIN Target(c, "resolution")
        BY <3>3 DEF Brought, Spared, Complete, Exact, DeleteMissing
      <3>5. DOMAIN db["playbook"] \subseteq DOMAIN db'["playbook"]
        BY <1>1, <2>2, <3>4, BooksGrow
      <3>6. Usable(c)' = Usable(c)
        BY <3>4, UsableKept
      <3>7. CASE at'[i] = at[i] /\ step'[i] = step[i] /\ snap'[i] = snap[i] /\ want'[i] = want[i]
        <4>1. /\ DOMAIN want'[i] = {<<p.rule, p.type>> : p \in Usable(c)}
              /\ \A k \in DOMAIN snap'[i] : HasBook(k)
              /\ step'[i] = "update" => \A k \in DOMAIN want'[i] : HasBook(k)
          BY <1>1, <2>3, <3>2, <3>7 DEF BooksKept
        <4>2. \A k : HasBook(k) => HasBook(k)'
          BY <3>5, BookStays
        <4> QED
          BY <1>1, <3>6, <4>1, <4>2 DEF BooksKept
      <3>8. CASE Read(i) \/ Insert(i) \/ Update(i) \/ Delete(i)
        <4>1. /\ DOMAIN want'[i] = {<<p.rule, p.type>> : p \in Usable(c)}
              /\ \A k \in DOMAIN snap'[i] : HasBook(k)'
              /\ step'[i] = "update" => \A k \in DOMAIN want'[i] : HasBook(k)'
          BY <1>1, <2>3, <3>1, <3>2, <3>4, <3>5, <3>8, BooksOwn DEF Restarted, Left
        <4> QED
          BY <1>1, <3>6, <4>1 DEF BooksKept
      <3>9. CASE LoadMaps(i) \/ ReadAcked(i) \/ Crash(i)
        BY <3>1, <3>9, LoadMapsSays, ReadAckedSays, CrashSays DEF Base, Stays, Restarted
      <3> QED
        BY <2>5, <3>7, <3>8, <3>9
    <2> QED
      BY <2>6, <2>7
  <1> QED
    BY <1>2, <1>3

MirrorInv == Base /\ Kin /\ Alone /\ \A i \in Importers : TagsKept(i) /\ Known(i)

LEMMA MirrorInvHolds == Spec => []MirrorInv
  <1>1. Init => MirrorInv
    <2> SUFFICES ASSUME Init PROVE MirrorInv
      OBVIOUS
    <2>1. \A i \in Importers : ~ Running(i)
      BY BaseInit, RunningIs DEF Init, Idle, Base
    <2> QED
      BY <2>1, BaseInit, HistoryInit DEF MirrorInv, TagsKept, Known, Calm
  <1>2. MirrorInv /\ [Next]_vars => MirrorInv'
    BY BaseStep, HistoryStep, TagsKeptStep, KnownStep DEF MirrorInv
  <1> QED
    BY <1>1, <1>2, PTL DEF Spec

\* The tables mirror the content once each is brought to it.
LEMMA MirroredWhenBrought ==
  ASSUME NEW c, NEW d, d = c, \A t \in Copied : Brought(c, t)',
         ~ c.hasPlaybooks \/ \A p \in Usable(c)' : HasBook(<<p.rule, p.type>>)'
  PROVE  Mirrored(d)'
  <1> DEFINE tagged == UNION {{r} \X TagsOf(c, r) : r \in RulesOf(c)}
  <1>1. /\ Brought(c, "rule")' /\ Brought(c, "ruleTag")' /\ Brought(c, "resolution")'
        /\ "rule" \notin DeleteMissing /\ {"ruleTag", "resolution"} \subseteq DeleteMissing
    BY DEF Copied, DeleteMissing
  <1>2. \A r \in RulesOf(c) : r \in DOMAIN db'["rule"]
                           /\ db'["rule"][r] = RuleRow(c, c.risks, LastRow(c, r))
    <2>1. Complete(c, "rule")' /\ Target(c, "rule") = RuleRows(c, c.risks)
      BY <1>1 DEF Brought, Spared, Target
    <2> QED
      BY <2>1 DEF Complete, RuleRows
  <1>3. (\E k \in tagged : k[2] \notin c.tags) \/ DOMAIN db'["ruleTag"] = tagged
    <2>1. Target(c, "ruleTag") = RuleTagRows(c) /\ DOMAIN RuleTagRows(c) = tagged
      BY DEF Target, RuleTagRows
    <2>2. Spared(c, "ruleTag") \/ (Complete(c, "ruleTag")' /\ Exact(c, "ruleTag")')
      BY <1>1 DEF Brought, Spared
    <2> HIDE DEF tagged
    <2> QED
      BY <2>1, <2>2 DEF Spared, Complete, Exact
  <1>4. /\ DOMAIN db'["resolution"] = {<<row.rule, row.sys>> : row \in RowsOf(c)}
        /\ \A k \in DOMAIN db'["resolution"] : db'["resolution"][k].risk = LastPair(c, k).risk
    <2>1. /\ Target(c, "resolution") = ResolutionRows(c)
          /\ DOMAIN ResolutionRows(c) = {<<row.rule, row.sys>> : row \in RowsOf(c)}
          /\ \A k \in DOMAIN ResolutionRows(c) : ResolutionRows(c)[k].risk = LastPair(c, k).risk
      BY DEF Target, ResolutionRows
    <2>2. Complete(c, "resolution")' /\ Exact(c, "resolution")'
      BY <1>1 DEF Brought, Spared
    <2>3. /\ DOMAIN db'["resolution"] = DOMAIN ResolutionRows(c)
          /\ \A k \in DOMAIN db'["resolution"] : db'["resolution"][k] = ResolutionRows(c)[k]
      BY <2>1, <2>2 DEF Complete, Exact
    <2> QED
      BY <2>1, <2>3
  <1>5. \A p \in IF c.hasPlaybooks THEN c.playbooks ELSE {} :
          SystemOf(p.rule)' # {} =>
            \E pk \in DOMAIN db'["playbook"] : <<pk[1], pk[2]>> = <<p.rule, p.type>>
    BY DEF Usable, HasBook
  <1> QED
    BY <1>2, <1>3, <1>4, <1>5 DEF Mirrored

\* An import that ends has brought its content into the tables, whatever
\* other imports of that content, users and the service did meanwhile.
THEOREM ContentMirrored == Spec => ImportMirrors
  <1>1. ASSUME MirrorInv, [Next]_vars, NEW i \in Importers, Finishes(i), "content" \notin disturbed[i]
        PROVE  Mirrored(content[i])'
    <2>1. /\ Running(i) /\ at[i] = 8
          /\ Read(i) \/ Insert(i) \/ Update(i) \/ Delete(i)
          /\ Left(i) /\ Frame(i)
      BY <1>1, EndsWithPlaybooks DEF MirrorInv
    <2>2. PICK c \in Contents : c = content[i] /\ c = content'[i]
      BY <1>1, <2>1 DEF MirrorInv, Base, ImporterType, Frame
    <2>3. Calm(i) /\ BooksKept(i) /\ \A t \in Copied : Mirroring(i, t)
      BY <1>1, <2>1 DEF Calm, MirrorInv, Known
    <2>4. \A t \in Copied : Brought(c, t)
      BY <2>1, <2>2, <2>3, CopiedAre DEF Mirroring
    <2>5. \A t \in Copied : Brought(c, t)'
      BY <1>1, <2>2, <2>3, <2>4, TowardStep, BroughtKept, BaseStep DEF MirrorInv, Base
    <2>6. /\ DOMAIN db["resolution"] = DOMAIN Target(c, "resolution")
          /\ DOMAIN db'["resolution"] = DOMAIN Target(c, "resolution")
      BY <2>4, <2>5 DEF Copied, Brought, Spared, Complete, Exact, DeleteMissing
    <2>7. DOMAIN db["playbook"] \subseteq DOMAIN db'["playbook"]
      BY <1>1, <2>2, <2>3, <2>6, BooksGrow DEF MirrorInv
    <2>8. ~ c.hasPlaybooks \/ \A p \in Usable(c) : HasBook(<<p.rule, p.type>>)'
      <3>1. at'[i] = 9 /\ Base
        BY <1>1, <2>1 DEF Left, MirrorInv
      <3>2. ~ Restarted(i) /\ at'[i] # 8
        BY <3>1 DEF Restarted
      <3>3. DOMAIN db'["resolution"] = DOMAIN db["resolution"]
        BY <2>6
      <3> QED
        BY <2>1, <2>2, <2>3, <2>7, <3>1, <3>2, <3>3, BooksOwn
    <2>9. Usable(c)' = Usable(c)
      BY <2>6, UsableKept
    <2> QED
      BY <2>2, <2>5, <2>8, <2>9, MirroredWhenBrought
  <1>2. MirrorInv /\ [Next]_vars =>
          [\A i \in Importers : Finishes(i) /\ "content" \notin disturbed[i]
             => Mirrored(content[i])']_vars
    BY <1>1
  <1> QED
    BY <1>2, MirrorInvHolds, PTL DEF Spec, ImportMirrors

-----------------------------------------------------------------------------
(***************************************************************************)
(* The import from the content server (ContentServer), which writes the    *)
(* same content in another way: one request after another, row by row.     *)
(* A row that the loop has left stays in the tables as it is there         *)
(* (Passed), until a later row tells of the same rule or resolution; of    *)
(* the row at hand each step leaves what it has written (Current).         *)
(***************************************************************************)

CONSTANTS Workers, Posts, DisableCve, ServerPathways
VARIABLES rules, ruleTags, tags, risks, impacts, resolutions, playbooks, acks, reports,
          pc, worker, job, row, left, memory, allowance, sent

Server == INSTANCE ContentServer WITH Pathways <- ServerPathways, budget <- allowance

\* The contents that are posted; the points of the loop over a content's rows.
PostedContents  == UNION {Server!PostedIn(b) : b \in Posts}
RowPoints == {"save", "resolution", "playbooks", "pathway", "ruleTags", "autoack", "addAcks", "unack"}
AfterRows == {"extra", "notify"}

RequestType ==
  /\ allowance.posts \in Seq(PostedContents) /\ allowance.requests \in Nat /\ allowance.kills \in Nat
  /\ allowance = [posts |-> allowance.posts, kills |-> allowance.kills,
       requests |-> allowance.requests]
  /\ pc \in Server!Points
  /\ pc # "idle" => job \in PostedContents
  /\ row \in Nat
  /\ pc \in {"find"} \cup RowPoints => row \in DOMAIN job.rows
  /\ pc \in RowPoints => Server!Row.ruleset
  /\ pc \in {"resolution", "playbooks"} => Server!Row.risk # "null"
  /\ pc \in AfterRows => \A n \in DOMAIN job.rows : n < row
  /\ \A r \in DOMAIN rules : {"active", "pathway", "impact"} \subseteq DOMAIN rules[r]

Tells(n)    == job.rows[n].ruleset
Resolves(n) == Tells(n) /\ job.rows[n].risk # "null"
RuleAt(n)   == job.rows[n].rule
KeyAt(n)    == Server!KeyOf(job.rows[n])

\* The tables say of a rule, or of its resolution, what the row does.
Described(n) ==
  /\ rules[RuleAt(n)].active = Server!Active(job.rows[n])
       /\ rules[RuleAt(n)].pathway = Server!PathwayOf(job.rows[n])
  /\ Server!TagsOf(RuleAt(n)) = job.rows[n].tags
Resolved(n) ==
  /\ KeyAt(n) \in DOMAIN resolutions /\ resolutions[KeyAt(n)] = job.rows[n].risk
  /\ Server!BookTypes(job.rows[n]) \subseteq DOMAIN job.rows[n].playbooks
       /\ Server!BooksToSave(job.rows[n]) = {}

\* No row after n, up to the one at hand, is about the same.
At == IF pc \in RowPoints THEN row ELSE row - 1
LastTold(n, a)     == \A m \in DOMAIN job.rows : n < m /\ m <= a /\ Tells(m) => RuleAt(m) # RuleAt(n)
LastResolved(n, a) == \A m \in DOMAIN job.rows : n < m /\ m <= a /\ Resolves(m) => KeyAt(m) # KeyAt(n)

\* The rows that the loop has left are in the tables.
Passed ==
  pc \in {"find"} \cup RowPoints \cup AfterRows =>
    \A n \in DOMAIN job.rows : n < row /\ Tells(n) =>
      /\ RuleAt(n) \in DOMAIN rules
      /\ LastTold(n, At) => Described(n)
      /\ Resolves(n) /\ LastResolved(n, At) => Resolved(n)

\* What has been done of the row at hand.
Current ==
  /\ pc \in RowPoints \ {"save"} => Server!Row.rule \in DOMAIN rules
       /\ rules[Server!Row.rule].active = Server!Active(Server!Row)
  /\ pc = "playbooks" => KeyAt(row) \in DOMAIN resolutions
       /\ resolutions[KeyAt(row)] = Server!Row.risk
  /\ pc \in RowPoints \ {"save", "resolution", "playbooks"} /\ Server!Row.risk # "null" =>
       Resolved(row)
  /\ pc \in {"ruleTags", "autoack", "addAcks", "unack"} =>
       rules[Server!Row.rule].pathway = Server!PathwayOf(Server!Row)

Emptied == pc = "notify" => DOMAIN rules \subseteq Server!RulesOf(job)

-----------------------------------------------------------------------------
\* The rows of a posted content are numbered from 1.
LEMMA RowsNumbered ==
  ASSUME Server!WellFormed, NEW c \in PostedContents
  PROVE  Len(c.rows) \in Nat /\ DOMAIN c.rows = 1..Len(c.rows)
BY DEF Server!WellFormed, PostedContents

LEMMA RequestTypeInit ==
  ASSUME Server!WellFormed, Server!Init
  PROVE  RequestType
<1>1. PICK b \in Posts : allowance = b
  BY DEF Server!Init
<1>2. b.posts \in Seq(Server!PostedIn(b)) /\ Server!PostedIn(b) \subseteq PostedContents
  BY <1>1 DEF Server!WellFormed, PostedContents
<1>3. b.posts \in Seq(PostedContents)
  BY <1>2
<1>4. DOMAIN rules = {}
  BY DEF Server!Init, Server!Empty
<1> QED
  BY <1>1, <1>3, <1>4 DEF Server!Init, RequestType, Server!WellFormed, Server!Points, RowPoints,
       AfterRows

\* A step that leaves the request's bounds, content and rules' fields alone.
Bounded == allowance' = allowance \/ Server!Request
LEMMA BudgetKept ==
  ASSUME RequestType, Bounded
  PROVE  /\ allowance'.posts \in Seq(PostedContents) /\ allowance'.requests \in Nat
              /\ allowance'.kills \in Nat
         /\ allowance' = [posts |-> allowance'.posts, kills |-> allowance'.kills,
              requests |-> allowance'.requests]
<1>1. CASE allowance' = allowance
  BY <1>1 DEF RequestType
<1>2. CASE Server!Request
  <2> DEFINE p == allowance.posts  k == allowance.kills  r == allowance.requests
  <2>1. allowance = [posts |-> p, kills |-> k, requests |-> r] /\ p \in Seq(PostedContents)
          /\ k \in Nat /\ r \in Nat
    BY DEF RequestType
  <2> HIDE DEF p, k, r
  <2>2. r > 0 /\ allowance' = [posts |-> p, kills |-> k, requests |-> r - 1]
    BY <1>2, <2>1 DEF Server!Request
  <2> QED
    BY <2>1, <2>2
<1> QED
  BY <1>1, <1>2 DEF Bounded

RulesShaped == \A r \in DOMAIN rules : {"active", "pathway", "impact"} \subseteq DOMAIN rules[r]

LEMMA RequestTypeStep ==
  ASSUME Server!WellFormed, RequestType, [Server!Next]_(Server!vars)
  PROVE  RequestType'
<1> USE DEF Server!Points, RowPoints, AfterRows, Server!Row
<1>0. ASSUME UNCHANGED <<Server!requestVars, allowance, rules>> PROVE RequestType'
  BY <1>0 DEF RequestType, Server!requestVars
<1>1. ASSUME NEW w \in Workers, Server!Post(w) PROVE RequestType'
  <2>1. allowance.posts # <<>> /\ allowance' = [allowance EXCEPT !.posts = Tail(@)] /\ rules' = rules
    BY <1>1 DEF Server!Post, Server!ruleVars
  <2>2. /\ allowance'.posts \in Seq(PostedContents) /\ allowance'.requests \in Nat
             /\ allowance'.kills \in Nat
        /\ allowance' = [posts |-> allowance'.posts, kills |-> allowance'.kills,
             requests |-> allowance'.requests]
    <3> DEFINE p == allowance.posts  k == allowance.kills  r == allowance.requests
    <3>1. allowance = [posts |-> p, kills |-> k, requests |-> r] /\ p \in Seq(PostedContents)
            /\ k \in Nat /\ r \in Nat
      BY DEF RequestType
    <3> HIDE DEF p, k, r
    <3>2. p # <<>> /\ allowance' = [posts |-> Tail(p), kills |-> k, requests |-> r]
      BY <2>1, <3>1
    <3>3. Tail(p) \in Seq(PostedContents)
      BY <3>1, <3>2
    <3> QED
      BY <3>1, <3>2, <3>3
  <2>3. Head(allowance.posts) \in PostedContents
    BY <2>1 DEF RequestType
  <2>4. \/ pc' = "risks" /\ job' \in PostedContents /\ row' = 0
        \/ pc = "idle" /\ pc' = pc /\ job' = job /\ row' = row
    BY <1>1, <2>3 DEF Server!Post
  <2>5. (pc' # "idle" => job' \in PostedContents) /\ row' \in Nat /\ pc' \in {"risks", "idle"}
    BY <2>4 DEF RequestType
  <2> QED
    BY <2>1, <2>2, <2>5 DEF RequestType
<1>2. ASSUME Server!Fail, RulesShaped', Bounded \/ Server!Kill PROVE RequestType'
  <2>1. /\ allowance'.posts \in Seq(PostedContents) /\ allowance'.requests \in Nat
             /\ allowance'.kills \in Nat
        /\ allowance' = [posts |-> allowance'.posts, kills |-> allowance'.kills,
             requests |-> allowance'.requests]
    <3>1. CASE Bounded
      BY <3>1, BudgetKept
    <3>2. CASE Server!Kill
      <4> DEFINE p == allowance.posts  k == allowance.kills  r == allowance.requests
      <4>1. allowance = [posts |-> p, kills |-> k, requests |-> r] /\ p \in Seq(PostedContents)
              /\ k \in Nat /\ r \in Nat
        BY DEF RequestType
      <4> HIDE DEF p, k, r
      <4>2. k > 0 /\ allowance' = [posts |-> p, kills |-> k - 1, requests |-> r]
        BY <3>2, <4>1 DEF Server!Kill
      <4> QED
        BY <4>1, <4>2
    <3> QED
      BY <1>2, <3>1, <3>2
  <2> QED
    BY <1>2, <2>1 DEF Server!Fail, RequestType, RulesShaped
<1>3. ASSUME NEW n \in Nat, Server!NextRow(n), pc # "idle", rules' = rules, allowance' = allowance,
             \A m \in DOMAIN job.rows : n \notin DOMAIN job.rows => m < n
      PROVE  RequestType'
  BY <1>3 DEF Server!NextRow, RequestType
<1>4. ASSUME NEW p \in {"impacts", "tags"}, Server!Goto(p), pc # "idle", rules' = rules,
               allowance' = allowance
      PROVE  RequestType'
  BY <1>4 DEF Server!Goto, RequestType
<1>5. ASSUME NEW p \in RowPoints, pc \in {"find"} \cup RowPoints, Server!Row.ruleset,
               p \in {"resolution", "playbooks"} => Server!Row.risk # "null",
             pc' = p, UNCHANGED <<job, row>>, RulesShaped', allowance' = allowance
      PROVE  RequestType'
  BY <1>5 DEF RequestType, RulesShaped
<1>6. RulesShaped
  BY DEF RequestType, RulesShaped
<1>7. pc \in {"find"} \cup RowPoints => /\ row \in Nat /\ row \in DOMAIN job.rows /\ row + 1 \in Nat
                                         /\ \A m \in DOMAIN job.rows : row + 1 \notin DOMAIN job.rows => m < row + 1
  BY RowsNumbered DEF RequestType
<1>8. pc = "tags" => \A m \in DOMAIN job.rows : 1 \notin DOMAIN job.rows => m < 1
  BY RowsNumbered DEF RequestType
<1>9. CASE Server!SyncRisk
  BY <1>9, <1>0, <1>4 DEF Server!SyncRisk
<1>10. CASE Server!SyncImpact
  <2>1. CASE Server!Goto("tags") /\ rules' = rules
    BY <1>10, <2>1, <1>4 DEF Server!SyncImpact
  <2>2. CASE UNCHANGED Server!requestVars
    <3>1. RulesShaped'
      BY <1>10, <2>2, <1>6 DEF Server!SyncImpact, RulesShaped
    <3>2. allowance' = allowance /\ pc = "impacts"
      BY <1>10 DEF Server!SyncImpact
    <3> QED
      BY <2>2, <3>1, <3>2 DEF RequestType, RulesShaped, Server!requestVars
  <2> QED
    BY <1>10, <2>1, <2>2 DEF Server!SyncImpact
<1>11. CASE Server!SyncTag
  BY <1>11, <1>0, <1>3, <1>8 DEF Server!SyncTag
<1>12. CASE Server!Find
  <2>1. CASE Server!NextRow(row + 1)
    BY <1>12, <2>1, <1>3, <1>7 DEF Server!Find, Server!ruleVars
  <2>2. CASE Server!Fail
    BY <1>12, <2>2, <1>2, <1>6 DEF Server!Find, Server!ruleVars, Bounded, RulesShaped
  <2>3. CASE Server!Goto("save") /\ Server!Row.ruleset
    BY <1>12, <2>3, <1>5, <1>6 DEF Server!Find, Server!ruleVars, RulesShaped, Server!Goto
  <2> QED
    BY <1>12, <2>1, <2>2, <2>3 DEF Server!Find
<1>13. CASE Server!SaveRule
  <2>1. RulesShaped'
    BY <1>13, <1>6 DEF Server!SaveRule, RulesShaped, Server!Put, Server!RuleFields
  <2> QED
    BY <1>13, <2>1, <1>5 DEF Server!SaveRule, Server!Goto, RequestType
<1>14. CASE Server!SaveResolution
  <2>1. CASE Server!Fail
    BY <1>14, <2>1, <1>2, <1>6 DEF Server!SaveResolution, Bounded, RulesShaped
  <2>2. CASE Server!Goto("playbooks")
    BY <1>14, <2>2, <1>5, <1>6 DEF Server!SaveResolution, RulesShaped, Server!Goto, RequestType
  <2> QED
    BY <1>14, <2>1, <2>2 DEF Server!SaveResolution
<1>15. CASE Server!SyncPlaybook
  <2>1. CASE Server!Goto("pathway")
    BY <1>15, <2>1, <1>5, <1>6 DEF Server!SyncPlaybook, RulesShaped, Server!Goto, RequestType
  <2> QED
    BY <1>15, <2>1, <1>0 DEF Server!SyncPlaybook
<1>16. CASE Server!SetPathway
  <2>1. RulesShaped'
    BY <1>16, <1>6 DEF Server!SetPathway, RulesShaped
  <2> QED
    BY <1>16, <2>1, <1>5 DEF Server!SetPathway, Server!Goto, RequestType
<1>17. CASE Server!SyncRuleTag
  <2>1. CASE Server!NextRow(row + 1)
    BY <1>17, <2>1, <1>3, <1>7 DEF Server!SyncRuleTag
  <2>2. CASE \E p \in {"ruleTags", "autoack", "unack"} : Server!Goto(p)
    BY <1>17, <2>2, <1>5, <1>6 DEF Server!SyncRuleTag, RulesShaped, Server!Goto, RequestType
  <2> QED
    BY <1>17, <2>1, <2>2 DEF Server!SyncRuleTag
<1>18. CASE Server!ReadAcks
  BY <1>18, <1>5, <1>6 DEF Server!ReadAcks, RulesShaped, Server!ruleVars, RequestType
<1>19. CASE Server!WriteAcks
  <2>1. CASE Server!Fail
    BY <1>19, <2>1, <1>2, <1>6 DEF Server!WriteAcks, Bounded, RulesShaped, Server!ruleVars
  <2>2. CASE ~ Server!Fail
    BY <1>19, <2>2, <1>5, <1>6 DEF Server!WriteAcks, RulesShaped, Server!ruleVars, RequestType
  <2> QED
    BY <2>1, <2>2
<1>20. CASE Server!RemoveAcks
  BY <1>20, <1>5, <1>6 DEF Server!RemoveAcks, RulesShaped, Server!ruleVars, RequestType, Server!Goto
<1>21. CASE Server!DeleteExtra
  <2>1. CASE UNCHANGED Server!requestVars /\ \E r \in Server!ExtraRules : Server!DeleteRule(r)
    <3>1. RulesShaped'
      BY <2>1, <1>6 DEF Server!DeleteRule, RulesShaped, Server!Without, Server!Restrict
    <3>2. allowance' = allowance /\ pc = "extra"
      BY <1>21 DEF Server!DeleteExtra
    <3> QED
      BY <2>1, <3>1, <3>2 DEF RequestType, RulesShaped, Server!requestVars
  <2>2. CASE pc' = "notify" /\ UNCHANGED <<job, row, rules>>
    BY <1>21, <2>2 DEF Server!DeleteExtra, RequestType
  <2> QED
    BY <1>21, <2>1, <2>2 DEF Server!DeleteExtra
<1>22. CASE Server!Notify
  <2>1. CASE Server!Fail
    BY <1>22, <2>1, <1>2, <1>6 DEF Server!Notify, Bounded, RulesShaped, Server!ruleVars
  <2>2. CASE UNCHANGED <<pc, job, row>>
    BY <1>22, <2>2 DEF Server!Notify, RequestType, Server!ruleVars
  <2> QED
    BY <1>22, <2>1, <2>2 DEF Server!Notify
<1>23. CASE Server!Kill
  BY <1>23, <1>2, <1>6 DEF Server!Kill, RulesShaped, Server!ruleVars
<1>24. CASE Server!Users
  <2>1. Server!Request /\ UNCHANGED <<rules, pc, job, row>>
    BY <1>24 DEF Server!Users, Server!Ack, Server!Unack, Server!Upload, Server!ruleVars,
         Server!requestVars
  <2> QED
    BY <2>1, BudgetKept DEF Bounded, RequestType
<1>25. CASE UNCHANGED Server!vars
  BY <1>25, <1>0 DEF Server!vars, Server!ruleVars
<1> QED
  BY <1>1, <1>9, <1>10, <1>11, <1>12, <1>13, <1>14, <1>15, <1>16, <1>17, <1>18, <1>19, <1>20,
       <1>21, <1>22, <1>23,
     <1>24, <1>25 DEF Server!Next, Server!Import

\* At a row the loop is at one of the content's; rows have numbers.
LEMMA RowNumbers ==
  ASSUME Server!WellFormed, RequestType, pc # "idle"
  PROVE  /\ \A n \in DOMAIN job.rows : n \in Int
         /\ row \in Nat /\ At \in Int /\ row - 1 <= At /\ At <= row
         /\ pc \in RowPoints => row \in DOMAIN job.rows /\ At = row /\ Tells(row)
BY RowsNumbered DEF RequestType, At, Tells, Server!Row, Server!Points

\* A step at one place of the loop keeps what the tables tell of rows passed.
LEMMA PassedKept ==
  ASSUME Server!WellFormed, RequestType, RequestType', Passed,
         pc \in {"find"} \cup RowPoints \cup AfterRows, pc' # "idle", At <= At',
           UNCHANGED <<job, row>>,
         \A n \in DOMAIN job.rows : n < row /\ Tells(n) /\ RuleAt(n) \in DOMAIN rules =>
           /\ RuleAt(n) \in DOMAIN rules'
           /\ LastTold(n, At') /\ Described(n) => Described(n)'
           /\ Resolves(n) /\ LastResolved(n, At') /\ Resolved(n) => Resolved(n)'
  PROVE  Passed'
<1>1. At \in Int /\ At' \in Int /\ \A n \in DOMAIN job.rows : n \in Int
  BY RowNumbers DEF RequestType, At, RowPoints, AfterRows
<1>2. SUFFICES ASSUME NEW n \in DOMAIN job.rows, n < row, Tells(n)
               PROVE  /\ RuleAt(n) \in DOMAIN rules'
                      /\ LastTold(n, At') => Described(n)'
                      /\ Resolves(n) /\ LastResolved(n, At') => Resolved(n)'
  BY DEF Passed, Tells, RuleAt, LastTold, LastResolved, Resolves, KeyAt, Server!KeyOf
<1>3. /\ RuleAt(n) \in DOMAIN rules
      /\ LastTold(n, At) => Described(n)
      /\ Resolves(n) /\ LastResolved(n, At) => Resolved(n)
  BY <1>2 DEF Passed
<1>4. LastTold(n, At') => LastTold(n, At)
  BY <1>1 DEF LastTold
<1>5. LastResolved(n, At') => LastResolved(n, At)
  BY <1>1 DEF LastResolved
<1> QED
  BY <1>2, <1>3, <1>4, <1>5

\* The loop goes on to the next row when the one at hand is in the tables.
LEMMA PassedNext ==
  ASSUME Server!WellFormed, RequestType, Passed, pc \in {"find"} \cup RowPoints,
           Server!NextRow(row + 1),
         UNCHANGED <<rules, ruleTags, resolutions, playbooks>>,
         Tells(row) => /\ pc \in RowPoints /\ RuleAt(row) \in DOMAIN rules /\ Described(row)
                       /\ Resolves(row) => Resolved(row)
  PROVE  Passed'
<1>1. row \in Nat /\ \A n \in DOMAIN job.rows : n \in Int
  BY RowNumbers DEF RowPoints
<1>2. pc' \in {"find", "extra"} /\ row' = row + 1 /\ job' = job /\ At' = row
  BY <1>1 DEF Server!NextRow, At, RowPoints
<1>3. SUFFICES ASSUME NEW n \in DOMAIN job.rows, n < row + 1, Tells(n)
               PROVE  /\ RuleAt(n) \in DOMAIN rules
                      /\ LastTold(n, row) => Described(n)
                      /\ Resolves(n) /\ LastResolved(n, row) => Resolved(n)
  <2>1. \A n \in DOMAIN job.rows : Described(n)' = Described(n) /\ Resolved(n)' = Resolved(n)
    BY <1>2 DEF Described, Resolved, RuleAt, KeyAt, Server!TagsOf, Server!BookTypes,
         Server!BooksToSave
  <2> QED
    BY <1>2, <2>1 DEF Passed, Tells, RuleAt, LastTold, LastResolved, Resolves, KeyAt
<1>4. CASE n = row
  BY <1>3, <1>4
<1>5. CASE n < row
  <2>1. At <= row /\ At \in Int
    BY RowNumbers DEF RowPoints
  <2>2. LastTold(n, row) => LastTold(n, At)
    BY <1>1, <2>1 DEF LastTold
  <2>3. LastResolved(n, row) => LastResolved(n, At)
    BY <1>1, <2>1 DEF LastResolved
  <2> QED
    BY <1>3, <1>5, <2>2, <2>3 DEF Passed, RowPoints
<1> QED
  BY <1>1, <1>3, <1>4, <1>5

\* Tables that stay tell what they told.
LEMMA TellsSame ==
  ASSUME UNCHANGED <<rules, ruleTags, resolutions, playbooks, job>>, NEW n
  PROVE  /\ Described(n)' = Described(n) /\ Resolved(n)' = Resolved(n)
         /\ RuleAt(n)' = RuleAt(n) /\ KeyAt(n)' = KeyAt(n)
BY DEF Described, Resolved, RuleAt, KeyAt, Server!TagsOf, Server!BookTypes, Server!BooksToSave

Held == Passed /\ Current /\ Emptied

\* Before the rows and outside a request nothing is claimed.
LEMMA EarlyHolds ==
  ASSUME pc' \in {"idle", "risks", "impacts", "tags"}
  PROVE  Held'
BY DEF Held, Passed, Current, Emptied, RowPoints, AfterRows

\* The first row.
LEMMA FirstRowHolds ==
  ASSUME Server!WellFormed, RequestType, RequestType', Server!NextRow(1), pc = "tags"
  PROVE  Held'
<1>1. pc' \in {"find", "extra"} /\ row' = 1 /\ job' = job
  BY DEF Server!NextRow
<1>2. \A n \in DOMAIN job.rows : ~ (n < 1)
  BY RowsNumbered DEF RequestType
<1> QED
  BY <1>1, <1>2 DEF Held, Passed, Current, Emptied, RowPoints, AfterRows

LEMMA FindHolds ==
  ASSUME Server!WellFormed, RequestType, RequestType', Held, Server!Find
  PROVE  Held'
<1> USE DEF RowPoints, AfterRows
<1>1. pc = "find" /\ UNCHANGED <<rules, ruleTags, resolutions, playbooks>>
  BY DEF Server!Find, Server!ruleVars
<1>2. CASE ~ Server!Row.ruleset
  <2>1. Server!NextRow(row + 1) /\ ~ Tells(row)
    BY <1>2 DEF Server!Find, Tells, Server!Row
  <2>2. Passed'
    BY <1>1, <2>1, PassedNext DEF Held
  <2> QED
    BY <2>1, <2>2 DEF Held, Current, Emptied, Server!NextRow
<1>3. CASE Server!Fail
  BY <1>3, EarlyHolds DEF Server!Fail
<1>4. CASE Server!Goto("save")
  <2>1. At <= At' /\ UNCHANGED <<job, row>> /\ pc' = "save"
    BY <1>1, <1>4, RowNumbers DEF Server!Goto, At
  <2>2. Passed'
    BY <1>1, <2>1, PassedKept, TellsSame DEF Held
  <2> QED
    BY <2>1, <2>2 DEF Held, Current, Emptied
<1> QED
  BY <1>2, <1>3, <1>4 DEF Server!Find

\* A step within the row at hand, which writes at its rule or key only.
LEMMA RowKept ==
  ASSUME Server!WellFormed, RequestType, RequestType', Passed, pc \in RowPoints, pc' \in RowPoints,
           UNCHANGED <<job, row>>,
         \A r \in DOMAIN rules : r \in DOMAIN rules'
           /\ (r # RuleAt(row) => rules'[r] = rules[r] /\ Server!TagsOf(r)' = Server!TagsOf(r)),
         \/ UNCHANGED <<resolutions, playbooks>>
         \/ Resolves(row) /\ \A n \in DOMAIN job.rows : KeyAt(n) # KeyAt(row) /\ Resolved(n) =>
              Resolved(n)'
  PROVE  Passed'
<1>1. row \in DOMAIN job.rows /\ row \in Int /\ At = row /\ At' = row /\ Tells(row)
        /\ \A n \in DOMAIN job.rows : n \in Int
  <2>1. At' = row
    BY DEF At
  <2> QED
    BY <2>1, RowNumbers DEF RowPoints
<1>2. ASSUME NEW n \in DOMAIN job.rows, n < row, Tells(n), RuleAt(n) \in DOMAIN rules
      PROVE  /\ RuleAt(n) \in DOMAIN rules'
             /\ LastTold(n, At') /\ Described(n) => Described(n)'
             /\ Resolves(n) /\ LastResolved(n, At') /\ Resolved(n) => Resolved(n)'
  <2>1. LastTold(n, At') => RuleAt(n) # RuleAt(row)
    BY <1>1, <1>2 DEF LastTold
  <2>2. LastTold(n, At') /\ Described(n) => Described(n)'
    <3>1. CASE RuleAt(n) # RuleAt(row)
      <4>1. rules'[RuleAt(n)] = rules[RuleAt(n)]
              /\ Server!TagsOf(RuleAt(n))' = Server!TagsOf(RuleAt(n))
        <5>1. RuleAt(n)' = RuleAt(n)
          BY DEF RuleAt
        <5> QED
          BY <1>2, <3>1, <5>1 DEF Server!TagsOf
      <4> QED
        BY <4>1 DEF Described, RuleAt
    <3> QED
      BY <2>1, <3>1
  <2>3. Resolves(n) /\ LastResolved(n, At') /\ Resolved(n) => Resolved(n)'
    <3>1. CASE UNCHANGED <<resolutions, playbooks>>
      BY <3>1 DEF Resolved, KeyAt, Server!BookTypes, Server!BooksToSave
    <3>2. CASE Resolves(row) /\ \A m \in DOMAIN job.rows : KeyAt(m) # KeyAt(row) /\ Resolved(m) =>
                 Resolved(m)'
      BY <1>1, <1>2, <3>2 DEF LastResolved
    <3> QED
      BY <3>1, <3>2
  <2> QED
    BY <1>2, <2>2, <2>3
<1>3. At <= At'
  BY <1>1
<1> QED
  BY <1>2, <1>3, PassedKept DEF RowPoints, Server!Points

LEMMA SaveRuleHolds ==
  ASSUME Server!WellFormed, RequestType, RequestType', Held, Server!SaveRule
  PROVE  Held'
<1> USE DEF RowPoints, AfterRows
<1>1. /\ pc = "save" /\ pc' = (IF Server!Row.risk = "null" THEN "pathway" ELSE "resolution")
      /\ UNCHANGED <<job, row, ruleTags, resolutions, playbooks>>
      /\ rules' = Server!Put(rules, Server!Row.rule, Server!RuleFields(Server!Row))
  BY DEF Server!SaveRule, Server!Goto
<1>2. Server!Row = job.rows[row] /\ Server!Row.rule = RuleAt(row)
  BY DEF Server!Row, RuleAt
<1>3. /\ DOMAIN rules' = DOMAIN rules \cup {Server!Row.rule}
      /\ \A r \in DOMAIN rules : r # Server!Row.rule => rules'[r] = rules[r]
      /\ rules'[Server!Row.rule].active = Server!Active(Server!Row)
  BY <1>1 DEF Server!Put, Server!RuleFields
<1>4. Passed'
  BY <1>1, <1>2, <1>3, RowKept DEF Held, Server!TagsOf
<1>5. Server!Row' = Server!Row /\ Server!Active(Server!Row)' = Server!Active(Server!Row)
  BY <1>1 DEF Server!Row, Server!Active
<1> QED
  BY <1>1, <1>3, <1>4, <1>5 DEF Held, Current, Emptied

LEMMA SaveResolutionHolds ==
  ASSUME Server!WellFormed, RequestType, RequestType', Held, Server!SaveResolution
  PROVE  Held'
<1> USE DEF RowPoints, AfterRows
<1>0. pc = "resolution" /\ UNCHANGED <<rules, ruleTags, playbooks>>
  BY DEF Server!SaveResolution
<1>1. CASE Server!Fail
  BY <1>1, EarlyHolds DEF Server!Fail
<1>2. CASE resolutions' = Server!Put(resolutions, Server!KeyOf(Server!Row), Server!Row.risk)
             /\ Server!Goto("playbooks")
  <2>1. pc' = "playbooks" /\ UNCHANGED <<job, row>>
    BY <1>2 DEF Server!Goto
  <2>2. /\ DOMAIN resolutions' = DOMAIN resolutions \cup {KeyAt(row)}
             /\ resolutions'[KeyAt(row)] = Server!Row.risk
        /\ \A k \in DOMAIN resolutions : k # KeyAt(row) => resolutions'[k] = resolutions[k]
    BY <1>2 DEF Server!Put, KeyAt, Server!Row
  <2>3. \A n : KeyAt(n)' = KeyAt(n)
    BY <2>1 DEF KeyAt
  <2>4. Resolves(row)
    BY <1>0 DEF RequestType, Resolves, Tells, Server!Row
  <2>5. \A n \in DOMAIN job.rows : KeyAt(n) # KeyAt(row) /\ Resolved(n) => Resolved(n)'
    BY <1>0, <2>1, <2>2, <2>3 DEF Resolved, Server!BookTypes, Server!BooksToSave
  <2>6. Passed'
    BY <1>0, <2>1, <2>4, <2>5, RowKept DEF Held, Server!TagsOf
  <2>7. Server!Row' = Server!Row /\ Server!Active(Server!Row)' = Server!Active(Server!Row)
    BY <2>1 DEF Server!Row, Server!Active
  <2> QED
    BY <1>0, <2>1, <2>2, <2>3, <2>6, <2>7 DEF Held, Current, Emptied
<1> QED
  BY <1>1, <1>2 DEF Server!SaveResolution

\* Playbooks are stored by rule, system type and type.
Keyed == \A x \in DOMAIN playbooks : x = <<x[1], x[2], x[3]>>

LEMMA KeyedStep ==
  ASSUME Keyed, [Server!Next]_(Server!vars)
  PROVE  Keyed'
<1>1. DOMAIN playbooks' \subseteq DOMAIN playbooks \cup
        {<<Server!Row.rule, Server!Row.sys, ty>> : ty \in DOMAIN Server!Row.playbooks}
  <2>1. CASE Server!SyncRisk
    BY <2>1 DEF Server!SyncRisk, Server!Without, Server!Restrict
  <2>2. CASE Server!SyncPlaybook
    <3>1. \/ playbooks' = playbooks
          \/ \E ty \in Server!BooksToSave(Server!Row) :
               playbooks' =
                 Server!Put(playbooks, <<Server!Row.rule, Server!Row.sys, ty>>,
                   Server!Row.playbooks[ty])
          \/ \E ty : playbooks' = Server!Without(playbooks, {<<Server!Row.rule, Server!Row.sys, ty>>})
      BY <2>2, Zenon DEF Server!SyncPlaybook
    <3>2. Server!BooksToSave(Server!Row) \subseteq DOMAIN Server!Row.playbooks
      BY DEF Server!BooksToSave
    <3> QED
      BY <3>1, <3>2 DEF Server!Put, Server!Without, Server!Restrict
  <2>3. CASE Server!DeleteExtra
    BY <2>3, ZenonT(60) DEF Server!DeleteExtra, Server!DeleteRule, Server!Without, Server!Restrict
  <2>4. CASE playbooks' = playbooks
    BY <2>4
  <2> QED
    BY <2>1, <2>2, <2>3, <2>4 DEF Server!Next, Server!Import, Server!Users, Server!vars,
         Server!ruleVars,
       Server!Post, Server!Kill, Server!SyncImpact, Server!SyncTag, Server!Find,
       Server!SaveRule, Server!SaveResolution, Server!SetPathway, Server!SyncRuleTag, Server!ReadAcks,
       Server!WriteAcks, Server!RemoveAcks, Server!Notify, Server!Ack, Server!Unack, Server!Upload
<1> QED
  BY <1>1 DEF Keyed

\* A playbook is saved or removed for the key of the row at hand.
LEMMA SyncPlaybookHolds ==
  ASSUME Server!WellFormed, RequestType, RequestType', Keyed, Held, Server!SyncPlaybook
  PROVE  Held'
<1> USE DEF RowPoints, AfterRows
<1>0. pc = "playbooks" /\ UNCHANGED <<rules, ruleTags, resolutions>> /\ Resolves(row)
  BY DEF Server!SyncPlaybook, RequestType, Resolves, Tells, Server!Row
<1>1. CASE Server!Goto("pathway") /\ UNCHANGED playbooks
             /\ Server!BooksToSave(Server!Row) \cup Server!BooksToRemove(Server!Row) = {}
  <2>1. pc' = "pathway" /\ UNCHANGED <<job, row>>
    BY <1>1 DEF Server!Goto
  <2>2. Passed'
    BY <1>0, <1>1, <2>1, RowKept DEF Held, Server!TagsOf
  <2>3. Resolved(row)
    BY <1>0, <1>1 DEF Held, Current, Resolved, Server!BooksToRemove, Server!Row
  <2>4. Server!Row' = Server!Row /\ Server!Active(Server!Row)' = Server!Active(Server!Row)
          /\ Resolved(row)' = Resolved(row)
    BY <1>0, <1>1, <2>1 DEF Server!Row, Server!Active, Resolved, KeyAt, Server!BookTypes,
         Server!BooksToSave
  <2> QED
    BY <1>0, <2>1, <2>2, <2>3, <2>4 DEF Held, Current, Emptied
<1>2. CASE UNCHANGED Server!requestVars /\ \E ty : LET k == <<Server!Row.rule, Server!Row.sys, ty>> IN
             \/ playbooks' = Server!Put(playbooks, k, Server!Row.playbooks[ty])
             \/ playbooks' = Server!Without(playbooks, {k})
  <2>1. pc' = "playbooks" /\ UNCHANGED <<job, row>>
    BY <1>0, <1>2 DEF Server!requestVars
  <2>2. PICK ty : LET k == <<Server!Row.rule, Server!Row.sys, ty>> IN
          \/ playbooks' = Server!Put(playbooks, k, Server!Row.playbooks[ty])
          \/ playbooks' = Server!Without(playbooks, {k})
    BY <1>2
  <2>0. Keyed
    OBVIOUS
  <2> DEFINE k == <<Server!Row.rule, Server!Row.sys, ty>>
  <2>3. KeyAt(row) = <<k[1], k[2]>>
    BY DEF KeyAt, Server!KeyOf, Server!Row
  <2>4. \A x : x # k => /\ x \in DOMAIN playbooks' <=> x \in DOMAIN playbooks
                        /\ x \in DOMAIN playbooks => playbooks'[x] = playbooks[x]
    BY <2>2 DEF Server!Put, Server!Without, Server!Restrict
  <2>5. \A n : KeyAt(n)' = KeyAt(n) /\ job.rows[n]' = job.rows[n]
    BY <2>1 DEF KeyAt
  <2>6. ASSUME NEW n \in DOMAIN job.rows, KeyAt(n) # KeyAt(row), Resolved(n) PROVE Resolved(n)'
    <3> DEFINE c == job.rows[n]
    <3>1. KeyAt(n) = <<c.rule, c.sys>>
      BY DEF KeyAt, Server!KeyOf
    <3>2. \A x : <<x[1], x[2]>> = KeyAt(n) => x # k
      BY <2>3, <2>6
    <3>3. Server!BookTypes(c)' = Server!BookTypes(c)
      BY <2>4, <2>5, <3>2 DEF Server!BookTypes, KeyAt
    <3>4. \A t : <<c.rule, c.sys, t>> # k
      BY <2>3, <2>6, <3>1
    <3>5. \A t \in Server!BookTypes(c) : <<c.rule, c.sys, t>> \in DOMAIN playbooks
      BY <2>0, <3>1 DEF Server!BookTypes, Keyed, KeyAt
    <3>6. Server!BooksToSave(c)' \subseteq Server!BooksToSave(c)
      BY <2>1, <2>4, <3>3, <3>4, <3>5 DEF Server!BooksToSave
    <3> QED
      BY <1>0, <2>1, <2>5, <2>6, <3>3, <3>6 DEF Resolved
  <2>7. Passed'
    BY <1>0, <2>1, <2>6, RowKept DEF Held, Server!TagsOf
  <2>8. Server!Row' = Server!Row /\ Server!Active(Server!Row)' = Server!Active(Server!Row)
    BY <2>1 DEF Server!Row, Server!Active
  <2> QED
    BY <1>0, <2>1, <2>5, <2>7, <2>8 DEF Held, Current, Emptied
<1> QED
  BY <1>1, <1>2 DEF Server!SyncPlaybook

LEMMA SetPathwayHolds ==
  ASSUME Server!WellFormed, RequestType, RequestType', Held, Server!SetPathway
  PROVE  Held'
<1> USE DEF RowPoints, AfterRows
<1>1. /\ pc = "pathway" /\ pc' = "ruleTags"
           /\ UNCHANGED <<job, row, ruleTags, resolutions, playbooks>>
      /\ rules' = [rules EXCEPT ![Server!Row.rule].pathway = Server!PathwayOf(Server!Row)]
  BY DEF Server!SetPathway, Server!Goto
<1>2. Server!Row.rule \in DOMAIN rules
        /\ {"active", "pathway", "impact"} \subseteq DOMAIN rules[Server!Row.rule]
  BY <1>1 DEF RequestType, Held, Current
<1>3. /\ DOMAIN rules' = DOMAIN rules /\ \A r \in DOMAIN rules : r # Server!Row.rule =>
           rules'[r] = rules[r]
      /\ rules'[Server!Row.rule].pathway = Server!PathwayOf(Server!Row)
           /\ rules'[Server!Row.rule].active = rules[Server!Row.rule].active
  BY <1>1, <1>2
<1>4. Server!Row.rule = RuleAt(row)
  BY DEF Server!Row, RuleAt
<1>5. Passed'
  BY <1>1, <1>3, <1>4, RowKept DEF Held, Server!TagsOf
<1>6. /\ Server!Row' = Server!Row /\ Server!Active(Server!Row)' = Server!Active(Server!Row)
           /\ Server!PathwayOf(Server!Row)' = Server!PathwayOf(Server!Row)
                /\ Resolved(row)' = Resolved(row)
  BY <1>1 DEF Server!Row, Server!Active, Server!PathwayOf, Resolved, KeyAt, Server!BookTypes,
       Server!BooksToSave
<1> QED
  BY <1>1, <1>3, <1>5, <1>6 DEF Held, Current, Emptied

\* What is known of the row at hand once its pathway is set lasts to its end.
LEMMA TagsHold ==
  ASSUME Server!WellFormed, RequestType, RequestType', Held,
           pc \in {"ruleTags", "autoack", "addAcks", "unack"},
         pc' \in {"ruleTags", "autoack", "addAcks", "unack"},
           UNCHANGED <<job, row, rules, resolutions, playbooks>>,
         \A r : r # RuleAt(row) => Server!TagsOf(r)' = Server!TagsOf(r)
  PROVE  Held'
<1> USE DEF RowPoints, AfterRows
<1>1. Passed'
  BY RowKept DEF Held
<1>2. /\ Server!Row' = Server!Row /\ Server!Active(Server!Row)' = Server!Active(Server!Row)
           /\ Server!PathwayOf(Server!Row)' = Server!PathwayOf(Server!Row)
                /\ Resolved(row)' = Resolved(row)
  BY DEF Server!Row, Server!Active, Server!PathwayOf, Resolved, KeyAt, Server!BookTypes,
       Server!BooksToSave
<1> QED
  BY <1>1, <1>2 DEF Held, Current, Emptied

LEMMA SyncRuleTagHolds ==
  ASSUME Server!WellFormed, RequestType, RequestType', Held, Server!SyncRuleTag
  PROVE  Held'
<1>1. pc = "ruleTags" /\ UNCHANGED <<rules, resolutions, playbooks>>
        /\ Server!Row.rule = RuleAt(row) /\ Server!Row = job.rows[row]
  BY DEF Server!SyncRuleTag, Server!Row, RuleAt
<1>2. CASE Server!NextRow(row + 1) /\ UNCHANGED ruleTags
             /\ (Server!Row.tags \ Server!TagsOf(Server!Row.rule))
               \cup (Server!TagsOf(Server!Row.rule) \ Server!Row.tags) = {}
  <2>1. Server!TagsOf(Server!Row.rule) = Server!Row.tags
    BY <1>2
  <2>2. RuleAt(row) \in DOMAIN rules /\ Described(row) /\ (Resolves(row) => Resolved(row))
    BY <1>1, <2>1 DEF Held, Current, RowPoints, Described, Resolves
  <2>3. Passed'
    BY <1>1, <1>2, <2>2, PassedNext DEF Held, RowPoints
  <2>4. pc' \in {"find", "extra"}
    BY <1>2 DEF Server!NextRow
  <2> QED
    BY <2>3, <2>4 DEF Held, Current, Emptied, RowPoints
<1>3. CASE \E t : /\ \/ ruleTags' = ruleTags \cup {<<Server!Row.rule, t>>}
                     \/ ruleTags' = ruleTags \ {<<Server!Row.rule, t>>}
                  /\ \E p \in {"ruleTags", "autoack", "unack"} : Server!Goto(p)
  <2>1. UNCHANGED <<job, row>> /\ pc' \in {"ruleTags", "autoack", "unack"}
    BY <1>3 DEF Server!Goto
  <2>2. \A r : r # RuleAt(row) => Server!TagsOf(r)' = Server!TagsOf(r)
    BY <1>1, <1>3 DEF Server!TagsOf
  <2> QED
    BY <1>1, <2>1, <2>2, TagsHold
<1> QED
  BY <1>2, <1>3 DEF Server!SyncRuleTag

\* Rules that the content lacks go with what hangs on them.
LEMMA DeleteRuleHolds ==
  ASSUME Server!WellFormed, RequestType, RequestType', Keyed, Held, pc = "extra",
           UNCHANGED Server!requestVars,
         NEW r \in Server!ExtraRules, Server!DeleteRule(r)
  PROVE  Held'
<1> USE DEF AfterRows
<1>1. UNCHANGED <<pc, job, row>>
  BY DEF Server!requestVars
<1>2. \A n \in DOMAIN job.rows : RuleAt(n) # r
  BY DEF Server!ExtraRules, Server!RulesOf, RuleAt, Server!Range
<1>3. /\ \A x \in DOMAIN rules : x # r => x \in DOMAIN rules' /\ rules'[x] = rules[x]
      /\ \A x : x # r => Server!TagsOf(x)' = Server!TagsOf(x)
  BY DEF Server!DeleteRule, Server!Without, Server!Restrict, Server!TagsOf
<1>4. ASSUME NEW n \in DOMAIN job.rows, RuleAt(n) \in DOMAIN rules
      PROVE  RuleAt(n) \in DOMAIN rules' /\ (Described(n) => Described(n)')
               /\ (Resolved(n) => Resolved(n)')
  <2> DEFINE c == job.rows[n]
  <2>1. RuleAt(n)' = RuleAt(n) /\ KeyAt(n)' = KeyAt(n) /\ RuleAt(n) # r
          /\ KeyAt(n) = <<RuleAt(n), c.sys>> /\ c.rule = RuleAt(n)
    BY <1>1, <1>2 DEF RuleAt, KeyAt, Server!KeyOf
  <2>2. Described(n) => Described(n)'
    BY <1>1, <1>3, <1>4, <2>1 DEF Described
  <2>3. \A x : x[1] # r => /\ x \in DOMAIN playbooks' <=> x \in DOMAIN playbooks
                           /\ x \in DOMAIN playbooks' => playbooks'[x] = playbooks[x]
    BY DEF Server!DeleteRule, Server!Without, Server!Restrict
  <2>4. \A x : <<x[1], x[2]>> = KeyAt(n) => x[1] # r
    BY <2>1
  <2>5. Server!BookTypes(c)' = Server!BookTypes(c)
    BY <1>1, <2>1, <2>3, <2>4 DEF Server!BookTypes, KeyAt
  <2>6. Server!BooksToSave(c)' \subseteq Server!BooksToSave(c)
    <3>1. \A t : <<c.rule, c.sys, t>>[1] # r
      BY <2>1
    <3>2. \A t \in Server!BookTypes(c) : <<c.rule, c.sys, t>> \in DOMAIN playbooks
      BY <2>1 DEF Server!BookTypes, Keyed, KeyAt
    <3>3. \A t \in Server!BookTypes(c) :
            playbooks'[<<c.rule, c.sys, t>>] = playbooks[<<c.rule, c.sys, t>>]
      BY <2>3, <3>1, <3>2
    <3> QED
      BY <1>1, <2>5, <3>3 DEF Server!BooksToSave
  <2>7. KeyAt(n) \in DOMAIN resolutions => KeyAt(n) \in DOMAIN resolutions'
          /\ resolutions'[KeyAt(n)] = resolutions[KeyAt(n)]
    BY <2>1 DEF Server!DeleteRule, Server!Without, Server!Restrict
  <2>8. Resolved(n) => Resolved(n)'
    BY <1>1, <2>1, <2>5, <2>6, <2>7 DEF Resolved
  <2> QED
    BY <1>3, <1>4, <2>1, <2>2, <2>8
<1>5. At <= At'
  BY <1>1, RowNumbers DEF At
<1>6. Passed'
  BY <1>1, <1>4, <1>5, PassedKept DEF Held
<1> QED
  BY <1>1, <1>6 DEF Held, Current, Emptied, RowPoints

LEMMA HeldStep ==
  ASSUME Server!WellFormed, RequestType, RequestType', Keyed, Held, [Server!Next]_(Server!vars)
  PROVE  Held'
<1>1. ASSUME UNCHANGED <<rules, ruleTags, resolutions, playbooks, Server!requestVars>> PROVE Held'
  <2>1. UNCHANGED <<pc, job, row>>
    BY <1>1 DEF Server!requestVars
  <2>2. At' = At
    BY <2>1 DEF At
  <2>3. \A n : /\ Tells(n)' = Tells(n) /\ Resolves(n)' = Resolves(n)
          /\ Described(n)' = Described(n) /\ Resolved(n)' = Resolved(n)
               /\ RuleAt(n)' = RuleAt(n) /\ KeyAt(n)' = KeyAt(n)
    BY <1>1, <2>1, TellsSame DEF Tells, Resolves
  <2>4. \A n : LastTold(n, At)' = LastTold(n, At) /\ LastResolved(n, At)' = LastResolved(n, At)
    BY <2>1, <2>2, <2>3 DEF LastTold, LastResolved
  <2>5. Passed'
    BY <1>1, <2>1, <2>3, <2>4 DEF Held, Passed
  <2>6. Server!Row' = Server!Row /\ Server!Active(Server!Row)' = Server!Active(Server!Row)
          /\ Server!PathwayOf(Server!Row)' = Server!PathwayOf(Server!Row)
    BY <2>1 DEF Server!Row, Server!Active, Server!PathwayOf
  <2> QED
    BY <1>1, <2>1, <2>3, <2>5, <2>6 DEF Held, Current, Emptied
<1>2. ASSUME NEW w \in Workers, Server!Post(w) PROVE Held'
  <2>1. pc' \in {"risks", "idle"}
    BY <1>2 DEF Server!Post
  <2> QED
    BY <2>1, EarlyHolds
<1>3. CASE Server!Fail
  BY <1>3, EarlyHolds DEF Server!Fail
<1>4. CASE Server!SyncRisk
  <2>1. pc' \in {"risks", "impacts"}
    BY <1>4 DEF Server!SyncRisk, Server!Goto, Server!requestVars
  <2> QED
    BY <2>1, EarlyHolds
<1>5. CASE Server!SyncImpact
  <2>1. pc' \in {"impacts", "tags"}
    BY <1>5 DEF Server!SyncImpact, Server!Goto, Server!requestVars
  <2> QED
    BY <2>1, EarlyHolds
<1>6. CASE Server!SyncTag
  <2>1. pc = "tags" /\ (Server!NextRow(1) \/ pc' = "tags")
    BY <1>6 DEF Server!SyncTag, Server!requestVars
  <2> QED
    BY <2>1, EarlyHolds, FirstRowHolds
<1>7. CASE Server!ReadAcks \/ Server!WriteAcks \/ Server!RemoveAcks
  <2>1. CASE Server!Fail
    BY <1>3, <2>1
  <2>2. CASE ~ Server!Fail
    <3>1. /\ pc \in {"autoack", "addAcks", "unack"} /\ pc' \in {"addAcks", "ruleTags"}
          /\ UNCHANGED <<job, row, rules, ruleTags, resolutions, playbooks>>
      BY <1>7, <2>2 DEF Server!ReadAcks, Server!WriteAcks, Server!RemoveAcks, Server!Goto,
           Server!ruleVars
    <3> QED
      BY <3>1, TagsHold DEF Server!TagsOf
  <2> QED
    BY <2>1, <2>2
<1>8. CASE Server!DeleteExtra
  <2>1. CASE UNCHANGED Server!requestVars
    <3>1. pc = "extra" /\ \E r \in Server!ExtraRules : Server!DeleteRule(r)
      BY <1>8, <2>1 DEF Server!DeleteExtra, Server!requestVars
    <3> QED
      BY <2>1, <3>1, DeleteRuleHolds
  <2>2. CASE pc' = "notify" /\ Server!ExtraRules = {}
               /\ UNCHANGED <<job, row, rules, ruleTags, resolutions, playbooks>>
    <3>1. pc = "extra" /\ At <= At'
      BY <1>8, <2>2, RowNumbers DEF Server!DeleteExtra, At, RowPoints
    <3>2. Passed'
      BY <2>2, <3>1, PassedKept, TellsSame DEF Held, AfterRows
    <3> QED
      BY <2>2, <3>2 DEF Held, Current, Emptied, Server!ExtraRules, Server!RulesOf, RowPoints
  <2> QED
    BY <1>8, <2>1, <2>2 DEF Server!DeleteExtra
<1>9. CASE Server!Notify
  <2>1. CASE UNCHANGED <<pc, worker, job, row>> /\ pc = "notify"
    <3>1. At <= At' /\ UNCHANGED <<rules, ruleTags, resolutions, playbooks>>
      BY <1>9, <2>1, RowNumbers DEF Server!Notify, At, Server!ruleVars
    <3>2. Passed'
      BY <2>1, <3>1, PassedKept, TellsSame DEF Held, AfterRows
    <3> QED
      BY <2>1, <3>1, <3>2 DEF Held, Current, Emptied, Server!RulesOf, RowPoints
  <2> QED
    BY <1>3, <1>9, <2>1 DEF Server!Notify
<1>10. CASE Server!Kill
  BY <1>3, <1>10 DEF Server!Kill
<1>11. CASE Server!Users
  BY <1>1, <1>11 DEF Server!Users, Server!Ack, Server!Unack, Server!Upload, Server!ruleVars
<1>12. CASE UNCHANGED Server!vars
  BY <1>1, <1>12 DEF Server!vars, Server!ruleVars
<1> QED
  BY <1>2, <1>4, <1>5, <1>6, <1>7, <1>8, <1>9, <1>10, <1>11, <1>12, FindHolds, SaveRuleHolds,
       SaveResolutionHolds,
     SyncPlaybookHolds, SetPathwayHolds, SyncRuleTagHolds DEF Server!Next, Server!Import

ServerInv == RequestType /\ Keyed /\ Held

LEMMA ServerHolds == ASSUME Server!WellFormed PROVE Server!Spec => []ServerInv
<1>1. Server!Init => ServerInv
  <2> SUFFICES ASSUME Server!Init PROVE ServerInv
    OBVIOUS
  <2>1. pc = "idle" /\ DOMAIN playbooks = {}
    BY DEF Server!Init, Server!Empty
  <2>2. Held /\ Keyed
    BY <2>1 DEF Held, Passed, Current, Emptied, RowPoints, AfterRows, Keyed
  <2> QED
    BY <2>2, RequestTypeInit DEF ServerInv
<1>2. ServerInv /\ [Server!Next]_(Server!vars) => ServerInv'
  BY RequestTypeStep, KeyedStep, HeldStep DEF ServerInv
<1> QED
  BY <1>1, <1>2, PTL DEF Server!Spec

LEMMA NotifyMirrors ==
  ASSUME Server!WellFormed, ServerInv, pc = "notify"
  PROVE  Server!Mirrored
<1>1. /\ \A n \in DOMAIN job.rows : n < row /\ n \in Int
      /\ At \in Int
  BY RowNumbers DEF ServerInv, RequestType, AfterRows
<1>2. ASSUME NEW n \in DOMAIN job.rows, Tells(n)
      PROVE  /\ RuleAt(n) \in DOMAIN rules
             /\ (\A m \in DOMAIN job.rows : m > n /\ Tells(m) => RuleAt(m) # RuleAt(n)) =>
                  Described(n)
             /\ Resolves(n) /\ (\A m \in DOMAIN job.rows : m > n /\ Resolves(m) =>
                  KeyAt(m) # KeyAt(n)) => Resolved(n)
  <2>1. (\A m \in DOMAIN job.rows : m > n /\ Tells(m) => RuleAt(m) # RuleAt(n)) => LastTold(n, At)
    BY <1>1 DEF LastTold
  <2>2. (\A m \in DOMAIN job.rows : m > n /\ Resolves(m) => KeyAt(m) # KeyAt(n)) =>
          LastResolved(n, At)
    BY <1>1 DEF LastResolved
  <2> QED
    BY <1>1, <1>2, <2>1, <2>2 DEF ServerInv, Held, Passed, AfterRows
<1> QED
  BY <1>2 DEF Server!Mirrored, ServerInv, Held, Emptied, Tells, Resolves, RuleAt, KeyAt, Described,
       Resolved

\* import_all: an answered request has brought its content into the tables.
THEOREM PostsMirrored == ASSUME Server!WellFormed PROVE Server!Spec => Server!PostMirrors
<1>1. ServerInv /\ [Server!Next]_(Server!vars) => [Server!Finishes => Server!Mirrored]_(Server!vars)
  BY NotifyMirrors DEF Server!Finishes
<1> QED
  BY <1>1, ServerHolds, PTL DEF Server!Spec, Server!PostMirrors

\* handle_autoack: no step of the import takes an ack of a user back or over.
THEOREM UsersAcks == ASSUME Server!WellFormed PROVE Server!Spec => Server!UserAcksKept
<1>1. RequestType /\ [Server!Next]_(Server!vars) => [allowance'.requests = allowance.requests =>
       \A k \in DOMAIN acks : acks[k] = "user" /\ k[1] \in DOMAIN rules' =>
          k \in DOMAIN acks' /\ acks'[k] = "user"]_(Server!vars)
  <2> SUFFICES ASSUME RequestType, [Server!Next]_(Server!vars),
                        allowance'.requests = allowance.requests, NEW k \in DOMAIN acks,
                      acks[k] = "user", k[1] \in DOMAIN rules'
               PROVE  k \in DOMAIN acks' /\ acks'[k] = "user"
    OBVIOUS
  <2>1. CASE acks' = acks
    BY <2>1
  <2>2. CASE Server!WriteAcks
    <3> DEFINE new == {Server!Row.rule} \X left
    <3>1. \/ acks' = acks
          \/ /\ new \cap DOMAIN acks = {}
             /\ acks' = [x \in DOMAIN acks \cup new |-> IF x \in new THEN "redhat" ELSE acks[x]]
      BY <2>2, Zenon DEF Server!WriteAcks, Server!AcksRefused
    <3> HIDE DEF new
    <3> QED
      BY <3>1
  <2>3. CASE Server!RemoveAcks
    BY <2>3 DEF Server!RemoveAcks, Server!Without, Server!Restrict
  <2>4. CASE Server!DeleteExtra
    <3>1. CASE acks' = acks
      BY <3>1
    <3>2. CASE \E r \in Server!ExtraRules : Server!DeleteRule(r)
      <4>1. PICK r \in Server!ExtraRules : Server!DeleteRule(r)
        BY <3>2
      <4>2. DOMAIN rules' = DOMAIN rules \ {r}
        BY <4>1 DEF Server!DeleteRule, Server!Without, Server!Restrict
      <4>3. acks' = [x \in DOMAIN acks \ {y \in DOMAIN acks : y[1] = r} |-> acks[x]]
        BY <4>1 DEF Server!DeleteRule, Server!Without, Server!Restrict
      <4> QED
        BY <4>2, <4>3
    <3> QED
      BY <2>4, <3>1, <3>2 DEF Server!DeleteExtra
  <2>5. ~ Server!Request
    <3> DEFINE p == allowance.posts  q == allowance.kills  r == allowance.requests
    <3>1. allowance = [posts |-> p, kills |-> q, requests |-> r] /\ r \in Nat
      BY DEF RequestType
    <3>2. SUFFICES ASSUME Server!Request PROVE FALSE
      OBVIOUS
    <3> HIDE DEF p, q, r
    <3>3. allowance' = [posts |-> p, kills |-> q, requests |-> r - 1]
      BY <3>1, <3>2 DEF Server!Request
    <3>4. allowance'.requests = r - 1 /\ allowance.requests = r
      BY <3>1, <3>3
    <3> QED
      BY <3>1, <3>4
  <2> QED
    BY <2>1, <2>2, <2>3, <2>4, <2>5 DEF Server!Next, Server!Import, Server!Users, Server!vars,
         Server!Post,
       Server!Kill, Server!SyncRisk, Server!SyncImpact, Server!SyncTag, Server!Find,
       Server!SaveRule, Server!SaveResolution, Server!SyncPlaybook, Server!SetPathway,
         Server!SyncRuleTag,
       Server!ReadAcks, Server!Notify, Server!Ack, Server!Unack, Server!Upload
<1>2. ServerInv => RequestType
  BY DEF ServerInv
<1> QED
  BY <1>1, <1>2, ServerHolds, PTL DEF Server!Spec, Server!UserAcksKept
=============================================================================
