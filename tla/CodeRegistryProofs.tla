------------------------- MODULE CodeRegistryProofs --------------------------
(***************************************************************************)
(* Proofs about the code registry: that a label that names a code never    *)
(* ceases to, for any number of overlapping installs, killed or failing at *)
(* any step; and, for one install at a time, that it names one code only.  *)
(***************************************************************************)
EXTENDS CodeRegistry, FiniteSetTheorems, TLAPS

\* An install that has stored a replacement and not yet retired the original.
Replacing(i) == pc[i] \in {"mark", "pick", "relabel", "discard"}

\* The replacements that may still be discarded.
Pending == {new[i] : i \in {j \in Install : Replacing(j)}}

\* What the argument needs of the types: pks are numbers that grow, and code
\* nodes are records.
RegShape ==
    /\ stored \in Nat
    /\ DOMAIN codes \subseteq 1 .. stored
    /\ codes = [n \in DOMAIN codes |-> codes[n]]
    /\ \A n \in DOMAIN codes :
          codes[n] = [label |-> codes[n].label, mode |-> codes[n].mode,
                      replaced |-> codes[n].replaced]
    /\ pc \in [Install -> {"idle", "scan", "migrate", "register", "store", "mark",
                           "pick", "relabel", "discard"} \cup Ended]
    /\ old \in [Install -> 0 .. stored]
    /\ new \in [Install -> 0 .. stored]

\* A replacement holds the label until its install is over, belongs to that
\* install alone, and is superseded by no other.
ReplacementsAreLive ==
    \A i \in Install : Replacing(i) =>
       /\ new[i] \in Live
       /\ \A j \in Install : Replacing(j) /\ new[j] = new[i] => j = i
       /\ \A j \in Install : Replacing(j) \/ pc[j] = "store" => old[j] # new[i]

\* Among the nodes that hold the label is one that no install will discard; and
\* where an install found a code to supersede, there are such nodes.
SettledCode ==
    Live # {} \/ (\E i \in Install : old[i] # 0) => Live \ Pending # {}

\* An install supersedes nothing before it has found what to supersede.
NothingSupersededYet ==
    \A i \in Install : pc[i] \in {"scan", "migrate", "register"} => old[i] = 0

RegInv == RegShape /\ NothingSupersededYet /\ ReplacementsAreLive /\ SettledCode

\* A profile as found has no replacement under way.
LEMMA RegInvInit == RegInit => RegInv
<1> SUFFICES ASSUME RegInit PROVE RegInv
    OBVIOUS
<1>1. \A i \in Install : pc[i] = "idle" /\ ~Replacing(i)
    BY DEF RegInit, Replacing
<1>2. Pending = {}
    BY <1>1 DEF Pending
<1>3. ReplacementsAreLive /\ SettledCode
    BY <1>1, <1>2 DEF RegInit, ReplacementsAreLive, SettledCode
<1>4. /\ stored \in Nat
      /\ DOMAIN codes \subseteq 1 .. stored
      /\ codes = [n \in DOMAIN codes |-> codes[n]]
      /\ \A n \in DOMAIN codes :
            codes[n] = [label |-> codes[n].label, mode |-> codes[n].mode,
                        replaced |-> codes[n].replaced]
    <2>1. CASE codes = [n \in {} |-> 0] /\ stored = 0
        BY <2>1
    <2>2. CASE \E mode \in Mode :
                  /\ codes = [n \in {1} |->
                                 [label |-> Original, mode |-> mode, replaced |-> FALSE]]
                  /\ stored = 1
        <3> PICK mode \in Mode :
               /\ codes = [n \in {1} |->
                              [label |-> Original, mode |-> mode, replaced |-> FALSE]]
               /\ stored = 1
            BY <2>2
        <3>1. DOMAIN codes = {1} /\ codes[1] = [label |-> Original, mode |-> mode, replaced |-> FALSE]
            OBVIOUS
        <3>2. codes = [n \in DOMAIN codes |-> codes[n]]
            OBVIOUS
        <3>3. codes[1] = [label |-> codes[1].label, mode |-> codes[1].mode,
                          replaced |-> codes[1].replaced]
            BY <3>1
        <3> QED
            BY <3>1, <3>2, <3>3
    <2> QED
        BY <2>1, <2>2 DEF RegInit
<1>5. RegShape /\ NothingSupersededYet
    BY <1>4 DEF RegInit, RegShape, NothingSupersededYet, Ended
<1> QED
    BY <1>3, <1>5 DEF RegInv

\* A step that leaves the database alone, takes no install into a replacement
\* and lets none choose a pending code keeps the invariant.
LEMMA QuietStep ==
    ASSUME RegInv, UNCHANGED <<codes, stored>>, RegShape', NothingSupersededYet',
           \A j \in Install : Replacing(j)' =>
              Replacing(j) /\ new'[j] = new[j] /\ old'[j] = old[j],
           \A j \in Install :
              \/ old'[j] = old[j] /\ (pc'[j] = "store" => pc[j] = "store")
              \/ old'[j] = 0
              \/ Live = {old'[j]}
    PROVE  RegInv'
<1>1. Live' = Live
    BY DEF Live, Labelled
<1>2. Pending' \subseteq Pending
    BY DEF Pending
<1>3. SettledCode'
    BY <1>1, <1>2 DEF RegInv, SettledCode
<1>4. \A i \in Install : Replacing(i) => new[i] \in Live /\ new[i] \in Pending
    BY DEF RegInv, ReplacementsAreLive, Pending
<1>5. \A i \in Install : Replacing(i) => new[i] # 0
    BY <1>4 DEF Live, Labelled, RegInv, RegShape
<1>6. \A i, n : i \in Install /\ Replacing(i) /\ Live = {n} => n # new[i]
    BY <1>4 DEF RegInv, SettledCode
<1>7. ReplacementsAreLive'
    <2> SUFFICES ASSUME NEW i \in Install, Replacing(i)'
                 PROVE  /\ new'[i] \in Live'
                        /\ \A j \in Install : Replacing(j)' /\ new'[j] = new'[i] => j = i
                        /\ \A j \in Install :
                              Replacing(j)' \/ pc'[j] = "store" => old'[j] # new'[i]
        BY DEF ReplacementsAreLive
    <2>1. Replacing(i) /\ new'[i] = new[i]
        OBVIOUS
    <2>2. new'[i] \in Live'
        BY <2>1, <1>1, <1>4
    <2>3. \A j \in Install : Replacing(j)' /\ new'[j] = new'[i] => j = i
        BY <2>1 DEF RegInv, ReplacementsAreLive
    <2>4. ASSUME NEW j \in Install, Replacing(j)' PROVE old'[j] # new'[i]
        BY <2>1, <2>4 DEF RegInv, ReplacementsAreLive
    <2>5. ASSUME NEW j \in Install, pc'[j] = "store" PROVE old'[j] # new'[i]
        BY <2>1, <2>5, <1>5, <1>6 DEF RegInv, ReplacementsAreLive
    <2> QED
        BY <2>2, <2>3, <2>4, <2>5
<1> QED
    BY <1>3, <1>7 DEF RegInv

\* The steps before the store, and those that give up, leave the database alone.
LEMMA BeforeStore ==
    ASSUME RegInv, NEW i \in Install,
           Begin(i) \/ Scan(i) \/ Migrate(i) \/ Register(i)
           \/ StoreFails(i) \/ DiscardFails(i) \/ Kill(i)
    PROVE  RegInv'
<1> USE DEF Goto
<1>1. RegShape
    BY DEF RegInv
<1>2. UNCHANGED <<codes, stored>>
    BY DEF Begin, Scan, Migrate, Register, StoreFails, DiscardFails, Kill
<1>3. \A n \in Live : n \in 1 .. stored
    BY <1>1 DEF RegShape, Live, Labelled
<1>4. RegShape'
    BY <1>1, <1>2, <1>3 DEF RegShape, Begin, Scan, Migrate, Register, StoreFails,
       DiscardFails, Kill, Ended
<1>z. NothingSupersededYet
    BY DEF RegInv
<1>y. NothingSupersededYet'
    BY <1>1, <1>z DEF RegShape, NothingSupersededYet, Begin, Scan, Migrate, Register,
       StoreFails, DiscardFails, Kill
<1>5. ASSUME NEW j \in Install, Replacing(j)'
      PROVE  Replacing(j) /\ new'[j] = new[j] /\ old'[j] = old[j]
    BY <1>1, <1>5 DEF Replacing, RegShape, Begin, Scan, Migrate, Register, StoreFails,
       DiscardFails, Kill, Ended
<1>6. ASSUME NEW j \in Install
      PROVE  \/ old'[j] = old[j] /\ (pc'[j] = "store" => pc[j] = "store")
             \/ old'[j] = 0
             \/ Live = {old'[j]}
    <2>1. CASE j # i
        BY <1>1, <1>6, <2>1 DEF RegShape, Begin, Scan, Migrate, Register, StoreFails,
           DiscardFails, Kill
    <2>2. CASE j = i
        BY <1>1, <1>z, <1>6, <2>2 DEF RegShape, NothingSupersededYet, Begin, Scan,
           Migrate, Register, StoreFails, DiscardFails, Kill
    <2> QED
        BY <2>1, <2>2
<1> QED
    BY <1>2, <1>4, <1>y, <1>5, <1>6, QuietStep

\* So do the search for a free label and a failure of retire_code.
LEMMA WhileReplacing ==
    ASSUME RegInv, NEW i \in Install, Pick(i) \/ RetireFails(i)
    PROVE  RegInv'
<1> USE DEF Goto
<1>1. RegShape
    BY DEF RegInv
<1>2. UNCHANGED <<codes, stored, old, new>> /\ Replacing(i)
    BY DEF Pick, RetireFails, Replacing
<1>3. pc' = [pc EXCEPT ![i] = "relabel"] \/ pc' = [pc EXCEPT ![i] = "discard"]
    BY DEF Pick, RetireFails
<1>4. RegShape'
    BY <1>1, <1>2, <1>3 DEF RegShape
<1>5. \A j \in Install : Replacing(j)' => Replacing(j)
    BY <1>1, <1>2, <1>3 DEF Replacing, RegShape
<1>6. \A j \in Install : old'[j] = old[j] /\ (pc'[j] = "store" => pc[j] = "store")
    BY <1>1, <1>2, <1>3 DEF RegShape
<1>7. NothingSupersededYet'
    BY <1>1, <1>2, <1>3 DEF RegInv, RegShape, NothingSupersededYet
<1> QED
    BY <1>2, <1>4, <1>5, <1>6, <1>7, QuietStep

\* _store_code: the label gains a node; if it supersedes none it is settled.
LEMMA StoreStep ==
    ASSUME RegInv, NEW i \in Install, Store(i)
    PROVE  RegInv' /\ Live \subseteq Live'
<1> USE DEF Goto
<1>1. RegShape
    BY DEF RegInv
<1>2. /\ stored' = stored + 1 /\ stored' \notin DOMAIN codes
      /\ DOMAIN codes' = DOMAIN codes \cup {stored'}
      /\ codes'[stored'] = [label |-> Original, mode |-> args[i].mode, replaced |-> FALSE]
      /\ \A n \in DOMAIN codes : codes'[n] = codes[n]
      /\ codes' = [n \in DOMAIN codes' |-> codes'[n]]
    BY <1>1 DEF Store, RegShape
<1>3. Live' = Live \cup {stored'} /\ stored' \notin Live
    BY <1>2 DEF Live, Labelled
<1>4. /\ new' = [new EXCEPT ![i] = stored'] /\ old' = old /\ pc[i] = "store"
      /\ pc' = [pc EXCEPT ![i] = IF old[i] = 0 THEN "done" ELSE "mark"]
    BY DEF Store
<1>5. RegShape'
    <2>1. stored' \in Nat /\ DOMAIN codes' \subseteq 1 .. stored'
        BY <1>1, <1>2 DEF RegShape
    <2>2. \A n \in DOMAIN codes' :
             codes'[n] = [label |-> codes'[n].label, mode |-> codes'[n].mode,
                          replaced |-> codes'[n].replaced]
        BY <1>1, <1>2 DEF RegShape
    <2>3. /\ old' \in [Install -> 0 .. stored'] /\ new' \in [Install -> 0 .. stored']
          /\ pc' \in [Install -> {"idle", "scan", "migrate", "register", "store", "mark",
                                   "pick", "relabel", "discard"} \cup Ended]
        BY <1>1, <1>2, <1>4 DEF RegShape, Ended
    <2> QED
        BY <1>2, <2>1, <2>2, <2>3 DEF RegShape
<1>6. \A j \in Install : j # i => /\ pc'[j] = pc[j] /\ new'[j] = new[j]
                                 /\ Replacing(j)' <=> Replacing(j)
    BY <1>1, <1>4 DEF RegShape, Replacing
<1>7. \A j \in Install : old[j] # stored' /\ new[j] # stored'
    BY <1>1, <1>2 DEF RegShape
<1>8. /\ ~Replacing(i) /\ new'[i] = stored' /\ pc'[i] # "store"
      /\ Replacing(i)' <=> old[i] # 0
    BY <1>1, <1>4 DEF RegShape, Replacing
<1>9. ReplacementsAreLive'
    <2> SUFFICES ASSUME NEW k \in Install, Replacing(k)'
                 PROVE  /\ new'[k] \in Live'
                        /\ \A j \in Install : Replacing(j)' /\ new'[j] = new'[k] => j = k
                        /\ \A j \in Install :
                              Replacing(j)' \/ pc'[j] = "store" => old'[j] # new'[k]
        BY DEF ReplacementsAreLive
    <2>1. CASE k = i
        BY <1>3, <1>4, <1>6, <1>7, <1>8, <2>1
    <2>2. CASE k # i
        BY <1>3, <1>4, <1>6, <1>7, <1>8, <2>2 DEF RegInv, ReplacementsAreLive
    <2> QED
        BY <2>1, <2>2
<1>10. Pending' \subseteq Pending \cup (IF old[i] = 0 THEN {} ELSE {stored'})
    <2> SUFFICES ASSUME NEW j \in Install, Replacing(j)'
                 PROVE  new'[j] \in Pending \cup (IF old[i] = 0 THEN {} ELSE {stored'})
        BY DEF Pending
    <2>1. CASE j = i
        BY <1>8, <2>1
    <2>2. CASE j # i
        <3>1. Replacing(j) /\ new'[j] = new[j]
            BY <1>4, <1>1, <2>2 DEF Replacing, RegShape
        <3>2. new[j] \in Pending
            BY <3>1 DEF Pending
        <3> QED
            BY <3>1, <3>2
    <2> QED
        BY <2>1, <2>2
<1>11. stored' \notin Pending
    BY <1>7 DEF Pending
<1>12. SettledCode'
    <2>1. CASE Live # {} \/ old[i] # 0
        <3> PICK n \in Live : n \notin Pending
            BY <2>1 DEF RegInv, SettledCode
        <3>1. n \in Live' /\ n \notin Pending'
            BY <1>3, <1>10
        <3> QED
            BY <3>1 DEF SettledCode
    <2>2. CASE Live = {} /\ old[i] = 0
        BY <1>3, <1>10, <1>11, <2>2 DEF SettledCode
    <2> QED
        BY <2>1, <2>2
<1>13. NothingSupersededYet'
    BY <1>1, <1>4, <1>6, <1>8 DEF RegInv, NothingSupersededYet, RegShape
<1> QED
    BY <1>3, <1>5, <1>9, <1>12, <1>13 DEF RegInv

\* Two codes of one label: the one an install retires and the one it stored.
LEMMA MarkStep ==
    ASSUME RegInv, NEW i \in Install, Mark(i)
    PROVE  RegInv' /\ Live' = Live
<1> USE DEF Goto
<1>1. RegShape
    BY DEF RegInv
<1>2. /\ DOMAIN codes' = DOMAIN codes
      /\ codes' = [n \in DOMAIN codes' |-> codes'[n]]
      /\ \A n \in DOMAIN codes :
            /\ codes'[n].label = codes[n].label
            /\ codes'[n] = [label |-> codes'[n].label, mode |-> codes'[n].mode,
                            replaced |-> codes'[n].replaced]
    <2>1. codes' = [codes EXCEPT ![old[i]].replaced = TRUE]
        BY DEF Mark
    <2>2. /\ DOMAIN codes' = DOMAIN codes
          /\ codes' = [n \in DOMAIN codes' |-> codes'[n]]
        BY <2>1
    <2>3. ASSUME NEW n \in DOMAIN codes
          PROVE  codes'[n] = IF n = old[i] THEN [codes[n] EXCEPT !.replaced = TRUE] ELSE codes[n]
        BY <2>1
    <2>4. ASSUME NEW n \in DOMAIN codes
          PROVE  /\ codes'[n].label = codes[n].label
                 /\ codes'[n] = [label |-> codes'[n].label, mode |-> codes'[n].mode,
                                 replaced |-> codes'[n].replaced]
        <3>1. codes[n] = [label |-> codes[n].label, mode |-> codes[n].mode,
                          replaced |-> codes[n].replaced]
            BY <1>1 DEF RegShape
        <3> QED
            BY <2>3, <3>1
    <2> QED
        BY <2>2, <2>4
<1>3. Live' = Live
    BY <1>2 DEF Live, Labelled
<1>4. /\ UNCHANGED <<stored, old, new>> /\ Replacing(i)
      /\ pc' = [pc EXCEPT ![i] = "pick"]
    BY DEF Mark, Replacing
<1>5. RegShape'
    BY <1>1, <1>2, <1>4 DEF RegShape
<1>6. \A j \in Install : /\ Replacing(j)' <=> Replacing(j)
                         /\ pc'[j] = "store" <=> pc[j] = "store"
    BY <1>1, <1>4 DEF RegShape, Replacing
<1>7. Pending' = Pending
    BY <1>4, <1>6 DEF Pending
<1>8. ReplacementsAreLive' /\ SettledCode'
    BY <1>3, <1>4, <1>6, <1>7 DEF RegInv, ReplacementsAreLive, SettledCode
<1>9. NothingSupersededYet'
    BY <1>1, <1>4 DEF RegInv, RegShape, NothingSupersededYet
<1> QED
    BY <1>3, <1>5, <1>8, <1>9 DEF RegInv

\* retire_code takes the label from the original; the replacement is settled.
LEMMA RelabelStep ==
    ASSUME RegInv, NEW i \in Install, Relabel(i)
    PROVE  RegInv' /\ Live' # {}
<1> USE DEF Goto
<1>1. RegShape
    BY DEF RegInv
<1>2. codes' = [codes EXCEPT ![old[i]].label = retired[i]]
    BY DEF Relabel
<1>3. /\ DOMAIN codes' = DOMAIN codes
      /\ codes' = [n \in DOMAIN codes' |-> codes'[n]]
      /\ \A n \in DOMAIN codes : n # old[i] => codes'[n] = codes[n]
      /\ \A n \in DOMAIN codes : codes'[n] = [label |-> codes'[n].label,
                            mode |-> codes'[n].mode, replaced |-> codes'[n].replaced]
    <2>1. /\ DOMAIN codes' = DOMAIN codes
          /\ codes' = [n \in DOMAIN codes' |-> codes'[n]]
        BY <1>2
    <2>2. ASSUME NEW n \in DOMAIN codes
          PROVE  codes'[n] = IF n = old[i] THEN [codes[n] EXCEPT !.label = retired[i]] ELSE codes[n]
        BY <1>2
    <2>3. ASSUME NEW n \in DOMAIN codes
          PROVE  codes'[n] = [label |-> codes'[n].label, mode |-> codes'[n].mode,
                              replaced |-> codes'[n].replaced]
        <3>1. codes[n] = [label |-> codes[n].label, mode |-> codes[n].mode,
                          replaced |-> codes[n].replaced]
            BY <1>1 DEF RegShape
        <3> QED
            BY <2>2, <3>1
    <2> QED
        BY <2>1, <2>2, <2>3
<1>4. \A n \in Live : n # old[i] => n \in Live'
    BY <1>3 DEF Live, Labelled
<1>5. /\ UNCHANGED <<stored, old, new>> /\ Replacing(i) /\ pc[i] = "relabel"
      /\ pc' = [pc EXCEPT ![i] = "done"]
    BY DEF Relabel, Replacing
<1>6. RegShape'
    BY <1>1, <1>3, <1>5 DEF RegShape, Ended
<1>7. \A j \in Install : /\ Replacing(j)' <=> Replacing(j) /\ j # i
                         /\ pc'[j] = "store" <=> pc[j] = "store"
    BY <1>1, <1>5 DEF RegShape, Replacing
<1>8. \A j \in Install : Replacing(j) => new[j] \in Live /\ old[i] # new[j]
    BY <1>5 DEF RegInv, ReplacementsAreLive
<1>9. ReplacementsAreLive'
    BY <1>4, <1>5, <1>7, <1>8 DEF RegInv, ReplacementsAreLive
<1>10. new[i] \in Live'
    BY <1>4, <1>5, <1>8
<1>11. new[i] \notin Pending'
    BY <1>5, <1>7 DEF Pending, RegInv, ReplacementsAreLive
<1>12. SettledCode'
    BY <1>10, <1>11 DEF SettledCode
<1>13. NothingSupersededYet'
    BY <1>1, <1>5 DEF RegInv, RegShape, NothingSupersededYet
<1> QED
    BY <1>6, <1>9, <1>10, <1>12, <1>13 DEF RegInv

\* _discard_code deletes a node that is not the only one with the label.
LEMMA DiscardStep ==
    ASSUME RegInv, NEW i \in Install, Discard(i)
    PROVE  RegInv' /\ Live' # {}
<1> USE DEF Goto
<1>1. RegShape
    BY DEF RegInv
<1>2. /\ DOMAIN codes' = DOMAIN codes \ {new[i]}
      /\ codes' = [n \in DOMAIN codes' |-> codes'[n]]
      /\ \A n \in DOMAIN codes' : codes'[n] = codes[n]
    BY DEF Discard
<1>3. Live' = Live \ {new[i]}
    BY <1>2 DEF Live, Labelled
<1>4. /\ UNCHANGED <<stored, old, new>> /\ Replacing(i) /\ pc[i] = "discard"
      /\ pc' = [pc EXCEPT ![i] = "failed"]
    BY DEF Discard, Replacing
<1>5. RegShape'
    BY <1>1, <1>2, <1>4 DEF RegShape, Ended
<1>6. \A j \in Install : /\ Replacing(j)' <=> Replacing(j) /\ j # i
                         /\ pc'[j] = "store" <=> pc[j] = "store"
    BY <1>1, <1>4 DEF RegShape, Replacing
<1>7. ReplacementsAreLive'
    BY <1>3, <1>4, <1>6 DEF RegInv, ReplacementsAreLive
<1>8. new[i] \in Live /\ new[i] \in Pending
    BY <1>4 DEF RegInv, ReplacementsAreLive, Pending
<1>9. PICK n \in Live : n \notin Pending
    BY <1>8 DEF RegInv, SettledCode
<1>10. n \in Live'
    BY <1>3, <1>8, <1>9
<1>11. Pending' \subseteq Pending
    BY <1>4, <1>6 DEF Pending
<1>12. SettledCode'
    BY <1>9, <1>10, <1>11 DEF SettledCode
<1>13. NothingSupersededYet'
    BY <1>1, <1>4 DEF RegInv, RegShape, NothingSupersededYet
<1> QED
    BY <1>5, <1>7, <1>10, <1>12, <1>13 DEF RegInv

\* Each step of any install keeps the invariant and leaves the label its code.
LEMMA RegInvStep ==
    RegInv /\ [RegNext]_regVars => RegInv' /\ (Live # {} => Live' # {})
<1> SUFFICES ASSUME RegInv, [RegNext]_regVars PROVE RegInv' /\ (Live # {} => Live' # {})
    OBVIOUS
<1>1. CASE UNCHANGED regVars
    BY <1>1 DEF regVars, RegInv, RegShape, NothingSupersededYet, ReplacementsAreLive,
       SettledCode, Live, Labelled, Pending, Replacing
<1>2. ASSUME NEW i \in Install,
             Begin(i) \/ InstallStep(i) \/ RetireFails(i) \/ DiscardFails(i) \/ Kill(i)
      PROVE  RegInv' /\ (Live # {} => Live' # {})
    <2>1. CASE \/ Begin(i) \/ Scan(i) \/ Migrate(i) \/ Register(i)
               \/ StoreFails(i) \/ DiscardFails(i) \/ Kill(i)
        <3>1. codes' = codes
            BY <2>1 DEF Begin, Scan, Migrate, Register, StoreFails, DiscardFails, Kill
        <3> QED
            BY <2>1, <3>1, BeforeStore DEF Live, Labelled
    <2>2. CASE Pick(i) \/ RetireFails(i)
        <3>1. codes' = codes
            BY <2>2 DEF Pick, RetireFails
        <3> QED
            BY <2>2, <3>1, WhileReplacing DEF Live, Labelled
    <2>3. CASE Store(i)
        BY <2>3, StoreStep
    <2>4. CASE Mark(i)
        BY <2>4, MarkStep
    <2>5. CASE Relabel(i)
        BY <2>5, RelabelStep
    <2>6. CASE Discard(i)
        BY <2>6, DiscardStep
    <2> QED
        BY <1>2, <2>1, <2>2, <2>3, <2>4, <2>5, <2>6 DEF InstallStep
<1> QED
    BY <1>1, <1>2 DEF RegNext

\* However many installs overlap, fail or are killed, a code label that works
\* goes on naming a code: the order of _replace_code, store before retire and
\* delete only what was stored, never leaves a moment without one.
THEOREM LabelIsKept == RegSpec => LabelNeverVanishes
<1>1. RegSpec => []RegInv
    BY RegInvInit, RegInvStep, PTL DEF RegSpec
<1>2. RegInv /\ [RegNext]_regVars => [Live # {} => Live' # {}]_regVars
    BY RegInvStep
<1> QED
    BY <1>1, <1>2, PTL DEF RegSpec, LabelNeverVanishes

-----------------------------------------------------------------------------
(* One install at a time, c, that is not killed and whose discards         *)
(* succeed, for any number of installs one after another, any options and  *)
(* any failure of a lookup, of the store and of retire_code.               *)

\* What holds the label as the install goes on: one node or none until it
\* stores, unless a lookup failed where a code was; when a code is superseded,
\* that node alone, then it and a newer one, then the newer one.
HoldersByStep(i) ==
    /\ pc[i] \notin {"store", "mark", "pick", "relabel", "discard"} /\ ~blind =>
          \A m, n \in Live : m = n
    /\ pc[i] = "store" /\ old[i] # 0 => Live = {old[i]}
    /\ pc[i] = "store" /\ old[i] = 0 /\ ~blind => Live = {}
    /\ Replacing(i) => old[i] # 0 /\ old[i] < new[i] /\ Live = {old[i], new[i]}
    /\ pc[i] = "relabel" => retired[i] # Original
    /\ pc[i] = "failed" /\ old[i] # 0 => Live = {old[i]}

\* A code is superseded for one of two reasons, which still holds when its label
\* is taken from it.
SupersededForCause(i) ==
    (pc[i] = "store" /\ old[i] # 0) \/ Replacing(i) =>
        args[i].explicit \/ RunsWrong(old[i], i)

AloneInv(i) ==
    RegInv /\ DOMAIN retired = Install /\ HoldersByStep(i) /\ SupersededForCause(i)

\* No two nodes hold the label: the count says so too.
LEMMA AtMostOne ==
    ASSUME \A m, n \in Live : m = n
    PROVE  Cardinality(Live) <= 1 /\ (Live # {} => Cardinality(Live) = 1)
<1>1. CASE Live = {}
    BY <1>1, FS_EmptySet
<1>2. CASE Live # {}
    <2>1. PICK m \in Live : TRUE
        BY <1>2
    <2>2. Live = {m}
        BY <2>1
    <2>3. Cardinality(Live) = 1
        BY <2>2, FS_Singleton
    <2>4. QED
        BY <1>2, <2>3
<1>3. QED
    BY <1>1, <1>2

\* A profile as found has one code with the label, or none.
LEMMA AloneInit == ASSUME NEW c, Install = {c} PROVE RegInit => AloneInv(c)
<1> SUFFICES ASSUME RegInit PROVE AloneInv(c)
    OBVIOUS
<1>1. pc[c] = "idle"
    BY DEF RegInit
<1>2. \A m, n \in Live : m = n
    BY DEF RegInit, Live, Labelled
<1>3. DOMAIN retired = Install
    BY DEF RegInit
<1>4. QED
    BY <1>1, <1>2, <1>3, RegInvInit DEF AloneInv, HoldersByStep, SupersededForCause, Replacing

\* The steps that leave the nodes alone: what is superseded is what was found.
LEMMA AloneLook ==
    ASSUME NEW c, Install = {c}, AloneInv(c),
           Begin(c) \/ Scan(c) \/ Migrate(c) \/ Register(c) \/ StoreFails(c)
    PROVE  HoldersByStep(c)' /\ SupersededForCause(c)'
<1> USE DEF AloneInv, RegInv, HoldersByStep, Replacing, Goto
<1>1. RegShape /\ codes' = codes
    BY DEF Begin, Scan, Migrate, Register, StoreFails
<1>2. Live' = Live /\ \A n \in Live : n # 0
    BY <1>1 DEF Live, Labelled, RegShape
<1>3. CASE Begin(c)
    BY <1>1, <1>2, <1>3 DEF Begin, RegShape, Ended, SupersededForCause
<1>4. CASE Scan(c)
    <2>1. pc'[c] \in {"failed", "register", "migrate", "done"} /\ pc[c] = "scan"
        BY <1>1, <1>4 DEF Scan, RegShape
    <2>2. old' = old /\ old[c] = 0 /\ blind' = blind
        BY <1>4, <2>1 DEF Scan, NothingSupersededYet
    <2>3. QED
        BY <1>2, <2>1, <2>2 DEF SupersededForCause
<1>5. CASE Migrate(c)
    <2>1. pc[c] = "migrate" /\ old[c] = 0 /\ args' = args /\ blind' = blind
        BY <1>5 DEF Migrate, NothingSupersededYet
    <2>2. CASE pc' = [pc EXCEPT ![c] = "failed"] /\ UNCHANGED old
        BY <1>1, <1>2, <2>1, <2>2 DEF RegShape, SupersededForCause
    <2>3. ASSUME NEW n \in Live, Live = {n},
                 pc' = [pc EXCEPT ![c] = IF RunsWrong(n, c) THEN "store" ELSE "done"],
                 old' = [old EXCEPT ![c] = IF RunsWrong(n, c) THEN n ELSE 0]
          PROVE  HoldersByStep(c)' /\ SupersededForCause(c)'
        BY <1>1, <1>2, <2>1, <2>3 DEF RegShape, SupersededForCause, RunsWrong
    <2>4. QED
        BY <1>5, <2>2, <2>3 DEF Migrate
<1>6. CASE Register(c)
    <2>1. pc[c] = "register" /\ old[c] = 0 /\ args' = args
        BY <1>6 DEF Register, NothingSupersededYet
    <2>2. CASE pc' = [pc EXCEPT ![c] = "failed"] /\ UNCHANGED <<old, blind>>
        BY <1>1, <1>2, <2>1, <2>2 DEF RegShape, SupersededForCause
    <2>3. CASE /\ pc' = [pc EXCEPT ![c] = "store"] /\ UNCHANGED old
               /\ blind' = (blind \/ Live # {})
        BY <1>1, <1>2, <2>1, <2>3 DEF RegShape, SupersededForCause
    <2>4. ASSUME NEW n \in Live, Live = {n},
                 pc' = [pc EXCEPT ![c] = IF args[c].explicit THEN "store" ELSE "done"],
                 old' = [old EXCEPT ![c] = IF args[c].explicit THEN n ELSE 0],
                 UNCHANGED blind
          PROVE  HoldersByStep(c)' /\ SupersededForCause(c)'
        BY <1>1, <1>2, <2>1, <2>4 DEF RegShape, SupersededForCause
    <2>5. QED
        BY <1>6, <2>2, <2>3, <2>4 DEF Register
<1>7. CASE StoreFails(c)
    BY <1>1, <1>2, <1>7 DEF StoreFails, RegShape, SupersededForCause
<1>8. QED
    BY <1>3, <1>4, <1>5, <1>6, <1>7

\* The steps of a replacement, which change the nodes one operation at a time.
LEMMA AloneReplace ==
    ASSUME NEW c, Install = {c}, AloneInv(c),
           Store(c) \/ Mark(c) \/ Pick(c) \/ RetireFails(c) \/ Relabel(c) \/ Discard(c)
    PROVE  HoldersByStep(c)' /\ SupersededForCause(c)'
<1> USE DEF AloneInv, RegInv, HoldersByStep, Replacing, Goto
<1>1. RegShape /\ Live \subseteq 1 .. stored /\ stored \in Nat
    BY DEF RegShape, Live, Labelled
<1>2. CASE Store(c)
    <2>1. stored' = stored + 1 /\ stored' \notin DOMAIN codes
        BY <1>1, <1>2 DEF Store, RegShape
    <2>2. Live' = Live \cup {stored'}
        BY <1>2, <2>1 DEF Store, Live, Labelled
    <2>3. pc'[c] = (IF old[c] = 0 THEN "done" ELSE "mark")
          /\ new'[c] = stored' /\ old' = old /\ args' = args /\ pc[c] = "store"
          /\ blind' = blind
        BY <1>1, <1>2 DEF Store, RegShape
    <2>4. old[c] # 0 => old[c] < stored' /\ old[c] \in DOMAIN codes
        BY <1>1, <2>1, <2>3 DEF RegShape, Live, Labelled
    <2>5. old[c] # 0 => codes'[old[c]] = codes[old[c]]
        BY <1>2, <2>1, <2>4 DEF Store
    <2>6. QED
        BY <2>2, <2>3, <2>4, <2>5 DEF SupersededForCause, RunsWrong
<1>3. CASE Mark(c)
    <2>1. pc[c] = "mark" /\ pc'[c] = "pick" /\ old' = old /\ new' = new /\ args' = args
        BY <1>1, <1>3 DEF Mark, RegShape
    <2>2. old[c] \in DOMAIN codes
        BY <2>1 DEF Live, Labelled
    <2>3. /\ DOMAIN codes' = DOMAIN codes
          /\ \A n \in DOMAIN codes :
                codes'[n].label = codes[n].label /\ codes'[n].mode = codes[n].mode
        BY <1>1, <1>3, <2>2 DEF Mark, RegShape
    <2>4. Live' = Live
        BY <2>3 DEF Live, Labelled
    <2>5. QED
        BY <2>1, <2>2, <2>3, <2>4 DEF SupersededForCause, RunsWrong
<1>4. CASE Pick(c)
    <2>1. /\ pc[c] = "pick" /\ codes' = codes
          /\ old' = old /\ new' = new /\ args' = args
        BY <1>4 DEF Pick
    <2>2. \/ pc'[c] = "discard"
          \/ /\ pc'[c] = "relabel"
             /\ \E k : retired' = [retired EXCEPT ![c] = Candidate(c, k)]
        BY <1>1, <1>4 DEF Pick, RegShape
    <2>3. \A k : Candidate(c, k) # Original
        <3>1. codes[old[c]].label = <<>>
            BY <2>1 DEF Live, Labelled, Original
        <3>2. \A x : Append(<<>>, x) # <<>>
            OBVIOUS
        <3>3. QED
            BY <3>1, <3>2 DEF Candidate, Original
    <2>4. Live' = Live
        BY <2>1 DEF Live, Labelled
    <2>5. QED
        BY <2>1, <2>2, <2>3, <2>4 DEF SupersededForCause, RunsWrong
<1>5. CASE RetireFails(c)
    <2>1. /\ pc'[c] = "discard" /\ Replacing(c) /\ codes' = codes
          /\ old' = old /\ new' = new /\ args' = args
        BY <1>1, <1>5 DEF RetireFails, RegShape
    <2>2. Live' = Live
        BY <2>1 DEF Live, Labelled
    <2>3. QED
        BY <2>1, <2>2 DEF SupersededForCause, RunsWrong
<1>6. CASE Relabel(c)
    <2>1. pc[c] = "relabel" /\ pc'[c] = "done" /\ old' = old /\ new' = new
        BY <1>1, <1>6 DEF Relabel, RegShape
    <2>2. old[c] \in DOMAIN codes /\ old[c] # new[c]
        BY <1>1, <2>1 DEF Live, Labelled, RegShape
    <2>3. Live' = {new[c]}
        BY <1>1, <1>6, <2>1, <2>2 DEF Relabel, Live, Labelled, RegShape
    <2>4. QED
        BY <2>1, <2>3 DEF SupersededForCause
<1>7. CASE Discard(c)
    <2>1. pc[c] = "discard" /\ pc'[c] = "failed" /\ old' = old
        BY <1>1, <1>7 DEF Discard, RegShape
    <2>2. Live' = Live \ {new[c]}
        BY <1>7 DEF Discard, Live, Labelled
    <2>3. old[c] # new[c]
        BY <1>1, <2>1 DEF RegShape
    <2>4. QED
        BY <2>1, <2>2, <2>3 DEF SupersededForCause
<1>8. QED
    BY <1>2, <1>3, <1>4, <1>5, <1>6, <1>7

------------------------------------------------------------------------------

\* The invariant holds of every behaviour of one install at a time.
LEMMA AloneInvariance ==
    ASSUME NEW c, Install = {c}, Faults \subseteq {"lookup"}
    PROVE  RegSpec => []AloneInv(c)
<1>1. AloneInv(c) /\ [RegNext]_regVars => AloneInv(c)'
    <2> SUFFICES ASSUME AloneInv(c), [RegNext]_regVars PROVE AloneInv(c)'
        OBVIOUS
    <2>1. RegInv'
        BY RegInvStep DEF AloneInv
    <2>2. DOMAIN retired' = Install
        BY DEF AloneInv, RegNext, regVars, Begin, InstallStep, Scan, Migrate, Register,
           Store, StoreFails, Mark, Pick, Relabel, Discard, RetireFails, DiscardFails, Kill
    <2>3. CASE UNCHANGED regVars
        BY <2>1, <2>2, <2>3 DEF AloneInv, regVars, HoldersByStep, SupersededForCause, Replacing,
           RunsWrong, Live, Labelled
    <2>4. CASE RegNext
        BY <2>1, <2>2, <2>4, AloneLook, AloneReplace
           DEF AloneInv, RegNext, InstallStep, DiscardFails, Kill
    <2>5. QED
        BY <2>1, <2>2, <2>3, <2>4 DEF AloneInv
<1>2. QED
    BY <1>1, AloneInit, PTL DEF RegSpec

\* After any install, finished or failed, the label names one code at most, unless
\* an error of the database was taken for the absence of the code that was there:
\* the next load_code resolves and the next install can run.
THEOREM LabelResolves ==
    ASSUME NEW c, Install = {c}, Faults \subseteq {"lookup"}
    PROVE  RegSpec => []OneLiveCode
<1>1. AloneInv(c) => OneLiveCode
    <2> SUFFICES ASSUME AloneInv(c), pc[c] \in {"idle"} \cup Ended, ~blind
                 PROVE  Cardinality(Live) <= 1
        BY DEF OneLiveCode, InstallsOver
    <2>1. \A m, n \in Live : m = n
        BY DEF AloneInv, HoldersByStep, Ended
    <2>2. QED
        BY <2>1, AtMostOne
<1>2. QED
    BY <1>1, AloneInvariance, PTL

\* "A force replacement that fails at either step leaves exactly one node
\* holding the label" (setup_code), and a migration does too.
THEOREM FailureIsUndone ==
    ASSUME NEW c, Install = {c}, Faults \subseteq {"lookup"}
    PROVE  RegSpec => []FailedReplacementLeavesOne
<1>1. AloneInv(c) => FailedReplacementLeavesOne
    <2> SUFFICES ASSUME AloneInv(c), pc[c] = "failed", old[c] # 0
                 PROVE  Cardinality(Live) = 1
        BY DEF FailedReplacementLeavesOne
    <2>1. Live = {old[c]}
        BY DEF AloneInv, HoldersByStep
    <2>2. QED
        BY <2>1, AtMostOne
<1>2. QED
    BY <1>1, AloneInvariance, PTL

\* The label is taken only from a code the user named or whose binary wants it
\* otherwise, though the decision was made several operations before.
THEOREM NoCodeOrphaned ==
    ASSUME NEW c, Install = {c}, Faults \subseteq {"lookup"}
    PROVE  RegSpec => NoNeedlessReplacement
<1>1. AloneInv(c) /\ [RegNext]_regVars => [LabelTakenForCause]_regVars
    <2> SUFFICES ASSUME AloneInv(c), RegNext,
                        NEW n \in Live, n \in DOMAIN codes', codes'[n].label # Original
                 PROVE  args[c].explicit \/ RunsWrong(n, c)
        BY DEF LabelTakenForCause
    <2>1. RegShape /\ n \in DOMAIN codes /\ codes[n].label = Original
        BY DEF AloneInv, RegInv, Live, Labelled
    <2>2. Relabel(c)
        BY <2>1 DEF RegNext, InstallStep, Begin, Scan, Migrate, Register, Store, StoreFails,
           Mark, Pick, Discard, RetireFails, DiscardFails, Kill, RegShape
    <2>3. n = old[c]
        BY <2>1, <2>2 DEF Relabel, RegShape
    <2>4. QED
        BY <2>2, <2>3 DEF AloneInv, SupersededForCause, Replacing, Relabel
<1>2. RegSpec => []AloneInv(c)
    BY AloneInvariance
<1>3. QED
    BY <1>1, <1>2, PTL DEF RegSpec, NoNeedlessReplacement

\* A node is deleted only while an older one holds the label, so no calculation
\* was run with it.
THEOREM DeletedWasUnused ==
    ASSUME NEW c, Install = {c}, Faults \subseteq {"lookup"}
    PROVE  RegSpec => OnlyUnusedCodesDeleted
<1> DEFINE Unused == \A n \in DOMAIN codes : n \notin DOMAIN codes' =>
                        codes[n].label = Original /\ \E m \in Live : m < n
<1>1. AloneInv(c) /\ [RegNext]_regVars => [Unused]_regVars
    <2> SUFFICES ASSUME AloneInv(c), RegNext, NEW n \in DOMAIN codes, n \notin DOMAIN codes'
                 PROVE  codes[n].label = Original /\ \E m \in Live : m < n
        OBVIOUS
    <2>1. Discard(c)
        BY DEF RegNext, InstallStep, Begin, Scan, Migrate, Register, Store, StoreFails,
           Mark, Pick, Relabel, RetireFails, DiscardFails, Kill
    <2>2. n = new[c]
        BY <2>1 DEF Discard
    <2>3. Live = {old[c], new[c]} /\ old[c] < new[c]
        BY <2>1 DEF AloneInv, HoldersByStep, Replacing, Discard
    <2>4. QED
        BY <2>2, <2>3 DEF Live, Labelled
<1>2. QED
    BY <1>1, AloneInvariance, PTL DEF RegSpec, OnlyUnusedCodesDeleted
==============================================================================
