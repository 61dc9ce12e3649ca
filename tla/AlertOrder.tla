----------------------------- MODULE AlertOrder -----------------------------
(***************************************************************************)
(* The order in which the alerts of a cluster are reported: alert.go       *)
(* implements sort.Interface, and Scout sorts by it (kubescout.go:79).     *)
(* Names are numbers, in the order in which strings are compared.          *)
(***************************************************************************)
EXTENDS Integers, TLAPS

kindToOrder == [Node |-> 1, Namespace |-> 2, ReplicaSet |-> 3, Pod |-> 4]

EntityAlert == [Kind : STRING, Namespace : STRING, Name : Int]

found(alert) == alert.Kind \in DOMAIN kindToOrder

\* The map yields zero for a kind that it does not have.
kind(alert) == IF found(alert) THEN kindToOrder[alert.Kind] ELSE 0

Less(i, j) ==
    \/ found(i) /\ ~ found(j)
    \/ found(i) = found(j) /\ kind(i) < kind(j)
    \/ found(i) = found(j) /\ kind(i) = kind(j) /\ i.Name < j.Name

\* Neither comes before the other.
Tied(i, j) == ~ Less(i, j) /\ ~ Less(j, i)

-----------------------------------------------------------------------------

LEMMA KindType == ASSUME NEW a \in EntityAlert
                  PROVE  /\ kind(a) \in 0..4 /\ a.Name \in Int
                         /\ found(a) \in BOOLEAN
                         /\ found(a) <=> kind(a) # 0
  <1>1. \A k \in DOMAIN kindToOrder : kindToOrder[k] \in 1..4
    BY DEF kindToOrder
  <1> QED  BY <1>1 DEF kind, found, EntityAlert

\* What sort.Interface asks of alert.go:64-74: Less is a strict order, and being
\* tied is transitive, so that sorting has one outcome but for ties.
THEOREM LessIsStrictWeakOrder ==
  \A a, b, c \in EntityAlert :
    /\ ~ Less(a, a)
    /\ Less(a, b) /\ Less(b, c) => Less(a, c)
    /\ Tied(a, b) /\ Tied(b, c) => Tied(a, c)
  BY KindType DEF Less, Tied

\* Alerts that tie have one name, and one kind unless both kinds are unknown to
\* the map; so objects of one name in two namespaces, or of two kinds that only
\* events make known, are reported in any order.
THEOREM OnlyNamesakesTie ==
  \A a, b \in EntityAlert :
    Tied(a, b) <=> /\ a.Name = b.Name
                   /\ a.Kind = b.Kind \/ (~ found(a) /\ ~ found(b))
  <1> SUFFICES ASSUME NEW a \in EntityAlert, NEW b \in EntityAlert
               PROVE  Tied(a, b) <=> /\ a.Name = b.Name
                                     /\ a.Kind = b.Kind \/ (~ found(a) /\ ~ found(b))
    OBVIOUS
  <1>1. Tied(a, b) <=> a.Name = b.Name /\ kind(a) = kind(b)
    BY KindType DEF Less, Tied
  <1>2. kind(a) = kind(b) <=> a.Kind = b.Kind \/ (~ found(a) /\ ~ found(b))
    BY DEF kind, found, kindToOrder
  <1> QED  BY <1>1, <1>2

=============================================================================
