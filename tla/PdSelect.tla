------------------------------ MODULE PdSelect ------------------------------
(***************************************************************************)
(* What handle_source_capabilities of src/pd/mod.rs asks for: it copies    *)
(* the power data objects of the message over those of the message before, *)
(* picks one, and requests all the current it offers.  A data object is    *)
(* reduced to the two fields the code reads, in their raw units of 50 mV   *)
(* and 10 mA; the code reads them from every object, whatever its type.    *)
(***************************************************************************)
EXTENDS Integers, Sequences

CONSTANTS
  Objects,      \* the data objects a source may offer
  MaxObjects    \* data objects in a message (3 bits in the header: 7)

FieldMax == 1023    \* 10 bits

ASSUME SelectAssumption ==
  /\ MaxObjects \in 1..7
  /\ Objects \subseteq [raw_max_current : 0..FieldMax, raw_voltage : 0..FieldMax]

VARIABLES
  pdos,       \* Pd.pdos, from index 0
  num_pdos,   \* Pd.num_pdos
  request,    \* the last request built
  caps        \* history: the payload it answers

vars == <<pdos, num_pdos, request, caps>>

NoObject == [raw_max_current |-> 0, raw_voltage |-> 0]

Requests ==
  [object_position : 0..15, raw_operating_current : 0..FieldMax,
   raw_min_operating_current : 0..FieldMax]

RequestTypeOK ==
  /\ pdos \in [0..MaxObjects - 1 -> Objects \cup {NoObject}]
  /\ num_pdos \in 0..MaxObjects
  /\ request \in Requests
  /\ caps \in Seq(Objects)

Init ==
  /\ pdos = [i \in 0..MaxObjects - 1 |-> NoObject] /\ num_pdos = 0
  /\ request = [object_position |-> 0, raw_operating_current |-> 0,
                raw_min_operating_current |-> 0]
  /\ caps = <<>>

----------------------------------------------------------------------------
Voltage(pdo) == pdo.raw_voltage * 50              \* mV
MaxCurrent(pdo) == pdo.raw_max_current * 10       \* mA
Power(pdo) == (Voltage(pdo) * MaxCurrent(pdo)) \div 1000

VoltageLimit == 18000

Allowed(pdo) == Voltage(pdo) <= VoltageLimit

\* Mutant: every slot is looked at, those an earlier message left too.
AllSlots(n) == MaxObjects

\* The slots that pdos[..num_pdos] looks at.
Slots(n) == n

NoChoice == [index |-> 0, power |-> 0]

Better(best, pdo, i) ==
  IF Allowed(pdo) /\ Power(pdo) > best.power
  THEN [index |-> i, power |-> Power(pdo)] ELSE best

\* The fold, after the first n slots.
Best(objs, n) ==
  LET best[i \in 0..n] ==
        IF i = 0 THEN NoChoice ELSE Better(best[i - 1], objs[i - 1], i - 1)
  IN  best[n]

Select(objs, n) == Best(objs, Slots(n)).index

\* Mutant: milliamperes go into the field.
Milliamps(val) == val

RawCurrent(val) == val \div 10

RequestFor(objs, selected) ==
  [object_position |-> selected + 1,
   raw_operating_current |-> RawCurrent(MaxCurrent(objs[selected])),
   raw_min_operating_current |-> RawCurrent(MaxCurrent(objs[selected]))]

HandleSourceCapabilities(payload) ==
  /\ pdos' = [i \in DOMAIN pdos |->
                IF i < Len(payload) THEN payload[i + 1] ELSE pdos[i]]
  /\ num_pdos' = Len(payload)
  /\ request' = RequestFor(pdos', Select(pdos', num_pdos'))
  /\ caps' = payload

\* handle_message: a data message has at least one object.
Payloads == UNION {[1..n -> Objects] : n \in 1..MaxObjects}

Next == \E payload \in Payloads : HandleSourceCapabilities(payload)

Spec == Init /\ [][Next]_vars

----------------------------------------------------------------------------
\* The request depends on the message it answers and on nothing before: it is
\* for an object of that message, for all the current of that object, and no
\* object up to 18 V offers more power; if none offers any the first is taken.
\* (More than 18 V is so asked for only of a source whose first object is above
\* 18 V already; the first object of a conforming source is 5 V.)
BestRequest ==
  caps # <<>> =>
    LET p == request.object_position
        usable == {j \in 1..Len(caps) :
                     Voltage(caps[j]) <= 18000 /\ Power(caps[j]) > 0}
    IN  /\ p \in 1..Len(caps)
        /\ IF usable = {} THEN p = 1
           ELSE p \in usable /\ \A j \in usable : Power(caps[j]) <= Power(caps[p])
        /\ request.raw_operating_current = caps[p].raw_max_current
        /\ request.raw_min_operating_current = caps[p].raw_max_current
=============================================================================
