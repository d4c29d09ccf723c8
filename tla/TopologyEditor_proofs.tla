------------------------- MODULE TopologyEditor_proofs -------------------------
(***************************************************************************)
(* Proofs about the learner's topologies: the editor of one of them        *)
(* (TopologyEditor) and the shelf they are kept on (Library).              *)
(*                                                                         *)
(* The editor.  Of each kind of answer, drag or window that can be         *)
(* overtaken the invariant says what holds as long as none was: the        *)
(* history past, document, future is a chain of single edits, where a drag *)
(* counts from where it began; all its documents are valid; the open       *)
(* window shows what the document holds and a command in flight knows no   *)
(* less; the one save in flight is of the document that is on the page.    *)
(* The properties follow from it without another look at the actions, the  *)
(* action property too: a new edit is the last link of the chain.          *)
(*                                                                         *)
(* The shelf.  The invariant says of an edit under way that the columns no *)
(* overlapping call gives are in the row as the call has loaded them, and  *)
(* of a new row that it counts its devices unless its source was           *)
(* contended.  The limit holds because of the inserts under way at most    *)
(* all calls but one can be more than the count allowed.                   *)
(***************************************************************************)
EXTENDS TopologyEditor, Library, TLAPS, FiniteSetTheorems, WellFoundedInduction

\* A document, by its fields.
IsDoc(x) ==
  /\ Placed(x) \subseteq Devices
  /\ x = [devices |-> x.devices, links |-> x.links, group |-> x.group]
  /\ x.devices \in [Placed(x) -> DeviceState]
  /\ x.links \subseteq Cable /\ x.group \in BOOLEAN

\* From a to b nothing of a configuration is lost.
Grows(a, b) ==
  \A d \in Placed(a) \cap Placed(b) : a.devices[d].config \subseteq b.devices[d].config

\* From a to b no configuration changes; a device that is new has none.
Kept(a, b) ==
  \A d \in Placed(b) :
    b.devices[d].config = IF d \in Placed(a) THEN a.devices[d].config ELSE {}

\* What an edit makes of a document.
Edits(a, b) ==
  /\ IsDoc(b) /\ OneEdit(a, b) /\ Kept(a, b)
  /\ Valid(a) => Valid(b)

-----------------------------------------------------------------------------
(* Edits *)

LEMMA DocParts ==
  ASSUME NEW f, NEW L, NEW g
  PROVE  LET x == [devices |-> f, links |-> L, group |-> g]
         IN  x.devices = f /\ x.links = L /\ x.group = g /\ Placed(x) = DOMAIN f
BY DEF Placed

LEMMA ByFields ==
  ASSUME NEW y, NEW z,
         y = [i \in {"devices", "links", "group"} |-> y[i]],
         z = [i \in {"devices", "links", "group"} |-> z[i]],
         y.devices = z.devices, y.links = z.links, y.group = z.group
  PROVE  y = z
<1>1. \A i \in {"devices", "links", "group"} : y[i] = z[i]
  OBVIOUS
<1> QED BY <1>1

LEMMA Rebuilt ==
  ASSUME NEW x, IsDoc(x), NEW f, NEW g
  PROVE  /\ \A L : [x EXCEPT !.devices = f, !.links = L]
               = [devices |-> f, links |-> L, group |-> x.group]
         /\ [x EXCEPT !.group = g]
               = [devices |-> x.devices, links |-> x.links, group |-> g]
<1> DEFINE rec(D, K, h) == [devices |-> D, links |-> K, group |-> h]
<1>1. PICK D, K, h : x = rec(D, K, h)
  BY DEF IsDoc
<1>2. x.devices = D /\ x.links = K /\ x.group = h
  BY <1>1
<1>3. ASSUME NEW L PROVE [x EXCEPT !.devices = f, !.links = L] = rec(f, L, h)
  <2> DEFINE z == [x EXCEPT !.devices = f, !.links = L]
             y == rec(f, L, h)
  <2>1. /\ z = [i \in {"devices", "links", "group"} |-> z[i]]
        /\ y = [i \in {"devices", "links", "group"} |-> y[i]]
    BY <1>1
  <2>2. z.devices = y.devices /\ z.links = y.links /\ z.group = y.group
    BY <1>1
  <2> HIDE DEF z, y
  <2>3. z = y
    BY <2>1, <2>2, ByFields
  <2> QED BY <2>3 DEF z, y
<1>4. [x EXCEPT !.group = g] = rec(D, K, g)
  <2> DEFINE z == [x EXCEPT !.group = g]
             y == rec(D, K, g)
  <2>1. /\ z = [i \in {"devices", "links", "group"} |-> z[i]]
        /\ y = [i \in {"devices", "links", "group"} |-> y[i]]
    BY <1>1
  <2>2. z.devices = y.devices /\ z.links = y.links /\ z.group = y.group
    BY <1>1
  <2> HIDE DEF z, y
  <2>3. z = y
    BY <2>1, <2>2, ByFields
  <2> QED BY <2>3 DEF z, y
<1> QED BY <1>2, <1>3, <1>4

LEMMA KeptGrows == ASSUME NEW a, NEW b, Kept(a, b) PROVE Grows(a, b)
BY DEF Kept, Grows

LEMMA EmptyIsDoc == IsDoc(EmptyDoc) /\ Valid(EmptyDoc) /\ Placed(EmptyDoc) = {}
BY DEF IsDoc, EmptyDoc, Valid, Placed

LEMMA DeviceChanged ==
  ASSUME NEW x, IsDoc(x), NEW d \in Placed(x), NEW r \in DeviceState
  PROVE  LET y == Device(x, d, r)
         IN  /\ IsDoc(y) /\ Placed(y) = Placed(x) /\ y.links = x.links /\ y.group = x.group
             /\ y.devices[d] = r /\ \A e \in Placed(x) \ {d} : y.devices[e] = x.devices[e]
<1> DEFINE f == [x.devices EXCEPT ![d] = r]
           y == [devices |-> f, links |-> x.links, group |-> x.group]
<1>1. Device(x, d, r) = y
  BY DEF Device, IsDoc
<1>2. /\ f \in [Placed(x) -> DeviceState] /\ f[d] = r
      /\ \A e \in Placed(x) \ {d} : f[e] = x.devices[e]
  BY DEF IsDoc
<1>3. y.devices = f /\ y.links = x.links /\ y.group = x.group /\ Placed(y) = Placed(x)
  BY <1>2 DEF Placed
<1>4. IsDoc(y)
  BY <1>2, <1>3 DEF IsDoc
<1> QED BY <1>1, <1>2, <1>3, <1>4

LEMMA OneDevice ==
  ASSUME NEW x, IsDoc(x), NEW d \in Placed(x), NEW r \in DeviceState,
         r.grouped => x.group \/ x.devices[d].grouped,
         r = x.devices[d] \/ Cardinality(Changed(x.devices[d], r)) = 1
  PROVE  /\ IsDoc(Device(x, d, r)) /\ OneEdit(x, Device(x, d, r))
         /\ Valid(x) => Valid(Device(x, d, r))
         /\ x.devices[d].config = r.config => Kept(x, Device(x, d, r))
         /\ x.devices[d].config \subseteq r.config => Grows(x, Device(x, d, r))
<1> DEFINE y == Device(x, d, r)
<1>1. /\ IsDoc(y) /\ Placed(y) = Placed(x) /\ y.links = x.links /\ y.group = x.group
      /\ y.devices[d] = r /\ \A e \in Placed(x) \ {d} : y.devices[e] = x.devices[e]
  BY DeviceChanged
<1> HIDE DEF y
<1>2. /\ x.devices[d].config = r.config => Kept(x, y)
      /\ x.devices[d].config \subseteq r.config => Grows(x, y)
  BY <1>1 DEF Kept, Grows
<1>3. Valid(x) => Valid(y)
  BY <1>1 DEF Valid
<1>4. OneEdit(x, y)
  <2>1. CASE r = x.devices[d]
    <3>1. y.devices = x.devices
      BY <1>1, <2>1 DEF IsDoc
    <3> QED BY <1>1, <3>1 DEF IsDoc, OneEdit
  <2>2. CASE Cardinality(Changed(x.devices[d], r)) = 1
    <3>1. SameBut({d}, x, y) /\ d \in Devices
      BY <1>1 DEF SameBut, IsDoc
    <3> QED BY <1>1, <2>2, <3>1 DEF OneEdit
  <2> QED BY <2>1, <2>2
<1> QED BY <1>1, <1>2, <1>3, <1>4 DEF y

\* One field of a device.
LEMMA OneField ==
  ASSUME NEW a \in DeviceState, NEW b \in DeviceState, NEW f \in {"look", "config", "grouped"},
         a[f] # b[f], \A g \in {"look", "config", "grouped"} \ {f} : a[g] = b[g]
  PROVE  Cardinality(Changed(a, b)) = 1
<1>1. Changed(a, b) = {f}
  BY DEF Changed
<1> QED BY <1>1, FS_Singleton

LEMMA OnlyLinks ==
  ASSUME NEW x, IsDoc(x), NEW L \in SUBSET Cable,
         Cardinality(x.links \ L) <= 1, Cardinality(L \ x.links) <= 1
  PROVE  LET y == [x EXCEPT !.links = L]
         IN  /\ IsDoc(y) /\ OneEdit(x, y) /\ Kept(x, y)
             /\ Placed(y) = Placed(x) /\ y.devices = x.devices /\ y.links = L
             /\ y.group = x.group
<1> DEFINE y == [devices |-> x.devices, links |-> L, group |-> x.group]
<1>1. [x EXCEPT !.links = L] = y
  BY DEF IsDoc
<1>2. y.devices = x.devices /\ y.links = L /\ y.group = x.group /\ Placed(y) = Placed(x)
  BY DEF Placed
<1>3. IsDoc(y)
  BY <1>2 DEF IsDoc
<1> HIDE DEF y
<1>4. OneEdit(x, y) /\ Kept(x, y)
  BY <1>2 DEF OneEdit, Kept, IsDoc
<1> QED BY <1>1, <1>2, <1>3, <1>4

LEMMA AtMostOne ==
  ASSUME NEW S, NEW a, S \subseteq {a}
  PROVE  Cardinality(S) <= 1 /\ Cardinality({}) <= 1
<1>1. S = {} \/ S = {a}
  OBVIOUS
<1>2. Cardinality({}) = 0 /\ Cardinality({a}) = 1
  BY FS_EmptySet, FS_Singleton
<1> QED BY <1>1, <1>2

LEMMA DeviceAdded ==
  ASSUME NEW x, IsDoc(x), NEW d \in Devices \ Placed(x)
  PROVE  Edits(x, [x EXCEPT !.devices = [e \in Placed(x) \cup {d} |->
                     IF e = d THEN Fresh ELSE x.devices[e]]])
<1> DEFINE f == [e \in Placed(x) \cup {d} |-> IF e = d THEN Fresh ELSE x.devices[e]]
           y == [devices |-> f, links |-> x.links, group |-> x.group]
<1>1. [x EXCEPT !.devices = f] = y
  BY DEF IsDoc
<1>2. Fresh \in DeviceState /\ Fresh.grouped = FALSE /\ Fresh.config = {}
  BY DEF Fresh, DeviceState
<1>3. /\ y.devices = f /\ y.links = x.links /\ y.group = x.group
      /\ Placed(y) = Placed(x) \cup {d} /\ f \in [Placed(x) \cup {d} -> DeviceState]
      /\ f[d] = Fresh /\ \A e \in Placed(x) : f[e] = x.devices[e]
  BY <1>2 DEF Placed, IsDoc
<1>4. IsDoc(y)
  BY <1>3 DEF IsDoc
<1> HIDE DEF y, f
<1>5. Kept(x, y)
  BY <1>2, <1>3 DEF Kept
<1>6. OneEdit(x, y)
  BY <1>3 DEF OneEdit, SameBut
<1>7. Valid(x) => Valid(y)
  BY <1>2, <1>3 DEF Valid
<1> QED BY <1>1, <1>4, <1>5, <1>6, <1>7 DEF Edits, f

LEMMA DeviceRemoved ==
  ASSUME IsDoc(doc), NEW d \in Placed(doc)
  PROVE  Edits(doc, WithoutDevice(d))
<1> DEFINE f == [e \in Placed(doc) \ {d} |-> doc.devices[e]]
           L == {l \in doc.links : \A e \in l.ends : e[1] # d}
           y == [devices |-> f, links |-> L, group |-> doc.group]
<1>1. WithoutDevice(d) = y
  <2>1. WithoutDevice(d) = [doc EXCEPT !.devices = f, !.links = L]
    BY DEF WithoutDevice
  <2> HIDE DEF f, L
  <2> QED BY <2>1, Rebuilt
<1>2. /\ y.devices = f /\ y.links = L /\ y.group = doc.group
      /\ Placed(y) = Placed(doc) \ {d} /\ f \in [Placed(doc) \ {d} -> DeviceState]
      /\ \A e \in Placed(y) : f[e] = doc.devices[e]
  BY DEF Placed, IsDoc
<1>3. IsDoc(y)
  BY <1>2 DEF IsDoc
<1> HIDE DEF y, f
<1>4. Kept(doc, y)
  BY <1>2 DEF Kept
<1>5. OneEdit(doc, y)
  <2>1. SameBut({d}, doc, y) /\ d \in Devices
    BY <1>2 DEF SameBut, IsDoc
  <2> QED BY <1>2, <2>1 DEF OneEdit
<1>6. Valid(doc) => Valid(y)
  BY <1>2 DEF Valid
<1> QED BY <1>1, <1>3, <1>4, <1>5, <1>6 DEF Edits

LEMMA LinkRemoved ==
  ASSUME NEW x, IsDoc(x), NEW l
  PROVE  Edits(x, [x EXCEPT !.links = @ \ {l}])
<1> DEFINE L == x.links \ {l}
           y == [x EXCEPT !.links = L]
<1>1. y = [x EXCEPT !.links = @ \ {l}]
  BY DEF IsDoc
<1>2. L \in SUBSET Cable /\ Cardinality(x.links \ L) <= 1 /\ Cardinality(L \ x.links) <= 1
  <2>1. x.links \ L \subseteq {l} /\ L \ x.links = {}
    OBVIOUS
  <2> QED BY <2>1, AtMostOne DEF IsDoc
<1> HIDE DEF L
<1>3. /\ IsDoc(y) /\ OneEdit(x, y) /\ Kept(x, y)
      /\ Placed(y) = Placed(x) /\ y.devices = x.devices /\ y.links = L
      /\ y.group = x.group
  BY <1>2, OnlyLinks
<1> HIDE DEF y
<1>4. Valid(x) => Valid(y)
  BY <1>3 DEF Valid, L
<1> QED BY <1>1, <1>3, <1>4 DEF Edits

\* A cable that is plugged in: its ends may have been taken meanwhile.
LEMMA LinkAdded ==
  ASSUME NEW x, IsDoc(x), NEW l \in Cable
  PROVE  LET y == [x EXCEPT !.links = @ \cup {l}]
         IN  /\ IsDoc(y) /\ OneEdit(x, y) /\ Kept(x, y) /\ Placed(y) = Placed(x)
             /\ Valid(x) /\ (\A e \in l.ends : e[1] \in Placed(x) /\ ~Occupied(x, e))
                  => Valid(y)
<1> DEFINE L == x.links \cup {l}
           y == [x EXCEPT !.links = L]
<1>1. y = [x EXCEPT !.links = @ \cup {l}]
  BY DEF IsDoc
<1>2. L \in SUBSET Cable /\ Cardinality(x.links \ L) <= 1 /\ Cardinality(L \ x.links) <= 1
  <2>1. L \ x.links \subseteq {l} /\ x.links \ L = {}
    OBVIOUS
  <2> QED BY <2>1, AtMostOne DEF IsDoc
<1> HIDE DEF L
<1>3. /\ IsDoc(y) /\ OneEdit(x, y) /\ Kept(x, y)
      /\ Placed(y) = Placed(x) /\ y.devices = x.devices /\ y.links = L
      /\ y.group = x.group
  BY <1>2, OnlyLinks
<1> HIDE DEF y
<1>4. ASSUME Valid(x), \A e \in l.ends : e[1] \in Placed(x) /\ ~Occupied(x, e)
      PROVE  Valid(y)
  <2>1. \A m \in x.links : m.ends \cap l.ends = {}
    BY <1>4 DEF Occupied, Ends
  <2> QED BY <1>3, <1>4, <2>1 DEF Valid, L
<1> QED BY <1>1, <1>3, <1>4

LEMMA LinkRewired ==
  ASSUME NEW x, IsDoc(x), NEW l \in x.links, NEW e \in l.ends, e[1] \in Placed(x),
         NEW p \in FreePorts(x, e[1])
  PROVE  Edits(x, [x EXCEPT !.links = (@ \ {l}) \cup
                     {[l EXCEPT !.ends = (@ \ {e}) \cup {<<e[1], p>>}]}])
<1> DEFINE ends == (l.ends \ {e}) \cup {<<e[1], p>>}
           new  == [l EXCEPT !.ends = ends]
           L    == (x.links \ {l}) \cup {new}
           y    == [x EXCEPT !.links = L]
<1>1. l \in Cable /\ p \in Ports /\ ~Occupied(x, <<e[1], p>>) /\ e[1] \in Devices
  BY DEF IsDoc, FreePorts
<1>2. new \in Cable /\ new.ends = ends
  BY <1>1 DEF Cable
<1>3. y = [x EXCEPT !.links = (@ \ {l}) \cup
             {[l EXCEPT !.ends = (@ \ {e}) \cup {<<e[1], p>>}]}]
  BY <1>1 DEF IsDoc, Cable
<1> HIDE DEF ends, new
<1>4. L \in SUBSET Cable /\ Cardinality(x.links \ L) <= 1 /\ Cardinality(L \ x.links) <= 1
  <2>1. L \ x.links \subseteq {new} /\ x.links \ L \subseteq {l}
    OBVIOUS
  <2> QED BY <1>2, <2>1, AtMostOne DEF IsDoc
<1> HIDE DEF L
<1>5. /\ IsDoc(y) /\ OneEdit(x, y) /\ Kept(x, y)
      /\ Placed(y) = Placed(x) /\ y.devices = x.devices /\ y.links = L
      /\ y.group = x.group
  BY <1>4, OnlyLinks
<1> HIDE DEF y
<1>6. ASSUME Valid(x) PROVE Valid(y)
  <2>1. \A m \in x.links \ {l} : m.ends \cap ends = {}
    BY <1>1, <1>6 DEF Valid, Occupied, Ends, ends
  <2>2. \A f \in ends : f[1] \in Placed(x)
    BY <1>6 DEF Valid, ends
  <2> QED BY <1>2, <1>5, <1>6, <2>1, <2>2 DEF Valid, L
<1> QED BY <1>3, <1>5, <1>6 DEF Edits

LEMMA GroupAdded ==
  ASSUME NEW x, IsDoc(x), ~x.group
  PROVE  Edits(x, [x EXCEPT !.group = TRUE])
<1> DEFINE y == [devices |-> x.devices, links |-> x.links, group |-> TRUE]
<1>1. [x EXCEPT !.group = TRUE] = y
  BY Rebuilt
<1>2. /\ y.devices = x.devices /\ y.links = x.links /\ y.group = TRUE
      /\ Placed(y) = Placed(x)
  BY DEF Placed
<1>3. IsDoc(y)
  BY <1>2 DEF IsDoc
<1> HIDE DEF y
<1>4. OneEdit(x, y) /\ Kept(x, y) /\ (Valid(x) => Valid(y))
  BY <1>2 DEF OneEdit, Kept, Valid, Changed
<1> QED BY <1>1, <1>3, <1>4 DEF Edits

LEMMA GroupRemoved ==
  ASSUME NEW x, IsDoc(x), x.group
  PROVE  Edits(x, [x EXCEPT !.group = FALSE, !.devices = [d \in Placed(x) |->
                     [x.devices[d] EXCEPT !.grouped = FALSE]]])
<1> DEFINE f == [d \in Placed(x) |-> [x.devices[d] EXCEPT !.grouped = FALSE]]
           y == [devices |-> f, links |-> x.links, group |-> FALSE]
<1>1. [x EXCEPT !.group = FALSE, !.devices = f] = y
  <2> DEFINE z == [x EXCEPT !.group = FALSE, !.devices = f]
  <2> HIDE DEF f
  <2>1. PICK D, K, h : x = [devices |-> D, links |-> K, group |-> h]
    BY DEF IsDoc
  <2>2. /\ z = [i \in {"devices", "links", "group"} |-> z[i]]
        /\ y = [i \in {"devices", "links", "group"} |-> y[i]]
    BY <2>1
  <2>3. z.devices = y.devices /\ z.links = y.links /\ z.group = y.group
    BY <2>1
  <2> HIDE DEF z, y
  <2>4. z = y
    BY <2>2, <2>3, ByFields
  <2> QED BY <2>4 DEF z
<1>2. \A d \in Placed(x) : /\ f[d] \in DeviceState /\ f[d].grouped = FALSE
                           /\ f[d].look = x.devices[d].look
                           /\ f[d].config = x.devices[d].config
  BY DEF IsDoc, DeviceState
<1>3. /\ y.devices = f /\ y.links = x.links /\ y.group = FALSE
      /\ Placed(y) = Placed(x) /\ f \in [Placed(x) -> DeviceState]
  BY <1>2 DEF Placed
<1>4. IsDoc(y)
  BY <1>3 DEF IsDoc
<1> HIDE DEF y, f
<1>5. OneEdit(x, y)
  <2>1. \A d \in Placed(x) : Changed(x.devices[d], y.devices[d]) \subseteq {"grouped"}
    BY <1>2, <1>3 DEF Changed
  <2> QED BY <1>3, <2>1 DEF OneEdit
<1>6. Kept(x, y) /\ (Valid(x) => Valid(y))
  BY <1>2, <1>3 DEF Kept, Valid
<1> QED BY <1>1, <1>4, <1>5, <1>6 DEF Edits, f

-----------------------------------------------------------------------------
(* The undo history *)

\* One entry of the history and the next; L is late.
Step(L, a, b) ==
  OneEdit(a, b) /\ (L \cap {"window", "command"} = {} => Grows(a, b))

\* The history p, b, f: f is a stack, its top next.
Chain(L, p, b, f) ==
  /\ \A i \in 1..Len(p) - 1 : Step(L, p[i], p[i + 1])
  /\ p # <<>> => Step(L, Top(p), b)
  /\ f # <<>> => Step(L, b, Top(f))
  /\ \A i \in 1..Len(f) - 1 : Step(L, f[i + 1], f[i])

LEMMA StepLater ==
  ASSUME NEW L, NEW M, L \subseteq M, NEW a, NEW b, Step(L, a, b)
  PROVE  Step(M, a, b)
BY DEF Step

LEMMA ChainLater ==
  ASSUME NEW L, NEW M, L \subseteq M, NEW p, NEW b, NEW f, Chain(L, p, b, f)
  PROVE  Chain(M, p, b, f)
BY StepLater DEF Chain

LEMMA ShortChain == ASSUME NEW L, NEW b PROVE Chain(L, <<>>, b, <<>>)
BY DEF Chain

LEMMA KeptPart ==
  ASSUME NEW S, NEW p \in Seq(S), NEW n \in Nat
  PROVE  /\ Keep(p, n) \in Seq(S)
         /\ \E o \in Nat : /\ Len(p) = Len(Keep(p, n)) + o
                           /\ \A i \in 1..Len(Keep(p, n)) : Keep(p, n)[i] = p[i + o]
<1>1. CASE Len(p) > n
  <2>1. Keep(p, n) = SubSeq(p, Len(p) - n + 1, Len(p))
    BY <1>1 DEF Keep
  <2>2. PICK o \in Nat : o = Len(p) - n
    BY <1>1
  <2>3. /\ Keep(p, n) = SubSeq(p, o + 1, o + n) /\ o + n = Len(p)
        /\ o + 1 \in Nat
    BY <2>1, <2>2
  <2>4. /\ \A i \in 1..n : p[o + i] \in S
        /\ o + 1 \in 1..Len(p) + 1 /\ o + n \in 0..Len(p)
    BY <1>1, <2>2, <2>3
  <2>5. Keep(p, n) \in Seq(S) /\ Len(Keep(p, n)) = n
    BY <2>3, <2>4
  <2>6. \A i \in 1..n : Keep(p, n)[i] = p[i + o]
    BY <2>3, <2>4
  <2>7. Len(p) = n + o
    BY <2>3
  <2> QED BY <2>2, <2>5, <2>6, <2>7
<1>2. CASE ~(Len(p) > n)
  <2>1. Keep(p, n) = p /\ 0 \in Nat
    BY <1>2 DEF Keep
  <2> QED BY <2>1
<1> QED BY <1>1, <1>2

\* What a push leaves in the history q, that was p: at the top the document b.
IsPushed(q, p, b) ==
  /\ q # <<>> /\ Top(q) = b
  /\ \A i \in 1..Len(q) : q[i] = b \/ \E j \in 1..Len(p) : q[i] = p[j]
  /\ \A i \in 1..Len(q) - 1 :
       \/ q[i + 1] = b /\ p # <<>> /\ q[i] = Top(p)
       \/ \E j \in 1..Len(p) - 1 : q[i] = p[j] /\ q[i + 1] = p[j + 1]

LEMMA PushedPart ==
  ASSUME NEW S, NEW p \in Seq(S), NEW n \in Nat, NEW b \in S,
         NEW q, q = Append(Keep(p, n), b)
  PROVE  q \in Seq(S) /\ IsPushed(q, p, b)
<1> DEFINE k == Keep(p, n)
<1>1. k \in Seq(S)
  BY KeptPart
<1>2. PICK o \in Nat : Len(p) = Len(k) + o /\ \A i \in 1..Len(k) : k[i] = p[i + o]
  BY KeptPart
<1> HIDE DEF k
<1>3. /\ q \in Seq(S) /\ Len(q) = Len(k) + 1 /\ q[Len(k) + 1] = b
      /\ \A i \in 1..Len(k) : q[i] = p[i + o]
  BY <1>1, <1>2 DEF k
<1>4. q # <<>> /\ Top(q) = b
  BY <1>1, <1>3 DEF Top
<1>5. ASSUME NEW i \in 1..Len(q) PROVE q[i] = b \/ \E j \in 1..Len(p) : q[i] = p[j]
  <2>1. CASE i = Len(k) + 1
    BY <1>3, <2>1
  <2>2. CASE i # Len(k) + 1
    <3>1. i + o \in 1..Len(p) /\ q[i] = p[i + o]
      BY <1>1, <1>2, <1>3, <2>2
    <3> QED BY <3>1
  <2> QED BY <2>1, <2>2
<1>6. ASSUME NEW i \in 1..Len(q) - 1
      PROVE  \/ q[i + 1] = b /\ p # <<>> /\ q[i] = Top(p)
             \/ \E j \in 1..Len(p) - 1 : q[i] = p[j] /\ q[i + 1] = p[j + 1]
  <2>1. CASE i = Len(k)
    BY <1>1, <1>2, <1>3, <2>1 DEF Top
  <2>2. CASE i # Len(k)
    <3>1. /\ i \in 1..Len(k) /\ i + 1 \in 1..Len(k)
          /\ i + o \in 1..Len(p) - 1 /\ (i + 1) + o = (i + o) + 1
      <4>1. Len(k) \in Nat /\ Len(p) = Len(k) + o /\ Len(q) = Len(k) + 1
        BY <1>1, <1>2, <1>3
      <4> QED BY <2>2, <4>1
    <3>2. q[i] = p[i + o] /\ q[i + 1] = p[(i + 1) + o]
      BY <1>3, <3>1
    <3> QED BY <3>1, <3>2
  <2> QED BY <2>1, <2>2
<1> QED BY <1>3, <1>4, <1>5, <1>6 DEF IsPushed

LEMMA PopPart ==
  ASSUME NEW S, NEW p \in Seq(S), p # <<>>
  PROVE  /\ Pop(p) \in Seq(S) /\ Len(Pop(p)) = Len(p) - 1 /\ Top(p) \in S
         /\ \A i \in 1..Len(p) - 1 : Pop(p)[i] = p[i]
         /\ Len(p) \in 1..Len(p) /\ Top(p) = p[Len(p)]
<1>1. Len(p) \in Nat \ {0} /\ Pop(p) = SubSeq(p, 1, Len(p) - 1) /\ Top(p) = p[Len(p)]
  BY DEF Pop, Top
<1>2. PICK n \in Nat : n = Len(p) - 1
  BY <1>1
<1>3. Pop(p) = SubSeq(p, 1, n) /\ n \in 0..Len(p)
  BY <1>1, <1>2
<1>4. Pop(p) \in Seq(S) /\ Len(Pop(p)) = n /\ \A i \in 1..n : Pop(p)[i] = p[i]
  BY <1>3
<1> QED BY <1>1, <1>2, <1>4

LEMMA AppendPart ==
  ASSUME NEW S, NEW p \in Seq(S), NEW b \in S
  PROVE  LET q == Append(p, b)
         IN  /\ q \in Seq(S) /\ q # <<>> /\ Len(q) = Len(p) + 1 /\ Top(q) = b
             /\ q[Len(p) + 1] = b /\ \A i \in 1..Len(p) : q[i] = p[i]
BY DEF Top

LEMMA ChainPushed ==
  ASSUME NEW S, NEW p \in Seq(S), NEW n \in Nat, NEW b \in S, NEW f, NEW y, NEW L,
         Chain(L, p, b, f), Step(L, b, y), NEW q, q = Append(Keep(p, n), b)
  PROVE  Chain(L, q, y, <<>>)
<1>1. q \in Seq(S) /\ IsPushed(q, p, b)
  BY PushedPart
<1>2. \A i \in 1..Len(q) - 1 : Step(L, q[i], q[i + 1])
  BY <1>1 DEF Chain, IsPushed
<1> QED BY <1>1, <1>2 DEF Chain, IsPushed

LEMMA ChainBack ==
  ASSUME NEW S, NEW p \in Seq(S), NEW f \in Seq(S), NEW b \in S, NEW L,
         p # <<>>, Chain(L, p, b, f)
  PROVE  Chain(L, Pop(p), Top(p), Append(f, b))
<1> DEFINE q == Pop(p)
           g == Append(f, b)
<1>1. /\ q \in Seq(S) /\ Len(q) = Len(p) - 1 /\ \A i \in 1..Len(p) - 1 : q[i] = p[i]
      /\ Top(p) = p[Len(p)]
  BY PopPart
<1>2. /\ g \in Seq(S) /\ g # <<>> /\ Len(g) = Len(f) + 1 /\ Top(g) = b
      /\ g[Len(f) + 1] = b /\ \A i \in 1..Len(f) : g[i] = f[i]
  BY AppendPart
<1> HIDE DEF q, g
<1>3. \A i \in 1..Len(q) - 1 : Step(L, q[i], q[i + 1])
  BY <1>1 DEF Chain
<1>4. q # <<>> => Step(L, Top(q), Top(p))
  <2> SUFFICES ASSUME q # <<>> PROVE Step(L, Top(q), Top(p))
    OBVIOUS
  <2>1. /\ Len(q) \in 1..Len(p) - 1 /\ Top(q) = p[Len(q)] /\ Top(p) = p[Len(q) + 1]
    BY <1>1 DEF Top
  <2> QED BY <2>1 DEF Chain
<1>5. \A i \in 1..Len(g) - 1 : Step(L, g[i + 1], g[i])
  <2> SUFFICES ASSUME NEW i \in 1..Len(g) - 1 PROVE Step(L, g[i + 1], g[i])
    OBVIOUS
  <2>1. CASE i = Len(f)
    <3>1. f # <<>> /\ g[i + 1] = b /\ g[i] = Top(f)
      BY <1>2, <2>1 DEF Top
    <3> QED BY <3>1 DEF Chain
  <2>2. CASE i # Len(f)
    <3>1. i \in 1..Len(f) - 1 /\ g[i] = f[i] /\ g[i + 1] = f[i + 1]
      BY <1>2, <2>2
    <3> QED BY <3>1 DEF Chain
  <2> QED BY <2>1, <2>2
<1> QED BY <1>2, <1>3, <1>4, <1>5 DEF Chain, q, g

LEMMA ChainForth ==
  ASSUME NEW S, NEW p \in Seq(S), NEW f \in Seq(S), NEW b \in S, NEW L,
         f # <<>>, Chain(L, p, b, f)
  PROVE  Chain(L, Append(p, b), Top(f), Pop(f))
<1> DEFINE q == Pop(f)
           g == Append(p, b)
<1>1. /\ q \in Seq(S) /\ Len(q) = Len(f) - 1 /\ \A i \in 1..Len(f) - 1 : q[i] = f[i]
      /\ Top(f) = f[Len(f)]
  BY PopPart
<1>2. /\ g \in Seq(S) /\ g # <<>> /\ Len(g) = Len(p) + 1 /\ Top(g) = b
      /\ g[Len(p) + 1] = b /\ \A i \in 1..Len(p) : g[i] = p[i]
  BY AppendPart
<1> HIDE DEF q, g
<1>3. \A i \in 1..Len(q) - 1 : Step(L, q[i + 1], q[i])
  BY <1>1 DEF Chain
<1>4. q # <<>> => Step(L, Top(f), Top(q))
  <2> SUFFICES ASSUME q # <<>> PROVE Step(L, Top(f), Top(q))
    OBVIOUS
  <2>1. /\ Len(q) \in 1..Len(f) - 1 /\ Top(q) = f[Len(q)] /\ Top(f) = f[Len(q) + 1]
    BY <1>1 DEF Top
  <2> QED BY <2>1 DEF Chain
<1>5. \A i \in 1..Len(g) - 1 : Step(L, g[i], g[i + 1])
  <2> SUFFICES ASSUME NEW i \in 1..Len(g) - 1 PROVE Step(L, g[i], g[i + 1])
    OBVIOUS
  <2>1. CASE i = Len(p)
    <3>1. p # <<>> /\ g[i + 1] = b /\ g[i] = Top(p)
      BY <1>2, <2>1 DEF Top
    <3> QED BY <3>1 DEF Chain
  <2>2. CASE i # Len(p)
    <3>1. i \in 1..Len(p) - 1 /\ g[i] = p[i] /\ g[i + 1] = p[i + 1]
      BY <1>2, <2>2
    <3> QED BY <3>1 DEF Chain
  <2> QED BY <2>1, <2>2
<1> QED BY <1>2, <1>3, <1>4, <1>5 DEF Chain, q, g

-----------------------------------------------------------------------------
(* The invariant of the editor: documents, history, drag *)

TopologyDocument == UNION {DocumentsOver(D) : D \in SUBSET Devices}
LateKinds == {"drag", "save", "window", "command", "cable"}

LEMMA InDocument ==
  ASSUME NEW x
  PROVE  /\ x \in TopologyDocument <=> IsDoc(x)
         /\ x \in TopologyDocument <=> IsDocument(x)
<1>1. x \in TopologyDocument <=> IsDocument(x)
  BY DEF TopologyDocument, IsDocument
<1>2. ASSUME IsDocument(x) PROVE IsDoc(x)
  <2>1. PICK D \in SUBSET Devices : x \in DocumentsOver(D)
    BY <1>2 DEF IsDocument
  <2>2. /\ x = [devices |-> x.devices, links |-> x.links, group |-> x.group]
        /\ x.devices \in [D -> DeviceState]
        /\ x.links \subseteq Cable /\ x.group \in BOOLEAN
    BY <2>1 DEF DocumentsOver
  <2>3. Placed(x) = D
    BY <2>2 DEF Placed
  <2> QED BY <2>2, <2>3 DEF IsDoc
<1>3. ASSUME IsDoc(x) PROVE IsDocument(x)
  <2>1. x \in DocumentsOver(Placed(x))
    BY <1>3 DEF IsDoc, DocumentsOver
  <2> QED BY <1>3, <2>1 DEF IsDoc, IsDocument
<1> QED BY <1>1, <1>2, <1>3

LEMMA NoneIsNot == None \notin TopologyDocument
BY InDocument, NoneIsNoDocument

\* From a to b the look of at most one device changes.
OnlyALook(a, b) ==
  /\ Placed(a) = Placed(b) /\ a.links = b.links /\ a.group = b.group
  /\ \A d \in Placed(a) : /\ a.devices[d].config = b.devices[d].config
                          /\ a.devices[d].grouped = b.devices[d].grouped
  /\ \E d \in Devices : \A e \in Placed(a) \ {d} : a.devices[e].look = b.devices[e].look

EditorTypes ==
  /\ doc \in TopologyDocument
  /\ past \in Seq(TopologyDocument) /\ future \in Seq(TopologyDocument)
  /\ origin \in TopologyDocument \cup {None}
  /\ dirty \in BOOLEAN /\ late \subseteq LateKinds

Base == IF origin = None THEN doc ELSE origin

HistoryInv ==
  "drag" \notin late =>
     /\ Chain(late, past, Base, future)
     /\ origin # None => OnlyALook(origin, doc)

ValidInv ==
  "cable" \notin late =>
     /\ Valid(doc) /\ (origin # None => Valid(origin))
     /\ \A i \in 1..Len(past) : Valid(past[i])
     /\ \A i \in 1..Len(future) : Valid(future[i])

EditorInv == EditorTypes /\ HistoryInv /\ ValidInv

\* What is late grows, and with it a drag that is overtaken.
Later == late \subseteq late' /\ late' \subseteq LateKinds /\ (origin # None => "drag" \in late')

LEMMA OneLook ==
  ASSUME NEW a, NEW b, IsDoc(a), IsDoc(b), OnlyALook(a, b)
  PROVE  OneEdit(a, b) /\ Kept(a, b)
<1>1. Kept(a, b)
  BY DEF OnlyALook, Kept
<1>2. PICK d \in Devices : \A e \in Placed(a) \ {d} : a.devices[e].look = b.devices[e].look
  BY DEF OnlyALook
<1>3. \A e \in Placed(a) \ {d} : a.devices[e] = b.devices[e]
  BY <1>2 DEF OnlyALook, IsDoc, DeviceState
<1>4. CASE d \in Placed(a) /\ a.devices[d].look # b.devices[d].look
  <2>1. a.devices[d] \in DeviceState /\ b.devices[d] \in DeviceState
    BY <1>4 DEF OnlyALook, IsDoc
  <2>2. Changed(a.devices[d], b.devices[d]) = {"look"}
    BY <1>4, <2>1 DEF OnlyALook, Changed
  <2>3. Cardinality(Changed(a.devices[d], b.devices[d])) = 1
    BY <2>2, FS_Singleton
  <2>4. SameBut({d}, a, b)
    BY <1>3 DEF SameBut, OnlyALook
  <2> QED BY <1>1, <2>3, <2>4 DEF OnlyALook, OneEdit
<1>5. CASE ~(d \in Placed(a) /\ a.devices[d].look # b.devices[d].look)
  <2>1. \A e \in Placed(a) : a.devices[e] = b.devices[e]
    BY <1>2, <1>5 DEF OnlyALook, IsDoc, DeviceState
  <2>2. a.devices = b.devices
    BY <2>1 DEF OnlyALook, IsDoc
  <2>3. a = b
    BY <2>2 DEF OnlyALook, IsDoc
  <2> QED BY <1>1, <2>3 DEF OneEdit
<1> QED BY <1>4, <1>5

LEMMA Committed ==
  ASSUME EditorInv, Later, IsDoc(doc'), OneEdit(doc, doc'),
         late' \cap {"window", "command"} = {} => Grows(doc, doc'),
         "cable" \notin late' /\ Valid(doc) => Valid(doc'),
         past' = Pushed(doc), future' = <<>>, dirty' = TRUE, origin' = origin
  PROVE  EditorInv'
<1>1. HistoryLimit - 1 \in Nat
  BY EditorAssumption
<1>2. past' \in Seq(TopologyDocument) /\ IsPushed(past', past, doc)
  BY <1>1, PushedPart DEF EditorInv, EditorTypes, Pushed
<1>3. EditorTypes'
  BY <1>2, InDocument DEF EditorInv, EditorTypes, Later
<1>4. HistoryInv'
  <2> SUFFICES ASSUME "drag" \notin late'
               PROVE  Chain(late', past', doc', <<>>) /\ origin' = None
    BY DEF HistoryInv, Base
  <2>1. origin = None /\ "drag" \notin late
    BY DEF Later
  <2>2. Chain(late, past, doc, future)
    BY <2>1 DEF EditorInv, HistoryInv, Base
  <2>3. Chain(late', past, doc, future)
    BY <2>2, ChainLater DEF Later
  <2>4. Step(late', doc, doc')
    BY DEF Step
  <2>5. Chain(late', past', doc', <<>>)
    BY <1>1, <2>3, <2>4, ChainPushed DEF EditorInv, EditorTypes, Pushed
  <2> QED BY <2>1, <2>5
<1>5. ValidInv'
  <2> SUFFICES ASSUME "cable" \notin late' PROVE ValidInv'
    BY DEF ValidInv
  <2>1. "cable" \notin late /\ Valid(doc')
    BY DEF Later, EditorInv, ValidInv
  <2>2. \A i \in 1..Len(past') : Valid(past'[i])
    BY <1>2, <2>1 DEF IsPushed, EditorInv, ValidInv
  <2> QED BY <2>1, <2>2 DEF EditorInv, ValidInv
<1> QED BY <1>3, <1>4, <1>5 DEF EditorInv

LEMMA Undone ==
  ASSUME EditorInv, Later, past # <<>>, doc' = Top(past), past' = Pop(past),
         future' = Append(future, doc), dirty' = TRUE, origin' = origin
  PROVE  EditorInv'
<1> DEFINE S == TopologyDocument
<1>1. /\ past' \in Seq(S) /\ Len(past') = Len(past) - 1 /\ doc' \in S
      /\ \A i \in 1..Len(past) - 1 : past'[i] = past[i]
      /\ Len(past) \in 1..Len(past) /\ doc' = past[Len(past)]
  BY PopPart DEF EditorInv, EditorTypes
<1>2. /\ future' \in Seq(S) /\ Len(future') = Len(future) + 1
      /\ future'[Len(future) + 1] = doc /\ \A i \in 1..Len(future) : future'[i] = future[i]
  BY AppendPart DEF EditorInv, EditorTypes
<1>3. EditorTypes'
  BY <1>1, <1>2 DEF EditorInv, EditorTypes, Later
<1>4. HistoryInv'
  <2> SUFFICES ASSUME "drag" \notin late'
               PROVE  Chain(late', past', doc', future') /\ origin' = None
    BY DEF HistoryInv, Base
  <2>1. origin = None /\ "drag" \notin late
    BY DEF Later
  <2>2. Chain(late, past, doc, future)
    BY <2>1 DEF EditorInv, HistoryInv, Base
  <2>3. Chain(late', past, doc, future)
    BY <2>2, ChainLater DEF Later
  <2>4. Chain(late', Pop(past), Top(past), Append(future, doc))
    BY <2>3, ChainBack DEF EditorInv, EditorTypes
  <2> QED BY <2>1, <2>4
<1>5. ValidInv'
  <2> SUFFICES ASSUME "cable" \notin late' PROVE ValidInv'
    BY DEF ValidInv
  <2>1. "cable" \notin late
    BY DEF Later
  <2>2. Valid(doc') /\ \A i \in 1..Len(past') : Valid(past'[i])
    BY <1>1, <2>1 DEF EditorInv, ValidInv, EditorTypes
  <2>3. \A i \in 1..Len(future') : Valid(future'[i])
    BY <1>2, <2>1 DEF EditorInv, ValidInv, EditorTypes
  <2> QED BY <2>1, <2>2, <2>3 DEF EditorInv, ValidInv
<1> QED BY <1>3, <1>4, <1>5 DEF EditorInv

LEMMA Redone ==
  ASSUME EditorInv, Later, future # <<>>, doc' = Top(future), future' = Pop(future),
         past' = Append(past, doc), dirty' = TRUE, origin' = origin
  PROVE  EditorInv'
<1> DEFINE S == TopologyDocument
<1>1. /\ future' \in Seq(S) /\ Len(future') = Len(future) - 1 /\ doc' \in S
      /\ \A i \in 1..Len(future) - 1 : future'[i] = future[i]
      /\ Len(future) \in 1..Len(future) /\ doc' = future[Len(future)]
  BY PopPart DEF EditorInv, EditorTypes
<1>2. /\ past' \in Seq(S) /\ Len(past') = Len(past) + 1
      /\ past'[Len(past) + 1] = doc /\ \A i \in 1..Len(past) : past'[i] = past[i]
  BY AppendPart DEF EditorInv, EditorTypes
<1>3. EditorTypes'
  BY <1>1, <1>2 DEF EditorInv, EditorTypes, Later
<1>4. HistoryInv'
  <2> SUFFICES ASSUME "drag" \notin late'
               PROVE  Chain(late', past', doc', future') /\ origin' = None
    BY DEF HistoryInv, Base
  <2>1. origin = None /\ "drag" \notin late
    BY DEF Later
  <2>2. Chain(late, past, doc, future)
    BY <2>1 DEF EditorInv, HistoryInv, Base
  <2>3. Chain(late', past, doc, future)
    BY <2>2, ChainLater DEF Later
  <2>4. Chain(late', Append(past, doc), Top(future), Pop(future))
    BY <2>3, ChainForth DEF EditorInv, EditorTypes
  <2> QED BY <2>1, <2>4
<1>5. ValidInv'
  <2> SUFFICES ASSUME "cable" \notin late' PROVE ValidInv'
    BY DEF ValidInv
  <2>1. "cable" \notin late
    BY DEF Later
  <2>2. Valid(doc') /\ \A i \in 1..Len(future') : Valid(future'[i])
    BY <1>1, <2>1 DEF EditorInv, ValidInv, EditorTypes
  <2>3. \A i \in 1..Len(past') : Valid(past'[i])
    BY <1>2, <2>1 DEF EditorInv, ValidInv, EditorTypes
  <2> QED BY <2>1, <2>2, <2>3 DEF EditorInv, ValidInv
<1> QED BY <1>3, <1>4, <1>5 DEF EditorInv

\* Another document on the page, with a history of its own.
LEMMA Replaced ==
  ASSUME late' \subseteq LateKinds, IsDoc(doc'), Valid(doc'), past' = <<>>, future' = <<>>,
         dirty' \in BOOLEAN, origin' = None
  PROVE  EditorInv'
<1>1. EditorTypes'
  BY InDocument DEF EditorTypes
<1>2. HistoryInv'
  BY ShortChain DEF HistoryInv, Base
<1>3. ValidInv'
  BY DEF ValidInv
<1> QED BY <1>1, <1>2, <1>3 DEF EditorInv

LEMMA Dragged ==
  ASSUME EditorInv, NEW d \in Devices, Drag(d), late' \subseteq LateKinds
  PROVE  EditorInv' /\ Kept(doc, doc')
<1> DEFINE r == [doc.devices[d] EXCEPT !.look = 1 - @]
<1>1. /\ IsDoc(doc) /\ d \in Placed(doc) /\ doc.devices[d] \in DeviceState
      /\ late \subseteq late'
  BY InDocument DEF EditorInv, EditorTypes, Drag, IsDoc
<1>2. /\ r \in DeviceState /\ r.config = doc.devices[d].config
      /\ r.grouped = doc.devices[d].grouped
  BY <1>1 DEF DeviceState
<1> HIDE DEF r
<1>3. doc' = Device(doc, d, r)
  BY DEF Drag, r
<1>4. /\ IsDoc(doc') /\ Placed(doc') = Placed(doc) /\ doc'.links = doc.links
      /\ doc'.group = doc.group
      /\ doc'.devices[d] = r /\ \A e \in Placed(doc) \ {d} : doc'.devices[e] = doc.devices[e]
  BY <1>1, <1>2, <1>3, DeviceChanged
<1>5. Kept(doc, doc')
  BY <1>2, <1>4 DEF Kept
<1>6. EditorTypes'
  BY <1>4, InDocument DEF EditorInv, EditorTypes, Drag
<1>7. Base' = Base /\ origin' # None /\ origin' = Base
  BY NoneIsNot DEF Base, Drag, EditorInv, EditorTypes
<1>8. HistoryInv'
  <2> SUFFICES ASSUME "drag" \notin late'
               PROVE  Chain(late', past, Base, future) /\ OnlyALook(Base, doc')
    BY <1>7 DEF HistoryInv, Drag
  <2>1. Chain(late', past, Base, future)
    BY <1>1, ChainLater DEF EditorInv, HistoryInv
  <2>2. CASE origin = None
    <3>1. OnlyALook(doc, doc')
      BY <1>2, <1>4 DEF OnlyALook
    <3> QED BY <2>1, <2>2, <3>1 DEF Base
  <2>3. CASE origin # None
    <3>1. OnlyALook(origin, doc)
      BY <1>1, <2>3 DEF EditorInv, HistoryInv
    <3>2. \A e \in Placed(doc) \ {d} : origin.devices[e].look = doc.devices[e].look
      BY <2>3 DEF Drag
    <3>3. OnlyALook(origin, doc')
      BY <1>2, <1>4, <3>1, <3>2 DEF OnlyALook
    <3> QED BY <2>1, <2>3, <3>3 DEF Base
  <2> QED BY <2>2, <2>3
<1>9. ValidInv'
  <2> SUFFICES ASSUME "cable" \notin late' PROVE ValidInv'
    BY DEF ValidInv
  <2>1. Valid(doc) /\ Valid(Base)
    BY <1>1 DEF EditorInv, ValidInv, Base
  <2>2. Valid(doc')
    BY <1>2, <1>4, <2>1 DEF Valid
  <2> QED BY <1>1, <1>7, <2>1, <2>2 DEF EditorInv, ValidInv, Drag
<1> QED BY <1>5, <1>6, <1>8, <1>9 DEF EditorInv

LEMMA Dropped ==
  ASSUME EditorInv, Drop
  PROVE  EditorInv'
<1>1. HistoryLimit - 1 \in Nat
  BY EditorAssumption
<1>2. origin \in TopologyDocument /\ origin # None /\ origin' = None /\ doc' = doc
      /\ late' = late /\ past' = Pushed(origin) /\ future' = <<>> /\ dirty' = dirty
  BY DEF EditorInv, EditorTypes, Drop, DragPushes
<1>3. past' \in Seq(TopologyDocument) /\ IsPushed(past', past, origin)
  BY <1>1, <1>2, PushedPart DEF EditorInv, EditorTypes, Pushed
<1>4. EditorTypes'
  BY <1>2, <1>3 DEF EditorInv, EditorTypes
<1>5. HistoryInv'
  <2> SUFFICES ASSUME "drag" \notin late
               PROVE  Chain(late, past', doc, <<>>)
    BY <1>2 DEF HistoryInv, Base
  <2>1. Chain(late, past, origin, future) /\ OnlyALook(origin, doc)
    BY <1>2 DEF EditorInv, HistoryInv, Base
  <2>2. IsDoc(origin) /\ IsDoc(doc)
    BY <1>2, InDocument DEF EditorInv, EditorTypes
  <2>3. OneEdit(origin, doc) /\ Grows(origin, doc)
    BY <2>1, <2>2, OneLook, KeptGrows
  <2>4. Step(late, origin, doc)
    BY <2>3 DEF Step
  <2> QED BY <1>1, <1>2, <2>1, <2>4, ChainPushed DEF EditorInv, EditorTypes, Pushed
<1>6. ValidInv'
  <2> SUFFICES ASSUME "cable" \notin late PROVE ValidInv'
    BY <1>2 DEF ValidInv
  <2>1. \A i \in 1..Len(past') : Valid(past'[i])
    BY <1>2, <1>3 DEF IsPushed, EditorInv, ValidInv
  <2> QED BY <1>2, <2>1 DEF EditorInv, ValidInv
<1> QED BY <1>4, <1>5, <1>6 DEF EditorInv

LEMMA Untouched ==
  ASSUME EditorInv, late \subseteq late', late' \subseteq LateKinds,
         UNCHANGED <<doc, past, future, origin>>, dirty' \in BOOLEAN
  PROVE  EditorInv'
<1>1. EditorTypes'
  BY DEF EditorInv, EditorTypes
<1>2. HistoryInv'
  <2> SUFFICES ASSUME "drag" \notin late' PROVE HistoryInv'
    BY DEF HistoryInv
  <2>1. Chain(late, past, Base, future) /\ (origin # None => OnlyALook(origin, doc))
    BY DEF EditorInv, HistoryInv
  <2>2. Chain(late', past, Base, future)
    BY <2>1, ChainLater
  <2> QED BY <2>1, <2>2 DEF HistoryInv, Base
<1>3. ValidInv'
  BY DEF EditorInv, ValidInv
<1> QED BY <1>1, <1>2, <1>3 DEF EditorInv

-----------------------------------------------------------------------------
(* The configuration window and the console *)

RequestTypes ==
  /\ cables \subseteq Cable
  /\ window \in [dev : Devices \cup {None}, config : SUBSET ConfigEdits]
  /\ command \in [dev : Devices \cup {None}, config : SUBSET ConfigEdits, mounted : BOOLEAN]
  /\ edits \in 0..MaxEdits

\* The window shows what the document holds, and a command in flight knows no
\* less, unless they were overtaken.
WindowInv ==
  /\ window.dev = None => window = Closed
  /\ command.mounted => command.dev # None /\ window.dev = command.dev
  /\ "window" \notin late /\ window.dev \in Placed(doc) =>
       doc.devices[window.dev].config = window.config
  /\ late \cap {"window", "command"} = {} /\ command.dev \in Placed(doc) =>
       doc.devices[command.dev].config \subseteq command.config

RequestInv == RequestTypes /\ WindowInv

LEMMA DevicePlaced ==
  ASSUME NEW x \in TopologyDocument
  PROVE  /\ Placed(x) \subseteq Devices /\ None \notin Placed(x)
         /\ \A d \in Placed(x) : x.devices[d] \in DeviceState
BY InDocument, EditorAssumption DEF IsDoc

LEMMA ConfiguredPart ==
  ASSUME NEW x \in TopologyDocument, NEW d, NEW c \in SUBSET ConfigEdits
  PROVE  LET y == Configured(x, d, c)
         IN  /\ IsDoc(y) /\ OneEdit(x, y) /\ (Valid(x) => Valid(y)) /\ Placed(y) = Placed(x)
             /\ d \in Placed(x) => y.devices[d].config = c
             /\ \A e \in Placed(x) \ {d} : y.devices[e] = x.devices[e]
             /\ (d \in Placed(x) => x.devices[d].config \subseteq c) => Grows(x, y)
<1>1. IsDoc(x)
  BY InDocument
<1>2. CASE d \in Placed(x)
  <2> DEFINE r == [x.devices[d] EXCEPT !.config = c]
  <2>1. /\ x.devices[d] \in DeviceState /\ r \in DeviceState /\ r.config = c
        /\ r.grouped = x.devices[d].grouped /\ r.look = x.devices[d].look
    BY <1>2, DevicePlaced DEF DeviceState
  <2>2. r = x.devices[d] \/ Cardinality(Changed(x.devices[d], r)) = 1
    <3>1. CASE x.devices[d].config = c
      BY <2>1, <3>1 DEF DeviceState
    <3>2. CASE x.devices[d].config # c
      <4> HIDE DEF r
      <4>1. Changed(x.devices[d], r) = {"config"}
        BY <2>1, <3>2 DEF Changed
      <4> QED BY <4>1, FS_Singleton
    <3> QED BY <3>1, <3>2
  <2>3. Configured(x, d, c) = Device(x, d, r)
    BY <1>2 DEF Configured
  <2> HIDE DEF r
  <2>4. /\ IsDoc(Device(x, d, r)) /\ OneEdit(x, Device(x, d, r))
        /\ Valid(x) => Valid(Device(x, d, r))
        /\ x.devices[d].config \subseteq r.config => Grows(x, Device(x, d, r))
    BY <1>1, <1>2, <2>1, <2>2, OneDevice
  <2>5. LET y == Device(x, d, r)
        IN  /\ Placed(y) = Placed(x)
            /\ y.devices[d] = r /\ \A e \in Placed(x) \ {d} : y.devices[e] = x.devices[e]
    BY <1>1, <1>2, <2>1, DeviceChanged
  <2> QED BY <1>2, <2>1, <2>3, <2>4, <2>5
<1>3. CASE d \notin Placed(x)
  <2>1. Configured(x, d, c) = x
    BY <1>3 DEF Configured
  <2> QED BY <1>1, <1>3, <2>1 DEF OneEdit, Grows
<1> QED BY <1>2, <1>3

\* Nothing happens to a configuration, and the window stays as it is.
LEMMA WindowStays ==
  ASSUME RequestInv, late \subseteq late', Kept(doc, doc'),
         window.dev \in Placed(doc') => window.dev \in Placed(doc),
         UNCHANGED <<window, command>>, cables' \subseteq Cable, edits' \in 0..MaxEdits
  PROVE  RequestInv'
<1>1. RequestTypes'
  BY DEF RequestInv, RequestTypes
<1>2. "window" \notin late' /\ window.dev \in Placed(doc') =>
        doc'.devices[window.dev].config = window.config
  BY DEF RequestInv, WindowInv, Kept
<1>3. late' \cap {"window", "command"} = {} /\ command.dev \in Placed(doc') =>
        doc'.devices[command.dev].config \subseteq command.config
  BY DEF RequestInv, WindowInv, Kept
<1> QED BY <1>1, <1>2, <1>3 DEF RequestInv, WindowInv

\* undo and redo.
LEMMA WindowMoves ==
  ASSUME RequestInv, doc' \in TopologyDocument, late' \subseteq LateKinds,
         late \cup LeftBehind(doc') \subseteq late',
         window' = WindowOn(doc'), command' = CommandOn(doc'),
         cables' = cables, edits' \in 0..MaxEdits
  PROVE  RequestInv'
<1>1. None \notin Placed(doc')
  BY DevicePlaced
<1>2. Closed \in [dev : Devices \cup {None}, config : SUBSET ConfigEdits] /\ Closed.dev = None
  BY DEF Closed
<1>3. CASE window.dev \in Placed(doc')
  <2>1. window' = window /\ command' = command
    BY <1>3 DEF WindowOn, CommandOn
  <2>2. "window" \notin late' => doc'.devices[window.dev].config = window.config
    BY <1>3 DEF LeftBehind
  <2>3. late' \cap {"window", "command"} = {} => command.dev = None
    BY DEF LeftBehind
  <2> QED BY <1>1, <2>1, <2>2, <2>3 DEF RequestInv, RequestTypes, WindowInv
<1>4. CASE window.dev \notin Placed(doc')
  <2>1. window' = Closed /\ command' = [command EXCEPT !.mounted = FALSE]
    BY <1>4 DEF WindowOn, CommandOn
  <2>2. /\ command' \in [dev : Devices \cup {None}, config : SUBSET ConfigEdits,
                         mounted : BOOLEAN]
        /\ ~command'.mounted /\ command'.dev = command.dev
    BY <2>1 DEF RequestInv, RequestTypes
  <2>3. late' \cap {"window", "command"} = {} => command.dev = None
    BY DEF LeftBehind
  <2> QED BY <1>1, <1>2, <2>1, <2>2, <2>3 DEF RequestInv, RequestTypes, WindowInv
<1> QED BY <1>3, <1>4

LEMMA WindowOpened ==
  ASSUME RequestInv, EditorTypes, NEW d \in Devices, OpenWindow(d)
  PROVE  RequestInv'
<1>1. /\ window' \in [dev : Devices \cup {None}, config : SUBSET ConfigEdits]
      /\ window'.dev = d /\ window'.config = doc.devices[d].config /\ d # None
  BY DevicePlaced, EditorAssumption DEF OpenWindow, EditorTypes, DeviceState
<1>2. ~command.mounted /\ UNCHANGED <<doc, command, cables, late, edits>>
  BY DEF OpenWindow, RequestInv, WindowInv, Closed, editor, flight
<1> QED BY <1>1, <1>2 DEF RequestInv, RequestTypes, WindowInv

LEMMA WindowClosed ==
  ASSUME RequestInv, EditorTypes, CloseWindow
  PROVE  RequestInv'
<1>1. /\ Closed \in [dev : Devices \cup {None}, config : SUBSET ConfigEdits]
      /\ Closed.dev = None /\ None \notin Placed(doc)
  BY DevicePlaced DEF Closed, EditorTypes
<1>2. /\ command' \in [dev : Devices \cup {None}, config : SUBSET ConfigEdits,
                       mounted : BOOLEAN]
      /\ ~command'.mounted /\ command'.dev = command.dev /\ command'.config = command.config
  BY DEF RequestInv, RequestTypes, CloseWindow
<1>3. window' = Closed /\ UNCHANGED <<doc, cables, late, edits>>
  BY DEF CloseWindow, editor
<1> QED BY <1>1, <1>2, <1>3 DEF RequestInv, RequestTypes, WindowInv

LEMMA CommandSent ==
  ASSUME RequestInv, EditorTypes, NEW e \in ConfigEdits, SendCommand(e)
  PROVE  RequestInv'
<1>1. window.dev # None /\ window \in [dev : Devices \cup {None}, config : SUBSET ConfigEdits]
  BY DEF RequestInv, RequestTypes, WindowInv, SendCommand
<1>2. /\ command' \in [dev : Devices \cup {None}, config : SUBSET ConfigEdits,
                       mounted : BOOLEAN]
      /\ command'.dev = window.dev /\ command'.config = window.config \cup {e}
  BY <1>1 DEF SendCommand
<1>3. UNCHANGED <<doc, window, cables, late, edits>>
  BY DEF SendCommand, editor
<1> QED BY <1>1, <1>2, <1>3 DEF RequestInv, RequestTypes, WindowInv

LEMMA CommandOver ==
  ASSUME RequestInv, doc' \in TopologyDocument, command' = NoCommand,
         UNCHANGED <<doc, window, cables, late, edits>>
  PROVE  RequestInv'
<1>1. /\ NoCommand \in [dev : Devices \cup {None}, config : SUBSET ConfigEdits,
                        mounted : BOOLEAN]
      /\ NoCommand.dev = None /\ ~NoCommand.mounted /\ None \notin Placed(doc')
  BY DevicePlaced DEF NoCommand
<1> QED BY <1>1 DEF RequestInv, RequestTypes, WindowInv

LEMMA AllClosed ==
  ASSUME doc' \in TopologyDocument, window' = Closed, command' = NoCommand,
         cables' = {}, edits' \in 0..MaxEdits
  PROVE  RequestInv'
<1>1. /\ NoCommand \in [dev : Devices \cup {None}, config : SUBSET ConfigEdits,
                        mounted : BOOLEAN]
      /\ NoCommand.dev = None /\ ~NoCommand.mounted /\ None \notin Placed(doc')
  BY DevicePlaced DEF NoCommand
<1>2. /\ Closed \in [dev : Devices \cup {None}, config : SUBSET ConfigEdits]
      /\ Closed.dev = None
  BY DEF Closed
<1> QED BY <1>1, <1>2 DEF RequestInv, RequestTypes, WindowInv

LEMMA PatchKeeps ==
  ASSUME RequestInv, EditorInv, NEW e \in ConfigEdits, Patch(e), late' \subseteq LateKinds
  PROVE  RequestInv' /\ EditorInv'
<1>1. PICK c \in SUBSET ConfigEdits : c = window.config \cup {e}
  BY DEF RequestInv, RequestTypes
<1>2. PICK w \in Devices : w = window.dev
  BY DEF RequestInv, RequestTypes, WindowInv, Patch
<1>3. /\ doc' = Configured(doc, w, c) /\ past' = Pushed(doc) /\ future' = <<>>
      /\ dirty' = TRUE /\ origin' = origin /\ window' = [window EXCEPT !.config = c]
      /\ UNCHANGED <<command, cables>> /\ late \cup Overtakes \subseteq late'
      /\ command.dev = w => "command" \in late'
  BY <1>1, <1>2 DEF Patch, Commit, WindowHolds, flight
<1>4. w # None /\ doc \in TopologyDocument
  BY EditorAssumption DEF EditorInv, EditorTypes
<1>5. /\ IsDoc(doc') /\ OneEdit(doc, doc') /\ (Valid(doc) => Valid(doc'))
      /\ Placed(doc') = Placed(doc)
      /\ w \in Placed(doc) => doc'.devices[w].config = c
      /\ \A d \in Placed(doc) \ {w} : doc'.devices[d] = doc.devices[d]
      /\ (w \in Placed(doc) => doc.devices[w].config \subseteq c) => Grows(doc, doc')
  BY <1>3, <1>4, ConfiguredPart
<1>6. Later
  BY <1>3 DEF Later, Overtakes
<1>7. late' \cap {"window", "command"} = {} => Grows(doc, doc')
  BY <1>1, <1>2, <1>3, <1>5 DEF RequestInv, WindowInv
<1>8. EditorInv'
  BY <1>3, <1>5, <1>6, <1>7, Committed
<1>9. /\ window' \in [dev : Devices \cup {None}, config : SUBSET ConfigEdits]
      /\ window'.dev = w /\ window'.config = c /\ edits' \in 0..MaxEdits
  <2>1. edits' \in 0..MaxEdits
    BY EditorAssumption DEF RequestInv, RequestTypes, Patch, Budget
  <2> QED BY <1>2, <1>3, <2>1 DEF RequestInv, RequestTypes
<1>10. RequestInv'
  BY <1>2, <1>3, <1>4, <1>5, <1>9 DEF RequestInv, RequestTypes, WindowInv
<1> QED BY <1>8, <1>10

LEMMA AnswerKeeps ==
  ASSUME RequestInv, EditorInv, CommandAnswered, late' \subseteq LateKinds
  PROVE  RequestInv' /\ EditorInv'
<1>1. PICK c \in SUBSET ConfigEdits : c = command.config
  BY DEF RequestInv, RequestTypes
<1>2. PICK w \in Devices : w = command.dev
  BY DEF RequestInv, RequestTypes, CommandAnswered
<1>3. /\ doc' = Configured(doc, w, c) /\ past' = Pushed(doc) /\ future' = <<>>
      /\ dirty' = TRUE /\ origin' = origin
      /\ window' = IF command.mounted THEN [window EXCEPT !.config = c] ELSE window
      /\ command' = NoCommand /\ UNCHANGED cables /\ late \cup Overtakes \subseteq late'
      /\ ~command.mounted /\ window.dev = w => "window" \in late'
  BY <1>1, <1>2 DEF CommandAnswered, Commit, WindowHolds
<1>4. w # None /\ doc \in TopologyDocument
  BY EditorAssumption DEF EditorInv, EditorTypes
<1>5. /\ IsDoc(doc') /\ OneEdit(doc, doc') /\ (Valid(doc) => Valid(doc'))
      /\ Placed(doc') = Placed(doc)
      /\ w \in Placed(doc) => doc'.devices[w].config = c
      /\ \A d \in Placed(doc) \ {w} : doc'.devices[d] = doc.devices[d]
      /\ (w \in Placed(doc) => doc.devices[w].config \subseteq c) => Grows(doc, doc')
  BY <1>3, <1>4, ConfiguredPart
<1>6. Later
  BY <1>3 DEF Later, Overtakes
<1>7. late' \cap {"window", "command"} = {} => Grows(doc, doc')
  BY <1>1, <1>2, <1>3, <1>5 DEF RequestInv, WindowInv
<1>8. EditorInv'
  BY <1>3, <1>5, <1>6, <1>7, Committed
<1>9. /\ edits' \in 0..MaxEdits
      /\ NoCommand \in [dev : Devices \cup {None}, config : SUBSET ConfigEdits,
                        mounted : BOOLEAN]
      /\ NoCommand.dev = None /\ ~NoCommand.mounted
  BY EditorAssumption DEF RequestInv, RequestTypes, CommandAnswered, Budget, NoCommand
<1>10. None \notin Placed(doc')
  BY <1>4, <1>5, DevicePlaced
<1>11. RequestInv'
  <2>1. CASE command.mounted
    <3>1. /\ window' \in [dev : Devices \cup {None}, config : SUBSET ConfigEdits]
          /\ window'.dev = w /\ window'.config = c
      BY <1>2, <1>3, <2>1 DEF RequestInv, RequestTypes, WindowInv
    <3> QED BY <1>3, <1>4, <1>5, <1>9, <1>10, <3>1 DEF RequestInv, RequestTypes, WindowInv
  <2>2. CASE ~command.mounted
    BY <1>3, <1>5, <1>9, <1>10, <2>2 DEF RequestInv, RequestTypes, WindowInv
  <2> QED BY <2>1, <2>2
<1> QED BY <1>8, <1>11

-----------------------------------------------------------------------------
(* Saving *)

Request == [doc : TopologyDocument, row : Nat, page : Nat, at : {"sent", "ok", "refused"}]

\* A save: the row it is for, or was given; rows is how many there are.
RequestOK(s, rows) ==
  s.row <= rows /\ (s.page # 0 => s.row = s.page) /\ (s.at = "ok" => s.row # 0)

SaveTypes ==
  /\ stored \in Seq(TopologyDocument) /\ row \in 0..Len(stored) /\ saves \in Seq(Request)
  /\ \A i \in 1..Len(stored) : Valid(stored[i])
  /\ \A i \in 1..Len(saves) : RequestOK(saves[i], Len(stored))

\* One save at a time, of the document that is still on the page.
SaveInv ==
  "save" \notin late =>
     /\ Len(saves) <= 1
     /\ Len(saves) = 1 => /\ saves[1].doc = doc /\ saves[1].page = row
                          /\ saves[1].at = "ok" => stored[saves[1].row] = doc
     /\ ~dirty => doc = IF row = 0 THEN EmptyDoc ELSE stored[row]

SavingInv == SaveTypes /\ SaveInv

LEMMA Joined ==
  ASSUME NEW S, NEW a \in Seq(S), NEW b \in Seq(S)
  PROVE  /\ a \o b \in Seq(S) /\ Len(a \o b) = Len(a) + Len(b)
         /\ \A j \in 1..Len(a) + Len(b) :
              (a \o b)[j] = IF j <= Len(a) THEN a[j] ELSE b[j - Len(a)]
OBVIOUS

LEMMA WithoutPart ==
  ASSUME NEW S, NEW s \in Seq(S), NEW i \in 1..Len(s)
  PROVE  /\ Without(s, i) \in Seq(S) /\ Len(Without(s, i)) = Len(s) - 1
         /\ \A j \in 1..Len(s) - 1 : \E k \in 1..Len(s) : Without(s, i)[j] = s[k]
<1> DEFINE a == SubSeq(s, 1, i - 1)
           b == SubSeq(s, i + 1, Len(s))
<1>1. PICK h \in 0..Len(s) : h = i - 1
  OBVIOUS
<1>2. a = SubSeq(s, 1, h)
  BY <1>1
<1>3. a \in Seq(S) /\ Len(a) = h /\ \A j \in 1..h : a[j] = s[j]
  BY <1>2
<1>4. b \in Seq(S) /\ Len(b) = Len(s) - i /\ \A j \in 1..Len(s) - i : b[j] = s[i + j]
  OBVIOUS
<1> HIDE DEF a, b
<1>5. /\ a \o b \in Seq(S) /\ Len(a \o b) = Len(s) - 1
      /\ \A j \in 1..Len(s) - 1 : (a \o b)[j] = IF j <= h THEN a[j] ELSE b[j - h]
  <2>1. Len(a) + Len(b) = Len(s) - 1
    BY <1>1, <1>3, <1>4
  <2>2. /\ a \o b \in Seq(S) /\ Len(a \o b) = Len(a) + Len(b)
        /\ \A j \in 1..Len(a) + Len(b) :
             (a \o b)[j] = IF j <= Len(a) THEN a[j] ELSE b[j - Len(a)]
    BY <1>3, <1>4, Joined
  <2> QED BY <1>3, <2>1, <2>2
<1>6. ASSUME NEW j \in 1..Len(s) - 1 PROVE \E k \in 1..Len(s) : (a \o b)[j] = s[k]
  <2>1. CASE j <= h
    BY <1>1, <1>3, <1>5, <2>1
  <2>2. CASE ~(j <= h)
    <3>1. j - h \in 1..Len(s) - i /\ (a \o b)[j] = s[i + (j - h)] /\ i + (j - h) \in 1..Len(s)
      BY <1>1, <1>4, <1>5, <2>2
    <3> QED BY <3>1
  <2> QED BY <2>1, <2>2
<1> QED BY <1>5, <1>6 DEF Without, a, b

\* The document changes, or is put aside.
LEMMA SavesOvertaken ==
  ASSUME SavingInv, late \cup (Overtakes \ {"drag"}) \subseteq late', dirty' = TRUE,
         UNCHANGED <<row, stored, saves>>
  PROVE  SavingInv'
<1>1. SaveTypes'
  BY DEF SavingInv, SaveTypes
<1>2. SaveInv'
  <2> SUFFICES ASSUME "save" \notin late' PROVE Len(saves) = 0
    BY DEF SaveInv
  <2>1. saves = <<>>
    BY DEF Overtakes
  <2> QED BY <2>1
<1> QED BY <1>1, <1>2 DEF SavingInv

LEMMA SavesStill ==
  ASSUME SavingInv, late \subseteq late', UNCHANGED <<doc, dirty, row, stored, saves>>
  PROVE  SavingInv'
BY DEF SavingInv, SaveTypes, SaveInv

LEMMA SaveKeeps ==
  ASSUME SavingInv, doc \in TopologyDocument, Save
  PROVE  SavingInv'
<1> DEFINE s == [doc |-> doc, row |-> row, page |-> row, at |-> "sent"]
<1>1. s \in Request /\ s.doc = doc /\ s.page = row /\ s.row = row /\ s.at = "sent"
  BY DEF Request, SavingInv, SaveTypes
<1>2. /\ saves' = Append(saves, s) /\ UNCHANGED <<doc, dirty, row, stored>>
      /\ late \subseteq late' /\ (saves # <<>> => "save" \in late')
  BY DEF Save, editor
<1> HIDE DEF s
<1>3. /\ saves' \in Seq(Request) /\ Len(saves') = Len(saves) + 1
      /\ saves'[Len(saves) + 1] = s /\ \A i \in 1..Len(saves) : saves'[i] = saves[i]
  BY <1>1, <1>2 DEF SavingInv, SaveTypes
<1>4. RequestOK(s, Len(stored))
  BY <1>1 DEF RequestOK, SavingInv, SaveTypes
<1>5. SaveTypes'
  BY <1>2, <1>3, <1>4 DEF SavingInv, SaveTypes
<1>6. SaveInv'
  <2> SUFFICES ASSUME "save" \notin late' PROVE SaveInv'
    BY DEF SaveInv
  <2>1. saves = <<>> /\ "save" \notin late
    BY <1>2
  <2>2. Len(saves') = 1 /\ saves'[1] = s
    BY <1>3, <2>1
  <2> QED BY <1>1, <1>2, <2>1, <2>2 DEF SavingInv, SaveInv
<1> QED BY <1>5, <1>6 DEF SavingInv

\* y is q with the request i answered: its row r, its state a.
AnsweredAs(y, q, i, r, a) ==
  /\ y \in Seq(Request) /\ Len(y) = Len(q)
  /\ y[i].doc = q[i].doc /\ y[i].page = q[i].page /\ y[i].row = r /\ y[i].at = a
  /\ \A j \in 1..Len(q) \ {i} : y[j] = q[j]

LEMMA OneAnswered ==
  ASSUME NEW q \in Seq(Request), NEW i \in 1..Len(q), NEW a \in {"sent", "ok", "refused"},
         NEW r \in Nat
  PROVE  /\ AnsweredAs([q EXCEPT ![i].at = a], q, i, q[i].row, a)
         /\ AnsweredAs([q EXCEPT ![i].at = a, ![i].row = r], q, i, r, a)
<1>1. PICK s \in Request : s = q[i]
  OBVIOUS
<1> DEFINE n == [s EXCEPT !.at = a]
           m == [[s EXCEPT !.at = a] EXCEPT !.row = r]
<1>2. /\ n \in Request /\ n.doc = s.doc /\ n.page = s.page /\ n.row = s.row /\ n.at = a
      /\ m \in Request /\ m.doc = s.doc /\ m.page = s.page /\ m.row = r /\ m.at = a
  BY DEF Request
<1>3. [q EXCEPT ![i].at = a] = [q EXCEPT ![i] = n]
  BY <1>1
<1>4. [q EXCEPT ![i].at = a, ![i].row = r] = [q EXCEPT ![i] = m]
  BY <1>1
<1> HIDE DEF n, m
<1>5. AnsweredAs([q EXCEPT ![i] = n], q, i, q[i].row, a)
  BY <1>1, <1>2 DEF AnsweredAs
<1>6. AnsweredAs([q EXCEPT ![i] = m], q, i, r, a)
  BY <1>1, <1>2 DEF AnsweredAs
<1> QED BY <1>3, <1>4, <1>5, <1>6

LEMMA OnlyOne ==
  ASSUME SavingInv, "save" \notin late, NEW i \in 1..Len(saves)
  PROVE  /\ Len(saves) = 1 /\ i = 1 /\ saves[i].doc = doc /\ saves[i].page = row
         /\ saves[i].at = "ok" => stored[saves[i].row] = doc
<1>1. PICK n \in Nat : n = Len(saves)
  BY DEF SavingInv, SaveTypes
<1>2. n <= 1 /\ i \in 1..n
  BY <1>1 DEF SavingInv, SaveInv
<1>3. n = 1 /\ i = 1
  BY <1>2
<1> QED BY <1>1, <1>3 DEF SavingInv, SaveInv

LEMMA ServeKeeps ==
  ASSUME SavingInv, EditorTypes, NEW i \in 1..Len(saves), Serve(i)
  PROVE  SavingInv'
<1> DEFINE s == saves[i]
<1>1. /\ s \in Request /\ RequestOK(s, Len(stored)) /\ s.at = "sent"
      /\ UNCHANGED <<doc, dirty, row, late>>
  BY DEF SavingInv, SaveTypes, Serve, editor
<1>2. saves \in Seq(Request) /\ stored \in Seq(TopologyDocument)
  BY DEF SavingInv, SaveTypes
<1>3. /\ s.doc \in TopologyDocument /\ s.row \in 0..Len(stored) /\ s.page \in Nat
      /\ s.page # 0 => s.row = s.page
  BY <1>1, <1>2 DEF Request, RequestOK
<1>4. CASE ~Accepted(s.doc) \/ (s.row = 0 /\ Len(stored) >= RowLimit)
  <2>1. saves' = [saves EXCEPT ![i].at = "refused"] /\ stored' = stored
    BY <1>4 DEF Serve
  <2>2. AnsweredAs(saves', saves, i, s.row, "refused")
    BY <1>2, <2>1, OneAnswered
  <2>3. SaveTypes'
    BY <1>1, <2>1, <2>2 DEF AnsweredAs, SavingInv, SaveTypes, RequestOK
  <2>4. SaveInv'
    BY <1>1, <2>1, <2>2 DEF AnsweredAs, SavingInv, SaveInv
  <2> QED BY <2>3, <2>4 DEF SavingInv
<1>5. CASE Accepted(s.doc) /\ s.row = 0 /\ ~(Len(stored) >= RowLimit)
  <2>1. /\ saves' = [saves EXCEPT ![i].at = "ok", ![i].row = Len(stored) + 1]
        /\ stored' = Append(stored, s.doc)
    BY <1>5 DEF Serve
  <2>2. Len(stored) + 1 \in Nat /\ Len(stored) + 1 # 0
    BY <1>2
  <2>3. AnsweredAs(saves', saves, i, Len(stored) + 1, "ok")
    BY <1>2, <2>1, <2>2, OneAnswered
  <2>4. /\ stored' \in Seq(TopologyDocument) /\ Len(stored') = Len(stored) + 1
        /\ stored'[Len(stored) + 1] = s.doc
        /\ \A r \in 1..Len(stored) : stored'[r] = stored[r]
    BY <1>2, <1>3, <2>1
  <2>5. \A r \in 1..Len(stored') : Valid(stored'[r])
    BY <1>5, <2>4 DEF SavingInv, SaveTypes, Accepted
  <2>6. s.page = 0
    BY <1>3, <1>5
  <2>7. \A j \in 1..Len(saves') : RequestOK(saves'[j], Len(stored'))
    <3> SUFFICES ASSUME NEW j \in 1..Len(saves')
                 PROVE  RequestOK(saves'[j], Len(stored) + 1)
      BY <2>4
    <3>1. CASE j = i
      BY <2>2, <2>3, <2>6, <3>1 DEF AnsweredAs, RequestOK
    <3>2. CASE j # i
      <4>1. saves'[j] = saves[j] /\ j \in 1..Len(saves)
        BY <2>3, <3>2 DEF AnsweredAs
      <4>2. saves[j] \in Request /\ RequestOK(saves[j], Len(stored))
        BY <1>2, <4>1 DEF SavingInv, SaveTypes
      <4> QED BY <1>2, <4>1, <4>2 DEF RequestOK, Request
    <3> QED BY <3>1, <3>2
  <2>8. SaveTypes'
    BY <1>1, <2>3, <2>4, <2>5, <2>7 DEF AnsweredAs, SavingInv, SaveTypes
  <2>9. SaveInv'
    <3> SUFFICES ASSUME "save" \notin late PROVE SaveInv'
      BY <1>1 DEF SaveInv
    <3>1. Len(saves) = 1 /\ i = 1 /\ s.doc = doc /\ s.page = row
      BY <1>1, <1>2, OnlyOne
    <3>2. row = 0
      BY <2>6, <3>1
    <3> QED BY <1>1, <2>3, <2>4, <3>1, <3>2 DEF AnsweredAs, SavingInv, SaveInv
  <2> QED BY <2>8, <2>9 DEF SavingInv
<1>6. CASE Accepted(s.doc) /\ s.row # 0
  <2>1. /\ saves' = [saves EXCEPT ![i].at = "ok"]
        /\ stored' = [stored EXCEPT ![s.row] = s.doc]
    BY <1>6 DEF Serve
  <2>2. AnsweredAs(saves', saves, i, s.row, "ok")
    BY <1>2, <2>1, OneAnswered
  <2>3. s.row \in 1..Len(stored)
    BY <1>2, <1>3, <1>6
  <2>4. /\ stored' \in Seq(TopologyDocument) /\ Len(stored') = Len(stored)
        /\ stored'[s.row] = s.doc
        /\ \A r \in 1..Len(stored) \ {s.row} : stored'[r] = stored[r]
    BY <1>2, <1>3, <2>1, <2>3
  <2>5. \A r \in 1..Len(stored') : Valid(stored'[r])
    BY <1>6, <2>4 DEF SavingInv, SaveTypes, Accepted
  <2>6. \A j \in 1..Len(saves') : RequestOK(saves'[j], Len(stored'))
    BY <1>1, <1>3, <1>6, <2>2, <2>4 DEF AnsweredAs, RequestOK, SavingInv, SaveTypes
  <2>7. SaveTypes'
    BY <1>1, <2>2, <2>4, <2>5, <2>6 DEF AnsweredAs, SavingInv, SaveTypes
  <2>8. SaveInv'
    <3> SUFFICES ASSUME "save" \notin late PROVE SaveInv'
      BY <1>1 DEF SaveInv
    <3>1. Len(saves) = 1 /\ i = 1 /\ s.doc = doc /\ s.page = row
      BY <1>1, <1>2, OnlyOne
    <3>2. row # 0 => stored'[row] = doc
      BY <1>3, <2>4, <3>1 DEF SavingInv, SaveTypes
    <3> QED BY <1>1, <2>2, <2>4, <3>1, <3>2 DEF AnsweredAs, SavingInv, SaveInv
  <2> QED BY <2>7, <2>8 DEF SavingInv
<1> QED BY <1>4, <1>5, <1>6

LEMMA SaveAway ==
  ASSUME SavingInv, NEW i \in 1..Len(saves), saves' = Without(saves, i),
         row' \in 0..Len(stored), late' = late, stored' = stored,
         "save" \notin late /\ ~dirty' => doc' = IF row' = 0 THEN EmptyDoc ELSE stored[row']
  PROVE  SavingInv'
<1>1. /\ saves' \in Seq(Request) /\ Len(saves') = Len(saves) - 1
      /\ \A j \in 1..Len(saves) - 1 : \E k \in 1..Len(saves) : saves'[j] = saves[k]
  BY WithoutPart DEF SavingInv, SaveTypes
<1>2. SaveTypes'
  BY <1>1 DEF SavingInv, SaveTypes
<1>3. SaveInv'
  <2> SUFFICES ASSUME "save" \notin late
               PROVE  Len(saves') <= 1 /\ Len(saves') # 1
    BY DEF SaveInv
  <2>1. Len(saves) <= 1 /\ Len(saves) \in Nat
    BY DEF SavingInv, SaveInv, SaveTypes
  <2> QED BY <1>1, <2>1
<1> QED BY <1>2, <1>3 DEF SavingInv

LEMMA SavedKeeps ==
  ASSUME SavingInv, NEW i \in 1..Len(saves), Saved(i)
  PROVE  SavingInv'
<1>1. /\ saves' = Without(saves, i) /\ saves[i].at = "ok" /\ saves[i].page = row /\ row # 0
      /\ UNCHANGED <<doc, row, stored, late>>
  BY DEF Saved
<1>2. "save" \notin late => doc = stored[row]
  <2> SUFFICES ASSUME "save" \notin late PROVE doc = stored[row]
    OBVIOUS
  <2>1. stored[saves[i].row] = doc
    BY <1>1, OnlyOne
  <2>2. saves[i].row = row
    BY <1>1 DEF SavingInv, SaveTypes, RequestOK
  <2> QED BY <2>1, <2>2
<1> QED BY <1>1, <1>2, SaveAway DEF SavingInv, SaveTypes

LEMMA CreatedKeeps ==
  ASSUME SavingInv, NEW i \in 1..Len(saves), Created(i)
  PROVE  SavingInv' /\ doc' \in TopologyDocument /\ Valid(doc')
<1>1. /\ saves' = Without(saves, i) /\ saves[i].at = "ok" /\ row' = saves[i].row
      /\ doc' = stored[row'] /\ UNCHANGED <<stored, late>>
  BY DEF Created
<1>2. row' \in 1..Len(stored)
  <2>1. saves[i] \in Request /\ RequestOK(saves[i], Len(stored)) /\ Len(stored) \in Nat
    BY DEF SavingInv, SaveTypes
  <2>2. row' \in Nat /\ row' <= Len(stored) /\ row' # 0
    BY <1>1, <2>1 DEF Request, RequestOK
  <2> QED BY <2>1, <2>2
<1>3. SavingInv'
  BY <1>1, <1>2, SaveAway
<1> QED BY <1>1, <1>2, <1>3 DEF SavingInv, SaveTypes

LEMMA SaveOverKeeps ==
  ASSUME SavingInv, NEW i \in 1..Len(saves), SaveOver(i)
  PROVE  SavingInv'
<1>1. /\ saves' = Without(saves, i) /\ UNCHANGED <<doc, dirty, row, stored, late>>
  BY DEF SaveOver, editor
<1> QED BY <1>1, SaveAway DEF SavingInv, SaveTypes, SaveInv

-----------------------------------------------------------------------------
(* Every step *)

DesignerInv == EditorInv /\ RequestInv /\ SavingInv

LEMMA Overtaken ==
  ASSUME EditorTypes, NEW x
  PROVE  /\ late \cup Overtakes \subseteq LateKinds /\ LeftBehind(x) \subseteq LateKinds
         /\ doc \in TopologyDocument /\ IsDoc(doc)
BY InDocument DEF EditorTypes, Overtakes, LeftBehind, LateKinds

LEMMA Counted == ASSUME RequestInv, Budget PROVE edits' \in 0..MaxEdits
BY EditorAssumption DEF RequestInv, RequestTypes, Budget

\* The edits made on the canvas.
LEMMA EditKeeps ==
  ASSUME DesignerInv, \E x : Edit(x) /\ Edits(doc, x)
  PROVE  DesignerInv'
<1>1. PICK x : Edit(x) /\ Edits(doc, x)
  OBVIOUS
<1>2. /\ doc' = x /\ past' = Pushed(doc) /\ future' = <<>> /\ dirty' = TRUE
      /\ UNCHANGED <<origin, row, stored, window, command, cables, saves>>
      /\ late' = late \cup Overtakes /\ window = Closed /\ Budget
  BY <1>1 DEF Edit, Commit, flight
<1>3. /\ IsDoc(doc') /\ OneEdit(doc, doc') /\ Kept(doc, doc') /\ (Valid(doc) => Valid(doc'))
      /\ Grows(doc, doc')
  BY <1>1, <1>2, KeptGrows DEF Edits
<1>4. late' \subseteq LateKinds /\ Later
  BY <1>2, Overtaken DEF DesignerInv, EditorInv, Later, Overtakes
<1>5. EditorInv'
  BY <1>2, <1>3, <1>4, Committed DEF DesignerInv
<1>6. window.dev \notin Placed(doc')
  BY <1>2, <1>3, EditorAssumption DEF Closed, IsDoc
<1>7. RequestInv'
  BY <1>2, <1>3, <1>6, WindowStays, Counted DEF DesignerInv, RequestInv, RequestTypes
<1>8. SavingInv'
  BY <1>2, SavesOvertaken DEF DesignerInv
<1> QED BY <1>5, <1>7, <1>8 DEF DesignerInv

LEMMA CanvasKeeps ==
  ASSUME DesignerInv,
         \/ AddGroup \/ RemoveGroup
         \/ \E d \in Devices : AddDevice(d) \/ Describe(d) \/ RemoveDevice(d) \/ Assign(d)
         \/ \E l \in doc.links : RemoveLink(l) \/ \E e \in l.ends : Rewire(l, e)
  PROVE  DesignerInv'
<1>1. doc \in TopologyDocument /\ IsDoc(doc)
  BY Overtaken DEF DesignerInv, EditorInv
<1> SUFFICES \E x : Edit(x) /\ Edits(doc, x)
  BY EditKeeps
<1>2. CASE AddGroup
  BY <1>1, <1>2, GroupAdded DEF AddGroup
<1>3. CASE RemoveGroup
  BY <1>1, <1>3, GroupRemoved DEF RemoveGroup
<1>4. ASSUME NEW d \in Devices, AddDevice(d) PROVE \E x : Edit(x) /\ Edits(doc, x)
  BY <1>1, <1>4, DeviceAdded DEF AddDevice
<1>5. ASSUME NEW d \in Devices, Describe(d) PROVE \E x : Edit(x) /\ Edits(doc, x)
  <2> DEFINE r == [doc.devices[d] EXCEPT !.look = 1 - @]
  <2>1. d \in Placed(doc) /\ Edit(Device(doc, d, r)) /\ doc.devices[d] \in DeviceState
    BY <1>1, <1>5, DevicePlaced DEF Describe
  <2>2. /\ r \in DeviceState /\ r.config = doc.devices[d].config
        /\ r.grouped = doc.devices[d].grouped /\ r.look # doc.devices[d].look
    BY <2>1 DEF DeviceState
  <2> HIDE DEF r
  <2>3. Cardinality(Changed(doc.devices[d], r)) = 1
    <3>1. Changed(doc.devices[d], r) = {"look"}
      BY <2>2 DEF Changed
    <3> QED BY <3>1, FS_Singleton
  <2>4. Edits(doc, Device(doc, d, r))
    BY <1>1, <2>1, <2>2, <2>3, OneDevice DEF Edits
  <2> QED BY <2>1, <2>4
<1>6. ASSUME NEW d \in Devices, RemoveDevice(d) PROVE \E x : Edit(x) /\ Edits(doc, x)
  BY <1>1, <1>6, DeviceRemoved DEF RemoveDevice
<1>7. ASSUME NEW d \in Devices, Assign(d) PROVE \E x : Edit(x) /\ Edits(doc, x)
  <2> DEFINE r == [doc.devices[d] EXCEPT !.grouped = ~@]
  <2>1. /\ d \in Placed(doc) /\ Edit(Device(doc, d, r)) /\ doc.devices[d] \in DeviceState
        /\ doc.group
    BY <1>1, <1>7, DevicePlaced DEF Assign
  <2>2. /\ r \in DeviceState /\ r.config = doc.devices[d].config
        /\ r.look = doc.devices[d].look /\ r.grouped # doc.devices[d].grouped
    BY <2>1 DEF DeviceState
  <2> HIDE DEF r
  <2>3. Cardinality(Changed(doc.devices[d], r)) = 1
    <3>1. Changed(doc.devices[d], r) = {"grouped"}
      BY <2>2 DEF Changed
    <3> QED BY <3>1, FS_Singleton
  <2>4. Edits(doc, Device(doc, d, r))
    BY <1>1, <2>1, <2>2, <2>3, OneDevice DEF Edits
  <2> QED BY <2>1, <2>4
<1>8. ASSUME NEW l \in doc.links, RemoveLink(l) PROVE \E x : Edit(x) /\ Edits(doc, x)
  BY <1>1, <1>8, LinkRemoved DEF RemoveLink
<1>9. ASSUME NEW l \in doc.links, NEW e \in l.ends, Rewire(l, e)
      PROVE  \E x : Edit(x) /\ Edits(doc, x)
  <2>1. PICK p \in FreePorts(doc, e[1]) :
          Edit([doc EXCEPT !.links = (@ \ {l}) \cup
                  {[l EXCEPT !.ends = (@ \ {e}) \cup {<<e[1], p>>}]}])
    BY <1>9 DEF Rewire
  <2>2. Edits(doc, [doc EXCEPT !.links = (@ \ {l}) \cup
                      {[l EXCEPT !.ends = (@ \ {e}) \cup {<<e[1], p>>}]}])
    BY <1>1, <1>9, LinkRewired DEF Rewire
  <2> QED BY <2>1, <2>2
<1> QED BY <1>2, <1>3, <1>4, <1>5, <1>6, <1>7, <1>8, <1>9

LEMMA HistoryKeeps ==
  ASSUME DesignerInv, Undo \/ Redo \/ Import \/ Drop
  PROVE  DesignerInv'
<1>1. EditorTypes /\ EditorInv /\ RequestInv /\ SavingInv /\ RequestTypes
  BY DEF DesignerInv, EditorInv, RequestInv
<1>2. CASE Undo
  <2>1. /\ past # <<>> /\ doc' = Top(past) /\ past' = Pop(past)
        /\ future' = Append(future, doc) /\ dirty' = TRUE
        /\ UNCHANGED <<origin, cables, saves, row, stored>>
        /\ window' = WindowOn(doc') /\ command' = CommandOn(doc')
        /\ late' = late \cup Overtakes \cup LeftBehind(doc') /\ Budget
    BY <1>2 DEF Undo
  <2>2. late' \subseteq LateKinds
    BY <1>1, <2>1, Overtaken
  <2>3. Later
    BY <2>1, <2>2 DEF Later, Overtakes
  <2>4. EditorInv'
    BY <1>1, <2>1, <2>3, Undone
  <2>5. RequestInv'
    BY <1>1, <2>1, <2>2, <2>4, WindowMoves, Counted DEF EditorInv, EditorTypes
  <2>6. SavingInv'
    BY <1>1, <2>1, SavesOvertaken
  <2> QED BY <2>4, <2>5, <2>6 DEF DesignerInv
<1>3. CASE Redo
  <2>1. /\ future # <<>> /\ doc' = Top(future) /\ future' = Pop(future)
        /\ past' = Append(past, doc) /\ dirty' = TRUE
        /\ UNCHANGED <<origin, cables, saves, row, stored>>
        /\ window' = WindowOn(doc') /\ command' = CommandOn(doc')
        /\ late' = late \cup Overtakes \cup LeftBehind(doc') /\ Budget
    BY <1>3 DEF Redo
  <2>2. late' \subseteq LateKinds
    BY <1>1, <2>1, Overtaken
  <2>3. Later
    BY <2>1, <2>2 DEF Later, Overtakes
  <2>4. EditorInv'
    BY <1>1, <2>1, <2>3, Redone
  <2>5. RequestInv'
    BY <1>1, <2>1, <2>2, <2>4, WindowMoves, Counted DEF EditorInv, EditorTypes
  <2>6. SavingInv'
    BY <1>1, <2>1, SavesOvertaken
  <2> QED BY <2>4, <2>5, <2>6 DEF DesignerInv
<1>4. CASE Import
  <2>1. /\ doc' = EmptyDoc /\ past' = <<>> /\ future' = <<>> /\ dirty' = TRUE
        /\ late' = late \cup Overtakes /\ origin' = None /\ Budget
        /\ UNCHANGED <<window, command, cables, saves, row, stored>>
    BY <1>4 DEF Import, flight
  <2>2. late' \subseteq LateKinds
    BY <1>1, <2>1, Overtaken
  <2>3. EditorInv'
    BY <2>1, <2>2, EmptyIsDoc, Replaced
  <2>4. Placed(doc') = {} /\ Kept(doc, doc')
    BY <2>1, EmptyIsDoc DEF Kept
  <2>5. RequestInv'
    BY <1>1, <2>1, <2>4, WindowStays, Counted DEF RequestTypes
  <2>6. SavingInv'
    BY <1>1, <2>1, SavesOvertaken
  <2> QED BY <2>3, <2>5, <2>6 DEF DesignerInv
<1>5. CASE Drop
  <2>1. UNCHANGED <<doc, dirty, window, command, cables, saves, row, stored, late, edits>>
    BY <1>5 DEF Drop, flight
  <2>2. EditorInv'
    BY <1>1, <1>5, Dropped
  <2>3. RequestInv'
    BY <1>1, <2>1 DEF RequestInv, RequestTypes, WindowInv
  <2>4. SavingInv'
    BY <1>1, <2>1, SavesStill
  <2> QED BY <2>2, <2>3, <2>4 DEF DesignerInv
<1> QED BY <1>2, <1>3, <1>4, <1>5

LEMMA DragKeeps ==
  ASSUME DesignerInv, NEW d \in Devices, Drag(d)
  PROVE  DesignerInv'
<1>1. EditorTypes /\ EditorInv /\ RequestInv /\ SavingInv /\ RequestTypes
  BY DEF DesignerInv, EditorInv, RequestInv
<1>2. /\ dirty' = TRUE /\ late' = late \cup (Overtakes \ {"drag"}) /\ window = Closed /\ Budget
      /\ UNCHANGED <<window, command, cables, saves, row, stored>>
  BY DEF Drag, flight
<1>3. late' \subseteq LateKinds
  BY <1>1, <1>2, Overtaken
<1>4. EditorInv' /\ Kept(doc, doc')
  BY <1>1, <1>3, Dragged
<1>5. window.dev \notin Placed(doc')
  BY <1>2, <1>4, DevicePlaced DEF Closed, EditorInv, EditorTypes
<1>6. RequestInv'
  BY <1>1, <1>2, <1>4, <1>5, WindowStays, Counted DEF RequestTypes
<1>7. SavingInv'
  BY <1>1, <1>2, SavesOvertaken
<1> QED BY <1>4, <1>6, <1>7 DEF DesignerInv

LEMMA WindowKeeps ==
  ASSUME DesignerInv,
         \/ CloseWindow \/ CommandAnswered \/ CommandFails
         \/ \E d \in Devices : OpenWindow(d)
         \/ \E e \in ConfigEdits : Patch(e) \/ SendCommand(e)
  PROVE  DesignerInv'
<1>1. EditorTypes /\ EditorInv /\ RequestInv /\ SavingInv /\ RequestTypes /\ dirty \in BOOLEAN
  BY DEF DesignerInv, EditorInv, RequestInv, EditorTypes
<1>2. ASSUME UNCHANGED <<editor, saves, row, stored, late>> PROVE EditorInv' /\ SavingInv'
  <2>1. UNCHANGED <<doc, past, future, dirty, origin>> /\ late' = late /\ late \subseteq LateKinds
    BY <1>1, <1>2 DEF editor, EditorTypes
  <2>2. EditorInv'
    BY <1>1, <2>1, Untouched
  <2> QED BY <1>1, <1>2, <2>1, <2>2, SavesStill
<1>3. CASE CloseWindow
  BY <1>1, <1>2, <1>3, WindowClosed DEF CloseWindow, DesignerInv
<1>4. CASE CommandFails
  <2>1. UNCHANGED <<doc, window, cables, late, edits>> /\ command' = NoCommand
    BY <1>4 DEF CommandFails, editor
  <2>2. RequestInv'
    BY <1>1, <2>1, CommandOver DEF EditorTypes
  <2> QED BY <1>2, <1>4, <2>2 DEF CommandFails, DesignerInv
<1>5. ASSUME NEW d \in Devices, OpenWindow(d) PROVE DesignerInv'
  <2>1. UNCHANGED <<editor, saves, row, stored, late>>
    BY <1>5 DEF OpenWindow, flight
  <2> QED BY <1>1, <1>2, <1>5, <2>1, WindowOpened DEF DesignerInv
<1>6. ASSUME NEW e \in ConfigEdits, SendCommand(e) PROVE DesignerInv'
  BY <1>1, <1>2, <1>6, CommandSent DEF SendCommand, DesignerInv
<1>7. CASE CommandAnswered
  <2>1. late \cup Overtakes \subseteq late' /\ dirty' = TRUE /\ UNCHANGED <<row, stored, saves>>
    BY <1>7 DEF CommandAnswered, Commit
  <2>2. late' \subseteq LateKinds
    BY <1>1, <1>7, Overtaken DEF CommandAnswered, LateKinds
  <2>3. SavingInv'
    BY <1>1, <2>1, SavesOvertaken
  <2> QED BY <1>1, <1>7, <2>2, <2>3, AnswerKeeps DEF DesignerInv
<1>8. ASSUME NEW e \in ConfigEdits, Patch(e) PROVE DesignerInv'
  <2>1. late \cup Overtakes \subseteq late' /\ dirty' = TRUE /\ UNCHANGED <<row, stored, saves>>
    BY <1>8 DEF Patch, Commit, flight
  <2>2. late' \subseteq LateKinds
    BY <1>1, <1>8, Overtaken DEF Patch, LateKinds
  <2>3. SavingInv'
    BY <1>1, <2>1, SavesOvertaken
  <2> QED BY <1>1, <1>8, <2>2, <2>3, PatchKeeps DEF DesignerInv
<1> QED BY <1>3, <1>4, <1>5, <1>6, <1>7, <1>8

LEMMA FirstIsOne ==
  ASSUME NEW S \in SUBSET Nat, S # {}
  PROVE  First(S) \in S
<1> DEFINE Less == {p \in Nat \X Nat : p[1] < p[2]}
<1>1. IsWellFoundedOn(Less, Nat)
  BY ONLY NatLessThanWellFounded, Zenon DEF OpToRel
<1>2. PICK p \in S : \A q \in S : ~(<<q, p>> \in Less)
  <2> HIDE DEF Less
  <2> QED BY <1>1, WFMin
<1>3. \A q \in S : p <= q
  <2> SUFFICES ASSUME NEW q \in S PROVE p <= q
    OBVIOUS
  <2>1. ~(q < p)
    BY <1>2
  <2> QED BY <2>1
<1> QED BY <1>2, <1>3 DEF First

LEMMA CableKeeps ==
  ASSUME DesignerInv,
         \/ \E d, e \in Devices : Connect(d, e)
         \/ \E l \in cables : Plug(l) \/ ConnectFails(l)
  PROVE  DesignerInv'
<1>1. /\ EditorTypes /\ EditorInv /\ RequestInv /\ SavingInv /\ RequestTypes
      /\ dirty \in BOOLEAN /\ doc \in TopologyDocument
  BY DEF DesignerInv, EditorInv, RequestInv, EditorTypes
<1>2. ASSUME UNCHANGED <<editor, window, command, saves, row, stored, late, edits>>,
             cables' \subseteq Cable
      PROVE  DesignerInv'
  <2>1. UNCHANGED <<doc, past, future, dirty, origin>> /\ late' = late /\ late \subseteq LateKinds
    BY <1>1, <1>2 DEF editor, EditorTypes
  <2>2. EditorInv'
    BY <1>1, <2>1, Untouched
  <2>3. SavingInv'
    BY <1>1, <1>2, <2>1, SavesStill
  <2>4. RequestInv'
    BY <1>1, <1>2, <2>1 DEF RequestInv, RequestTypes, WindowInv
  <2> QED BY <2>2, <2>3, <2>4 DEF DesignerInv
<1>3. ASSUME NEW d \in Devices, NEW e \in Devices, Connect(d, e) PROVE DesignerInv'
  <2>1. \A x \in {d, e} : FirstFree(doc, x) \in Ports
    <3> SUFFICES ASSUME NEW x \in {d, e} PROVE FirstFree(doc, x) \in Ports
      OBVIOUS
    <3>1. FreePorts(doc, x) # {} /\ FreePorts(doc, x) \subseteq Ports
      BY <1>3 DEF Connect, FreePorts
    <3>2. FreePorts(doc, x) \in SUBSET Nat
      BY <3>1 DEF Ports
    <3>3. First(FreePorts(doc, x)) \in FreePorts(doc, x)
      BY <3>1, <3>2, FirstIsOne
    <3> QED BY <3>1, <3>3 DEF FirstFree
  <2>2. {<<d, FirstFree(doc, d)>>, <<e, FirstFree(doc, e)>>} \in SUBSET (Devices \X Ports)
    BY <2>1
  <2>3. cables' \subseteq Cable
    BY <1>1, <1>3, <2>2 DEF Connect, Cable, RequestTypes
  <2> QED BY <1>2, <1>3, <2>3 DEF Connect
<1>4. ASSUME NEW l \in cables, ConnectFails(l) PROVE DesignerInv'
  BY <1>1, <1>2, <1>4 DEF ConnectFails, RequestTypes
<1>5. ASSUME NEW l \in cables, Plug(l) PROVE DesignerInv'
  <2>1. /\ doc' = [doc EXCEPT !.links = @ \cup {l}] /\ past' = Pushed(doc) /\ future' = <<>>
        /\ dirty' = TRUE /\ UNCHANGED <<origin, row, stored, window, command, saves>>
        /\ late \cup Overtakes \subseteq late' /\ cables' = cables \ {l} /\ Budget
    BY <1>5 DEF Plug, Commit
  <2>2. late' \subseteq LateKinds
    BY <1>1, <1>5, Overtaken DEF Plug, LateKinds
  <2>3. Later
    BY <2>1, <2>2 DEF Later, Overtakes
  <2>4. IsDoc(doc) /\ l \in Cable
    BY <1>1, InDocument DEF RequestTypes
  <2>5. /\ IsDoc(doc') /\ OneEdit(doc, doc') /\ Kept(doc, doc') /\ Placed(doc') = Placed(doc)
        /\ Valid(doc) /\ (\A e \in l.ends : e[1] \in Placed(doc) /\ ~Occupied(doc, e))
             => Valid(doc')
    BY <2>1, <2>4, LinkAdded
  <2>6. "cable" \notin late' /\ Valid(doc) => Valid(doc')
    BY <1>5, <2>5 DEF Plug
  <2>7. EditorInv'
    BY <1>1, <2>1, <2>3, <2>5, <2>6, KeptGrows, Committed
  <2>8. RequestInv'
    BY <1>1, <2>1, <2>5, WindowStays, Counted DEF RequestTypes
  <2>9. SavingInv'
    BY <1>1, <2>1, SavesOvertaken
  <2> QED BY <2>7, <2>8, <2>9 DEF DesignerInv
<1> QED BY <1>3, <1>4, <1>5

LEMMA SavingKeeps ==
  ASSUME DesignerInv,
         Save \/ \E i \in 1..MaxSaves : Serve(i) \/ Saved(i) \/ Created(i) \/ SaveOver(i)
  PROVE  DesignerInv'
<1>1. /\ EditorTypes /\ EditorInv /\ RequestInv /\ SavingInv /\ RequestTypes
      /\ dirty \in BOOLEAN /\ doc \in TopologyDocument /\ late \subseteq LateKinds
  BY DEF DesignerInv, EditorInv, RequestInv, EditorTypes
<1>2. ASSUME UNCHANGED <<doc, past, future, origin, window, command, cables, edits>>,
             late \subseteq late', late' \subseteq LateKinds, dirty' \in BOOLEAN
      PROVE  EditorInv' /\ RequestInv'
  <2>1. EditorInv'
    BY <1>1, <1>2, Untouched
  <2>2. RequestInv'
    BY <1>1, <1>2 DEF RequestInv, RequestTypes, WindowInv
  <2> QED BY <2>1, <2>2
<1>3. CASE Save
  <2>1. /\ UNCHANGED <<doc, past, future, dirty, origin, window, command, cables, edits>>
        /\ late \subseteq late' /\ late' \subseteq LateKinds
    BY <1>1, <1>3 DEF Save, editor, LateKinds
  <2> QED BY <1>1, <1>2, <1>3, <2>1, SaveKeeps DEF DesignerInv
<1>4. \A i : saves \in Seq(Request) /\ i \in DOMAIN saves => i \in 1..Len(saves)
  OBVIOUS
<1>5. saves \in Seq(Request)
  BY <1>1 DEF SavingInv, SaveTypes
<1>6. ASSUME NEW i, Serve(i) PROVE DesignerInv'
  <2>1. /\ UNCHANGED <<doc, past, future, dirty, origin, window, command, cables, edits, late>>
        /\ i \in 1..Len(saves)
    BY <1>4, <1>5, <1>6 DEF Serve, editor
  <2> QED BY <1>1, <1>2, <1>6, <2>1, ServeKeeps DEF DesignerInv
<1>7. ASSUME NEW i, Saved(i) PROVE DesignerInv'
  <2>1. /\ UNCHANGED <<doc, past, future, origin, window, command, cables, edits, late>>
        /\ i \in 1..Len(saves) /\ dirty' = FALSE
    BY <1>4, <1>5, <1>7 DEF Saved
  <2> QED BY <1>1, <1>2, <1>7, <2>1, SavedKeeps DEF DesignerInv
<1>8. ASSUME NEW i, SaveOver(i) PROVE DesignerInv'
  <2>1. /\ UNCHANGED <<doc, past, future, dirty, origin, window, command, cables, edits, late>>
        /\ i \in 1..Len(saves)
    BY <1>4, <1>5, <1>8 DEF SaveOver, editor
  <2> QED BY <1>1, <1>2, <1>8, <2>1, SaveOverKeeps DEF DesignerInv
<1>9. ASSUME NEW i, Created(i) PROVE DesignerInv'
  <2>1. /\ i \in 1..Len(saves) /\ past' = <<>> /\ future' = <<>> /\ dirty' = FALSE
        /\ origin' = None /\ window' = Closed /\ command' = NoCommand /\ cables' = {}
        /\ late' = late /\ edits' = edits
    BY <1>4, <1>5, <1>9 DEF Created
  <2>2. SavingInv' /\ doc' \in TopologyDocument /\ Valid(doc')
    BY <1>1, <1>9, <2>1, CreatedKeeps
  <2>3. IsDoc(doc')
    BY <2>2, InDocument
  <2>4. EditorInv'
    BY <1>1, <2>1, <2>2, <2>3, Replaced
  <2>5. RequestInv'
    BY <1>1, <2>1, <2>2, AllClosed DEF RequestTypes
  <2> QED BY <2>2, <2>4, <2>5 DEF DesignerInv
<1> QED BY <1>3, <1>6, <1>7, <1>8, <1>9

LEMMA OpenedIsDoc == IsDoc(Opened) /\ Valid(Opened)
<1> DEFINE f == [d \in Devices |-> Fresh]
           y == [devices |-> f, links |-> {}, group |-> FALSE]
<1>1. Opened = y
  <2>1. Opened = [[devices |-> <<>>, links |-> {}, group |-> FALSE] EXCEPT !.devices = f]
    BY DEF Opened, EmptyDoc
  <2> HIDE DEF f
  <2> QED BY <2>1
<1>2. Fresh \in DeviceState /\ Fresh.grouped = FALSE
  BY DEF Fresh, DeviceState
<1>3. /\ y.devices = f /\ y.links = {} /\ y.group = FALSE /\ Placed(y) = Devices
      /\ f \in [Devices -> DeviceState] /\ \A d \in Devices : f[d] = Fresh
  BY <1>2 DEF Placed
<1>4. IsDoc(y)
  BY <1>3 DEF IsDoc
<1> HIDE DEF y, f
<1>5. Valid(y)
  BY <1>2, <1>3 DEF Valid
<1> QED BY <1>1, <1>4, <1>5

\* The editor, its window and its requests keep what the results below follow from
\* (use-topology-editor.ts, simulator-page.tsx, device-config-window.tsx).
THEOREM DesignerInvariant == Spec => []DesignerInv
<1>1. Init => DesignerInv
  <2> SUFFICES ASSUME Init PROVE DesignerInv
    OBVIOUS
  <2>1. /\ past = <<>> /\ future = <<>> /\ dirty = FALSE /\ origin = None /\ late = {}
        /\ window = Closed /\ command = NoCommand /\ cables = {} /\ saves = <<>> /\ edits = 0
    BY DEF Init
  <2>2. IsDoc(doc) /\ Valid(doc) /\ doc \in TopologyDocument
    BY EmptyIsDoc, OpenedIsDoc, InDocument DEF Init
  <2>3. EditorInv
    <3>1. past \in Seq(TopologyDocument) /\ Len(past) = 0
      BY <2>1
    <3>2. EditorTypes
      BY <2>1, <2>2, <3>1 DEF EditorTypes
    <3>3. HistoryInv
      BY <2>1, ShortChain DEF HistoryInv, Base
    <3>4. ValidInv
      BY <2>1, <2>2, <3>1 DEF ValidInv
    <3> QED BY <3>2, <3>3, <3>4 DEF EditorInv
  <2>4. RequestInv
    <3>1. /\ NoCommand \in [dev : Devices \cup {None}, config : SUBSET ConfigEdits,
                            mounted : BOOLEAN]
          /\ NoCommand.dev = None /\ ~NoCommand.mounted /\ None \notin Placed(doc)
      BY <2>2, DevicePlaced DEF NoCommand
    <3>2. /\ Closed \in [dev : Devices \cup {None}, config : SUBSET ConfigEdits]
          /\ Closed.dev = None
      BY DEF Closed
    <3>3. 0 \in 0..MaxEdits
      BY EditorAssumption
    <3> QED BY <2>1, <3>1, <3>2, <3>3 DEF RequestInv, RequestTypes, WindowInv
  <2>5. SavingInv
    <3>1. \/ row = 0 /\ stored = <<>> /\ doc = EmptyDoc
          \/ row = 1 /\ stored = <<doc>>
      BY DEF Init
    <3>2. /\ stored \in Seq(TopologyDocument) /\ row \in 0..Len(stored)
          /\ \A i \in 1..Len(stored) : stored[i] = doc
          /\ doc = IF row = 0 THEN EmptyDoc ELSE stored[row]
      <4>1. CASE row = 0 /\ stored = <<>> /\ doc = EmptyDoc
        BY <4>1
      <4>2. CASE row = 1 /\ stored = <<doc>>
        <5>1. <<doc>> \in Seq(TopologyDocument) /\ Len(<<doc>>) = 1 /\ <<doc>>[1] = doc
          BY <2>2
        <5> QED BY <4>2, <5>1
      <4> QED BY <3>1, <4>1, <4>2
    <3> QED BY <2>1, <2>2, <3>2 DEF SavingInv, SaveTypes, SaveInv
  <2> QED BY <2>3, <2>4, <2>5 DEF DesignerInv
<1>2. DesignerInv /\ [Next]_vars => DesignerInv'
  <2> SUFFICES ASSUME DesignerInv, [Next]_vars PROVE DesignerInv'
    OBVIOUS
  <2>1. CASE UNCHANGED vars
    BY <2>1 DEF vars, editor, flight, DesignerInv, EditorInv, EditorTypes, HistoryInv, Base,
                ValidInv, RequestInv, RequestTypes, WindowInv, SavingInv, SaveTypes, SaveInv
  <2>2. CASE Next
    BY <2>2, CanvasKeeps, HistoryKeeps, DragKeeps, WindowKeeps, CableKeeps, SavingKeeps
       DEF Next
  <2> QED BY <2>1, <2>2
<1> QED BY <1>1, <1>2, PTL DEF Spec

LEMMA TimelinePart ==
  ASSUME EditorTypes
  PROVE  /\ Timeline \in Seq(TopologyDocument)
         /\ Len(Timeline) = Len(past) + 1 + Len(future)
         /\ \A i \in 1..Len(past) : Timeline[i] = past[i]
         /\ Timeline[Len(past) + 1] = doc
         /\ \A i \in 1..Len(future) :
              Timeline[Len(past) + 1 + i] = future[Len(future) + 1 - i]
<1> DEFINE S == TopologyDocument
           r == Reverse(future)
           pd == past \o <<doc>>
<1>1. future \in Seq(S) /\ past \in Seq(S) /\ <<doc>> \in Seq(S) /\ Len(<<doc>>) = 1
  BY DEF EditorTypes
<1>2. \A i \in 1..Len(future) : Len(future) + 1 - i \in 1..Len(future)
  BY <1>1
<1>3. r = [i \in 1..Len(future) |-> future[Len(future) + 1 - i]]
  BY <1>1 DEF Reverse
<1>4. r \in [1..Len(future) -> S] /\ Len(future) \in Nat
  BY <1>1, <1>2, <1>3
<1>5. /\ r \in Seq(S) /\ Len(r) = Len(future)
      /\ \A i \in 1..Len(future) : r[i] = future[Len(future) + 1 - i]
  BY <1>3, <1>4
<1>6. /\ pd \in Seq(S) /\ Len(pd) = Len(past) + 1 /\ pd[Len(past) + 1] = doc
      /\ \A i \in 1..Len(past) : pd[i] = past[i]
  BY <1>1
<1> HIDE DEF r, pd
<1>7. /\ pd \o r \in Seq(S) /\ Len(pd \o r) = Len(pd) + Len(r)
      /\ \A j \in 1..Len(pd) + Len(r) :
           (pd \o r)[j] = IF j <= Len(pd) THEN pd[j] ELSE r[j - Len(pd)]
  <2>1. pd \in Seq(S) /\ r \in Seq(S)
    BY <1>5, <1>6
  <2> QED BY <2>1, Joined
<1>8. Timeline = pd \o r
  BY DEF Timeline, pd, r
<1>9. /\ Len(pd \o r) = Len(past) + 1 + Len(future)
      /\ \A i \in 1..Len(past) : (pd \o r)[i] = past[i]
      /\ (pd \o r)[Len(past) + 1] = doc
  BY <1>1, <1>5, <1>6, <1>7
<1>10. \A i \in 1..Len(future) :
         (pd \o r)[Len(past) + 1 + i] = future[Len(future) + 1 - i]
  BY <1>1, <1>5, <1>6, <1>7
<1> QED BY <1>7, <1>8, <1>9, <1>10

-----------------------------------------------------------------------------
(* What the editor promises *)

\* Every variable of the editor keeps its type: documents are documents also in
\* the history, in a drag and in the database (use-topology-editor.ts,
\* topology_service.py).
THEOREM DesignerTypeCorrect == Spec => []TypeOK
<1>1. DesignerInv => TypeOK
  <2> SUFFICES ASSUME DesignerInv PROVE TypeOK
    OBVIOUS
  <2>1. EditorTypes /\ RequestTypes /\ SaveTypes
    BY DEF DesignerInv, EditorInv, RequestInv, SavingInv
  <2>2. Timeline \in Seq(TopologyDocument) /\ stored \in Seq(TopologyDocument)
    BY <2>1, TimelinePart DEF SaveTypes
  <2>3. /\ \A i \in DOMAIN Timeline : Timeline[i] \in TopologyDocument
        /\ \A i \in DOMAIN stored : stored[i] \in TopologyDocument
    BY <2>2
  <2>4. /\ \A i \in DOMAIN Timeline : IsDocument(Timeline[i])
        /\ \A i \in DOMAIN stored : IsDocument(stored[i])
        /\ origin = None \/ IsDocument(origin)
    BY <2>1, <2>3, InDocument DEF EditorTypes
  <2>5. /\ {window.dev, command.dev} \subseteq Devices \cup {None}
        /\ {window.config, command.config} \subseteq SUBSET ConfigEdits
    BY <2>1 DEF RequestTypes
  <2> QED BY <2>1, <2>4, <2>5 DEF TypeOK, EditorTypes, RequestTypes, SaveTypes, LateKinds
<1> QED BY <1>1, DesignerInvariant, PTL

\* Whatever the learner edits, undoes and redoes, the server would accept the
\* document (TopologyDocument._validate_structure), unless a suggested cable was
\* overtaken.
THEOREM EditsStayValid == Spec => []DocumentsValid
<1>1. DesignerInv => DocumentsValid
  <2> SUFFICES ASSUME DesignerInv, "cable" \notin late, NEW i \in DOMAIN Timeline
               PROVE  Valid(Timeline[i])
    BY DEF DocumentsValid
  <2>1. EditorTypes /\ ValidInv
    BY DEF DesignerInv, EditorInv
  <2>2. PICK n \in Nat, m \in Nat : n = Len(past) /\ m = Len(future)
    BY <2>1 DEF EditorTypes
  <2>3. /\ i \in 1..n + 1 + m /\ \A j \in 1..n : Timeline[j] = past[j]
        /\ Timeline[n + 1] = doc
        /\ \A j \in 1..m : Timeline[n + 1 + j] = future[m + 1 - j]
    BY <2>1, <2>2, TimelinePart
  <2>4. CASE i <= n
    BY <2>1, <2>2, <2>3, <2>4 DEF ValidInv
  <2>5. CASE i = n + 1
    BY <2>1, <2>2, <2>3, <2>5 DEF ValidInv
  <2>6. CASE i > n + 1
    <3>1. PICK j \in 1..m : i = n + 1 + j
      <4>1. i - (n + 1) \in 1..m /\ i = n + 1 + (i - (n + 1))
        BY <2>3, <2>6
      <4> QED BY <4>1
    <3>2. m + 1 - j \in 1..m /\ Timeline[i] = future[m + 1 - j]
      BY <2>3, <3>1
    <3> QED BY <2>1, <2>2, <3>2 DEF ValidInv
  <2> QED BY <2>3, <2>4, <2>5, <2>6
<1> QED BY <1>1, DesignerInvariant, PTL

\* Neighbours in the history are one edit apart, a whole drag being one (commit,
\* commitMove, undo, redo), unless a drag was overtaken.
THEOREM UndoTakesOneEdit == Spec => []OneUndoOneEdit
<1>1. DesignerInv => OneUndoOneEdit
  <2> SUFFICES ASSUME DesignerInv, origin = None, "drag" \notin late,
                      NEW i \in 1..Len(Timeline) - 1
               PROVE  OneEdit(Timeline[i], Timeline[i + 1])
    BY DEF OneUndoOneEdit
  <2>1. EditorTypes /\ Chain(late, past, doc, future)
    BY DEF DesignerInv, EditorInv, HistoryInv, Base
  <2>2. PICK n \in Nat, m \in Nat : n = Len(past) /\ m = Len(future)
    BY <2>1 DEF EditorTypes
  <2>3. /\ i \in 1..n + m /\ \A j \in 1..n : Timeline[j] = past[j]
        /\ Timeline[n + 1] = doc
        /\ \A j \in 1..m : Timeline[n + 1 + j] = future[m + 1 - j]
    BY <2>1, <2>2, TimelinePart
  <2>4. /\ \A j \in 1..n - 1 : OneEdit(past[j], past[j + 1])
        /\ n # 0 => OneEdit(past[n], doc)
        /\ m # 0 => OneEdit(doc, future[m])
        /\ \A j \in 1..m - 1 : OneEdit(future[j + 1], future[j])
    BY <2>1, <2>2 DEF Chain, Step, Top
  <2>5. CASE i < n
    <3>1. i \in 1..n - 1 /\ {i, i + 1} \subseteq 1..n
      BY <2>3, <2>5
    <3> QED BY <2>3, <2>4, <3>1
  <2>6. CASE i = n
    BY <2>3, <2>4, <2>6
  <2>7. CASE i = n + 1
    <3>1. 1 \in 1..m /\ Timeline[i + 1] = future[m + 1 - 1] /\ m + 1 - 1 = m
      BY <2>3, <2>7
    <3> QED BY <2>3, <2>4, <2>7, <3>1
  <2>8. CASE i > n + 1
    <3>1. PICK j \in 1..m - 1 : i = n + 1 + j
      <4>1. i - (n + 1) \in 1..m - 1 /\ i = n + 1 + (i - (n + 1))
        BY <2>3, <2>8
      <4> QED BY <4>1
    <3>2. /\ i + 1 = n + 1 + (j + 1) /\ {j, j + 1} \subseteq 1..m
          /\ m - j \in 1..m - 1 /\ m + 1 - j = (m - j) + 1 /\ m + 1 - (j + 1) = m - j
      BY <3>1
    <3>3. Timeline[i] = future[(m - j) + 1] /\ Timeline[i + 1] = future[m - j]
      BY <2>3, <3>1, <3>2
    <3> QED BY <2>4, <3>2, <3>3
  <2> QED BY <2>3, <2>5, <2>6, <2>7, <2>8
<1> QED BY <1>1, DesignerInvariant, PTL

\* A page without "Unsaved changes" shows what is stored (markSaved), unless a
\* save was overtaken.
THEOREM CleanIsStored == Spec => []CleanMeansStored
<1>1. DesignerInv => CleanMeansStored
  BY DEF DesignerInv, SavingInv, SaveInv, CleanMeansStored
<1> QED BY <1>1, DesignerInvariant, PTL

\* No edit, made or made again, takes a configuration change back
\* (configureDevice, applyPatch, the console's answer), unless one was overtaken.
THEOREM ConfigurationsSurvive == Spec => ConfigSurvives
<1>1. ASSUME DesignerInv', past' # <<>>, Top(past') = doc,
             late' \cap {"drag", "window", "command"} = {},
             NEW d \in Placed(doc) \cap Placed(doc')
      PROVE  doc.devices[d].config \subseteq doc'.devices[d].config
  <2>1. HistoryInv' /\ "drag" \notin late' /\ late' \cap {"window", "command"} = {}
    BY <1>1 DEF DesignerInv, EditorInv
  <2>2. /\ Step(late', doc, Base') /\ (origin' # None => OnlyALook(origin', doc'))
    BY <1>1, <2>1 DEF HistoryInv, Chain
  <2>3. Grows(doc, Base')
    BY <2>1, <2>2 DEF Step
  <2>4. CASE origin' = None
    BY <1>1, <2>3, <2>4 DEF Base, Grows
  <2>5. CASE origin' # None
    <3>1. Base' = origin' /\ OnlyALook(origin', doc')
      BY <2>2, <2>5 DEF Base
    <3> QED BY <1>1, <2>3, <3>1 DEF Grows, OnlyALook
  <2> QED BY <2>4, <2>5
<1>2. DesignerInv' =>
        [past' # <<>> /\ Top(past') = doc /\ late' \cap {"drag", "window", "command"} = {} =>
           \A d \in Placed(doc) \cap Placed(doc') :
             doc.devices[d].config \subseteq doc'.devices[d].config]_vars
  BY <1>1
<1> QED BY <1>2, DesignerInvariant, PTL DEF ConfigSurvives
-----------------------------------------------------------------------------
(* The shelf *)

Fields(p) ==
  IF p \in Topologies THEN {"name", "document", "count"}
  ELSE IF p \in Notes THEN {"body", "pinned"} ELSE {"lesson"}

\* A document and its count come and go together.
Paired(C) == "document" \in C <=> "count" \in C

Counts(entry) == entry["count"] = DevicesIn[entry["document"]]

Inserting == {k \in Calls : calls[k].at = "insert" /\ mine[k] \in TopologyRow}

\* A new row, which may be a copy of a contended one.
NewOK(call, entry) ==
  /\ call.paper = Gone
  /\ entry \in AnyRow
  /\ entry \in TopologyRow => Paired(call.lone) /\ ("document" \in call.lone => Counts(entry))

\* An edit, of the columns that its payload gave.
EditOK(call, edit) ==
  /\ call.paper \in Topologies \cup Notes
  /\ DOMAIN edit \subseteq Fields(call.paper)
  /\ call.changed \subseteq DOMAIN edit /\ call.lone \subseteq DOMAIN edit
  /\ Paired(DOMAIN edit) /\ Paired(call.lone)
  /\ "document" \in DOMAIN edit => Counts(edit)

CallsOK ==
  \A k \in Calls :
    /\ calls[k].at \in {"copy", "insert"} => NewOK(calls[k], mine[k])
    /\ calls[k].at = "copy" => mine[k] \in TopologyRow
    /\ calls[k].at = "patch" => EditOK(calls[k], mine[k])
    /\ calls[k].at = "delete" => calls[k].paper \in Papers
    /\ calls[k].at = "idle" => calls[k].paper = Gone

\* What nobody else gives is in the row as it was loaded.
LoneIsFresh ==
  \A k \in Calls :
    calls[k].at = "patch" /\ shelf[calls[k].paper] # Gone =>
      \A c \in calls[k].lone \ calls[k].changed : mine[k][c] = shelf[calls[k].paper][c]

LoneIsLone ==
  \A k, q \in Calls :
    k # q /\ calls[k].at = "patch" /\ Patches(q, calls[k].paper)
      => calls[k].lone \cap DOMAIN mine[q] = {}

\* The history of a row is about the row.
HistoryOK ==
  \A p \in Papers :
    /\ shelf[p] = Gone <=> given[p] = Gone
    /\ p \in Topologies /\ shelf[p] # Gone =>
         Paired(contended[p]) /\ ("document" \notin contended[p] => Counts(given[p]))

LimitInv ==
  Cardinality(Owned) + Cardinality(Inserting) <= MaxTopologies + Cardinality(Calls) - 1

RowsInv ==
  /\ LibTypeOK
  /\ CallsOK
  /\ LoneIsFresh /\ LoneIsLone
  /\ HistoryOK
  /\ EditsKept /\ OneStar

LibInv == RowsInv /\ LimitInv

-----------------------------------------------------------------------------
(* Rows and columns *)

LEMMA RowFields ==
  ASSUME NEW p \in Papers, NEW entry \in Rows(p)
  PROVE  /\ DOMAIN entry = Fields(p) /\ entry \in AnyRow /\ entry # Gone
         /\ Fields(p) \subseteq PaperColumns
         /\ \A c \in DOMAIN entry : entry[c] \in Value[c]
<1>1. CASE p \in Topologies
  BY <1>1, PapersAssumption DEF Rows, Fields, TopologyRow, AnyRow, PaperColumns, Value
<1>2. CASE p \notin Topologies /\ p \in Notes
  BY <1>2, PapersAssumption DEF Rows, Fields, NoteRow, AnyRow, PaperColumns, Value
<1>3. CASE p \notin Topologies /\ p \notin Notes
  BY <1>3, PapersAssumption DEF Rows, Fields, BookmarkRow, AnyRow, PaperColumns, Value
<1> QED BY <1>1, <1>2, <1>3

LEMMA Kinds ==
  ASSUME NEW p \in Papers, NEW entry \in Rows(p)
  PROVE  entry \in TopologyRow <=> p \in Topologies
<1>1. ASSUME p \in Notes PROVE entry \notin TopologyRow
  BY <1>1, PapersAssumption DEF Rows, NoteRow, TopologyRow
<1>2. ASSUME p \in Bookmarks PROVE entry \notin TopologyRow
  BY <1>2, PapersAssumption DEF Rows, BookmarkRow, TopologyRow
<1> QED BY <1>1, <1>2 DEF Rows, Papers

LEMMA AskedRows ==
  ASSUME NEW p \in Papers, NEW entry \in Asked(p)
  PROVE  entry \in Rows(p) /\ (p \in Topologies => Counts(entry))
BY DocumentsAssumption, LimitsAssumption DEF Asked, Rows, TopologyRow, Counts

LEMMA OverlaidRow ==
  ASSUME NEW p \in Papers, NEW entry \in Rows(p), NEW over,
         NEW C \in SUBSET DOMAIN over, \A c \in DOMAIN over : over[c] \in Value[c]
  PROVE  /\ Overlaid(entry, C, over) \in Rows(p)
         /\ DOMAIN Overlaid(entry, C, over) = DOMAIN entry
         /\ \A c \in DOMAIN entry :
              Overlaid(entry, C, over)[c] = IF c \in C THEN over[c] ELSE entry[c]
<1>1. /\ DOMAIN Overlaid(entry, C, over) = DOMAIN entry
      /\ \A c \in DOMAIN entry :
           Overlaid(entry, C, over)[c] = IF c \in C THEN over[c] ELSE entry[c]
  BY DEF Overlaid
<1>2. CASE p \in Topologies
  BY <1>2 DEF Rows, TopologyRow, Value, Overlaid
<1>3. CASE p \notin Topologies /\ p \in Notes
  BY <1>3 DEF Rows, NoteRow, Value, Overlaid
<1>4. CASE p \notin Topologies /\ p \notin Notes
  BY <1>4 DEF Rows, BookmarkRow, Value, Overlaid
<1> QED BY <1>1, <1>2, <1>3, <1>4

CallType ==
  [at : {"idle", "copy", "insert", "patch", "delete"}, paper : Papers \cup {Gone},
   changed : SUBSET PaperColumns, lone : SUBSET PaperColumns]

EditType(edit) ==
  DOMAIN edit \subseteq PaperColumns /\ \A c \in DOMAIN edit : edit[c] \in Value[c]

LEMMA IdleType == Idle \in CallType /\ EditType(Nothing) /\ Idle.at = "idle"
                  /\ Idle.paper = Gone
BY DEF Idle, CallType, EditType, Nothing

-----------------------------------------------------------------------------
(* The rows *)

\* A call that writes nothing and starts no edit disturbs nobody.
LEMMA CallMoves ==
  ASSUME RowsInv, NEW k \in Calls, NEW call \in CallType, NEW entry, EditType(entry),
         calls' = [calls EXCEPT ![k] = call],
         DOMAIN mine' = Calls, mine'[k] = entry,
         \A q \in Calls \ {k} : mine'[q] = mine[q],
         UNCHANGED <<shelf, given, contended>>,
         call.at # "patch",
         call.at \in {"copy", "insert"} => NewOK(call, entry),
         call.at = "copy" => entry \in TopologyRow,
         call.at = "delete" => call.paper \in Papers,
         call.at = "idle" => call.paper = Gone
  PROVE  RowsInv'
<1>1. /\ calls'[k] = call /\ mine'[k] = entry
      /\ \A q \in Calls \ {k} : calls'[q] = calls[q] /\ mine'[q] = mine[q]
  BY DEF RowsInv, LibTypeOK
<1>2. LibTypeOK'
  <2>1. calls' \in [Calls -> CallType]
    BY DEF RowsInv, LibTypeOK, CallType
  <2>3. \A q \in Calls : EditType(mine'[q])
    BY <1>1 DEF RowsInv, LibTypeOK, EditType
  <2> QED BY <2>1, <2>3 DEF RowsInv, LibTypeOK, CallType, EditType
<1>3. CallsOK'
  BY <1>1 DEF RowsInv, CallsOK, NewOK, EditOK, Paired, Counts
<1>4. LoneIsFresh'
  BY <1>1 DEF RowsInv, LoneIsFresh
<1>5. LoneIsLone'
  BY <1>1 DEF RowsInv, LoneIsLone, Patches
<1>6. (HistoryOK /\ EditsKept /\ OneStar)'
  BY DEF RowsInv, HistoryOK, EditsKept, OneStar, Paired, Counts
<1> QED BY <1>2, <1>3, <1>4, <1>5, <1>6 DEF RowsInv

LEMMA CreatePreserves ==
  ASSUME RowsInv, NEW k \in Calls, NEW p \in Papers, NEW entry \in Asked(p),
         Create(k, p, entry)
  PROVE  RowsInv'
<1> DEFINE call == [Idle EXCEPT !.at = "insert", !.lone = DOMAIN entry]
<1>1. entry \in Rows(p) /\ (p \in Topologies => Counts(entry))
  BY AskedRows
<1>2. DOMAIN entry = Fields(p) /\ Fields(p) \subseteq PaperColumns /\ entry \in AnyRow
  BY <1>1, RowFields
<1>3. EditType(entry)
  BY <1>1, RowFields DEF EditType
<1>4. call \in CallType /\ call.at = "insert" /\ call.paper = Gone /\ call.lone = DOMAIN entry
  BY <1>2 DEF Idle, CallType
<1>5. NewOK(call, entry)
  <2>1. ASSUME entry \in TopologyRow
        PROVE  p \in Topologies /\ "document" \in DOMAIN entry /\ "count" \in DOMAIN entry
    BY <2>1, <1>1, <1>2, Kinds DEF Fields
  <2> QED BY <1>1, <1>2, <1>4, <2>1 DEF NewOK, Paired
<1>6. /\ calls' = [calls EXCEPT ![k] = call] /\ DOMAIN mine' = Calls /\ mine'[k] = entry
      /\ \A q \in Calls \ {k} : mine'[q] = mine[q]
      /\ UNCHANGED <<shelf, given, contended>>
  BY DEF Create, RowsInv, LibTypeOK
<1> HIDE DEF call
<1> QED BY <1>3, <1>4, <1>5, <1>6, CallMoves

\* What an uncontended topology shows counts its devices.
LEMMA ShownCounts ==
  ASSUME RowsInv, NEW p \in Topologies, shelf[p] # Gone
  PROVE  /\ shelf[p] \in TopologyRow
         /\ Paired(contended[p])
         /\ "document" \notin contended[p] => Counts(shelf[p])
<1>1. p \in Papers /\ shelf[p] \in Rows(p)
  BY DEF Papers, RowsInv, LibTypeOK
<1>2. shelf[p] \in TopologyRow /\ DOMAIN shelf[p] = {"name", "document", "count"}
  BY <1>1, RowFields DEF Rows, Fields
<1>3. Paired(contended[p]) /\ ("document" \notin contended[p] => Counts(given[p]))
  BY <1>1 DEF RowsInv, HistoryOK
<1>4. \A c \in DOMAIN shelf[p] \ contended[p] : shelf[p][c] = given[p][c]
  BY <1>1 DEF RowsInv, EditsKept
<1> QED BY <1>2, <1>3, <1>4 DEF Paired, Counts

LEMMA CopyPreserves ==
  ASSUME RowsInv, NEW k \in Calls, NEW p \in Topologies, Copy(k, p)
  PROVE  RowsInv'
<1> DEFINE call == [Idle EXCEPT !.at = "copy", !.lone = DOMAIN shelf[p] \ contended[p]]
           entry  == [shelf[p] EXCEPT !.name = @ + Suffix]
<1>1. /\ shelf[p] \in TopologyRow /\ Paired(contended[p])
      /\ "document" \notin contended[p] => Counts(shelf[p])
  BY ShownCounts DEF Copy
<1>2. p \in Papers /\ Rows(p) = TopologyRow
  BY DEF Papers, Rows
<1>3. /\ entry \in TopologyRow /\ DOMAIN entry = {"name", "document", "count"}
      /\ DOMAIN shelf[p] = {"name", "document", "count"}
      /\ entry["document"] = shelf[p]["document"] /\ entry["count"] = shelf[p]["count"]
  BY <1>1, LimitsAssumption DEF TopologyRow
<1>4. EditType(entry) /\ entry \in AnyRow
  BY <1>2, <1>3, RowFields DEF EditType
<1>5. /\ call \in CallType /\ call.at = "copy" /\ call.paper = Gone
      /\ call.lone = DOMAIN shelf[p] \ contended[p]
  BY <1>3 DEF Idle, CallType, PaperColumns
<1>6. /\ calls' = [calls EXCEPT ![k] = call] /\ DOMAIN mine' = Calls /\ mine'[k] = entry
      /\ \A q \in Calls \ {k} : mine'[q] = mine[q]
      /\ UNCHANGED <<shelf, given, contended>>
  BY DEF Copy, RowsInv, LibTypeOK
<1> HIDE DEF call, entry
<1>7. NewOK(call, entry)
  BY <1>1, <1>3, <1>4, <1>5 DEF NewOK, Paired, Counts
<1> QED BY <1>3, <1>4, <1>5, <1>6, <1>7, CallMoves

LEMMA CountPreserves ==
  ASSUME RowsInv, NEW k \in Calls, CountForCopy(k)
  PROVE  RowsInv'
<1> DEFINE call == [calls[k] EXCEPT !.at = "insert"]
<1>1. /\ calls[k] \in CallType /\ EditType(mine[k]) /\ calls[k].at = "copy"
      /\ NewOK(calls[k], mine[k])
  BY DEF CountForCopy, RowsInv, LibTypeOK, CallType, EditType, CallsOK
<1>2. /\ call \in CallType /\ call.at = "insert" /\ call.paper = calls[k].paper
      /\ call.lone = calls[k].lone
  BY <1>1 DEF CallType
<1>3. /\ calls' = [calls EXCEPT ![k] = call] /\ DOMAIN mine = Calls
      /\ UNCHANGED <<shelf, mine, given, contended>>
  BY <1>1 DEF CountForCopy, RowsInv, LibTypeOK
<1> HIDE DEF call
<1>4. NewOK(call, mine[k])
  BY <1>1, <1>2 DEF NewOK
<1> QED BY <1>1, <1>2, <1>3, <1>4, CallMoves

LEMMA LoadPreserves ==
  ASSUME RowsInv, NEW k \in Calls, NEW p \in Papers, Load(k, p)
  PROVE  RowsInv'
<1> DEFINE call == [Idle EXCEPT !.at = "delete", !.paper = p]
<1>1. call \in CallType /\ call.at = "delete" /\ call.paper = p
  BY DEF Idle, CallType
<1>2. EditType(mine[k])
  BY DEF RowsInv, LibTypeOK, EditType
<1>3. /\ calls' = [calls EXCEPT ![k] = call] /\ DOMAIN mine = Calls
      /\ UNCHANGED <<shelf, mine, given, contended>>
  BY DEF Load, RowsInv, LibTypeOK
<1> HIDE DEF call
<1> QED BY <1>1, <1>2, <1>3, CallMoves

LEMMA GiveUpPreserves ==
  ASSUME RowsInv, NEW k \in Calls, GiveUp(k)
  PROVE  RowsInv'
<1>1. /\ calls' = [calls EXCEPT ![k] = Idle] /\ DOMAIN mine' = Calls /\ mine'[k] = Nothing
      /\ \A q \in Calls \ {k} : mine'[q] = mine[q]
      /\ UNCHANGED <<shelf, given, contended>>
  BY DEF GiveUp, Answer, RowsInv, LibTypeOK
<1> QED BY <1>1, IdleType, CallMoves

\* What a call may write over paper p: the row, its history, the columns contended.
Sound(k, p, entry, hist, C) ==
  /\ entry \in Rows(p) \cup {Gone} /\ hist \in Rows(p) \cup {Gone}
  /\ C \in SUBSET PaperColumns
  /\ entry = Gone <=> hist = Gone
  /\ entry # Gone =>
       /\ p \in Topologies => Paired(C) /\ ("document" \notin C => Counts(hist))
       /\ \A c \in DOMAIN entry \ C : entry[c] = hist[c]
       /\ \A q \in Calls \ {k} : Patches(q, p) =>
            \A c \in calls[q].lone \ calls[q].changed : mine[q][c] = entry[c]
       /\ p \in Bookmarks =>
            \A q \in Bookmarks \ {p} : shelf[q] # Gone => shelf[q].lesson # entry.lesson

LEMMA Answered ==
  ASSUME RowsInv, NEW k \in Calls, Answer(k), NEW p \in Papers,
         NEW entry, NEW hist, NEW C, Sound(k, p, entry, hist, C),
         shelf' = [shelf EXCEPT ![p] = entry], given' = [given EXCEPT ![p] = hist],
         contended' = [contended EXCEPT ![p] = C]
  PROVE  RowsInv'
<1>1. /\ calls'[k] = Idle /\ mine'[k] = Nothing
      /\ \A q \in Calls \ {k} : calls'[q] = calls[q] /\ mine'[q] = mine[q]
  BY DEF Answer, RowsInv, LibTypeOK
<1>2. /\ shelf'[p] = entry /\ given'[p] = hist /\ contended'[p] = C
      /\ \A q \in Papers \ {p} : /\ shelf'[q] = shelf[q] /\ given'[q] = given[q]
                               /\ contended'[q] = contended[q]
  BY DEF RowsInv, LibTypeOK
<1>3. LibTypeOK'
  <2>1. entry \in AnyRow \cup {Gone} /\ hist \in AnyRow \cup {Gone}
    BY RowFields DEF Sound
  <2>2. /\ shelf' \in [Papers -> AnyRow \cup {Gone}]
        /\ given' \in [Papers -> AnyRow \cup {Gone}]
        /\ contended' \in [Papers -> SUBSET PaperColumns]
    BY <2>1 DEF RowsInv, LibTypeOK, Sound
  <2>3. \A q \in Papers : shelf'[q] \in Rows(q) \cup {Gone} /\ given'[q] \in Rows(q) \cup {Gone}
    BY <1>2 DEF RowsInv, LibTypeOK, Sound
  <2>4. calls' \in [Calls -> CallType]
    BY IdleType DEF Answer, RowsInv, LibTypeOK, CallType
  <2>5. DOMAIN mine' = Calls /\ \A q \in Calls : EditType(mine'[q])
    BY <1>1, IdleType DEF Answer, RowsInv, LibTypeOK, EditType
  <2> QED BY <2>2, <2>3, <2>4, <2>5 DEF LibTypeOK, CallType, EditType
<1>4. CallsOK'
  BY <1>1, IdleType DEF RowsInv, CallsOK, NewOK, EditOK, Paired, Counts
<1>5. LoneIsFresh'
  <2> SUFFICES ASSUME NEW q \in Calls, calls'[q].at = "patch",
                      shelf'[calls'[q].paper] # Gone,
                      NEW c \in calls'[q].lone \ calls'[q].changed
               PROVE  mine'[q][c] = shelf'[calls'[q].paper][c]
    BY DEF LoneIsFresh
  <2>1. q # k /\ calls'[q] = calls[q] /\ mine'[q] = mine[q]
    BY <1>1, IdleType
  <2>2. calls[q].paper \in Papers
    BY <2>1 DEF RowsInv, CallsOK, EditOK, Papers
  <2>3. CASE calls[q].paper = p
    BY <1>2, <2>1, <2>3 DEF Patches, Sound
  <2>4. CASE calls[q].paper # p
    BY <1>2, <2>1, <2>2, <2>4 DEF RowsInv, LoneIsFresh
  <2> QED BY <2>3, <2>4
<1>6. LoneIsLone'
  BY <1>1, IdleType DEF RowsInv, LoneIsLone, Patches
<1>7. HistoryOK'
  BY <1>2 DEF RowsInv, HistoryOK, Paired, Counts, Sound
<1>8. EditsKept'
  BY <1>2 DEF RowsInv, EditsKept, Sound
<1>9. OneStar'
  <2> SUFFICES ASSUME NEW r \in Bookmarks, NEW q \in Bookmarks,
                      shelf'[r] # Gone, shelf'[q] # Gone, r # q,
                      shelf'[r].lesson = shelf'[q].lesson
               PROVE  FALSE
    BY DEF OneStar
  <2>1. r \in Papers /\ q \in Papers
    BY DEF Papers
  <2> QED BY <1>2, <2>1 DEF RowsInv, OneStar, Sound
<1> QED BY <1>3, <1>4, <1>5, <1>6, <1>7, <1>8, <1>9 DEF RowsInv

LEMMA InsertPreserves ==
  ASSUME RowsInv, NEW k \in Calls, NEW p \in Papers, Insert(k, p)
  PROVE  RowsInv'
<1> DEFINE entry == mine[k]
           C   == DOMAIN entry \ calls[k].lone
<1>1. /\ entry \in Rows(p) /\ Answer(k)
      /\ shelf' = [shelf EXCEPT ![p] = entry] /\ given' = [given EXCEPT ![p] = entry]
      /\ contended' = [contended EXCEPT ![p] = C]
      /\ \A q \in Calls : ~Patches(q, p)
      /\ NewOK(calls[k], entry)
  BY DEF Insert, Patches, RowsInv, CallsOK
<1>2. DOMAIN entry = Fields(p) /\ Fields(p) \subseteq PaperColumns /\ entry # Gone
  BY <1>1, RowFields
<1>3. ASSUME p \in Topologies
      PROVE  Paired(C) /\ ("document" \notin C => Counts(entry))
  BY <1>1, <1>2, <1>3 DEF Rows, Fields, NewOK, Paired
<1>4. p \in Bookmarks =>
        \A q \in Bookmarks \ {p} : shelf[q] # Gone => shelf[q].lesson # entry.lesson
  BY DEF Insert, Starred
<1>5. C \in SUBSET PaperColumns
  BY <1>2
<1>6. Sound(k, p, entry, entry, C)
  BY <1>1, <1>2, <1>3, <1>4, <1>5 DEF Sound
<1> HIDE DEF entry, C
<1> QED BY <1>1, <1>6, Answered

LEMMA DeletePreserves ==
  ASSUME RowsInv, NEW k \in Calls, Delete(k)
  PROVE  RowsInv'
<1>1. PICK p \in Papers : p = calls[k].paper
  BY DEF Delete, RowsInv, CallsOK
<1>2. Sound(k, p, Gone, Gone, {})
  BY DEF Sound
<1>3. /\ Answer(k)
      /\ shelf' = [shelf EXCEPT ![p] = Gone] /\ given' = [given EXCEPT ![p] = Gone]
      /\ contended' = [contended EXCEPT ![p] = {}]
  BY <1>1 DEF Delete
<1> QED BY <1>2, <1>3, Answered

LEMMA UpdatePreserves ==
  ASSUME RowsInv, NEW k \in Calls, Update(k)
  PROVE  RowsInv'
<1> DEFINE p    == calls[k].paper
           edit == mine[k]
           entry  == Overlaid(shelf[p], calls[k].changed, edit)
           hist == Overlaid(given[p], DOMAIN edit, edit)
           C    == (contended[p] \cup DOMAIN edit) \ calls[k].lone
<1>1. /\ EditOK(calls[k], edit) /\ EditType(edit) /\ Answer(k) /\ shelf[p] # Gone
      /\ calls[k].at = "patch"
  BY DEF Update, RowsInv, CallsOK, LibTypeOK, EditType
<1>2. p \in Papers /\ p \notin Bookmarks
  BY <1>1, PapersAssumption DEF EditOK, Papers
<1>3. /\ shelf' = [shelf EXCEPT ![p] = entry] /\ given' = [given EXCEPT ![p] = hist]
      /\ contended' = [contended EXCEPT ![p] = C]
  BY <1>2 DEF Update, RowsInv, LibTypeOK
<1>4. /\ shelf[p] \in Rows(p) /\ given[p] \in Rows(p) /\ given[p] # Gone
      /\ contended[p] \in SUBSET PaperColumns
  BY <1>1, <1>2 DEF RowsInv, LibTypeOK, HistoryOK
<1>5. DOMAIN shelf[p] = Fields(p) /\ DOMAIN given[p] = Fields(p) /\ Fields(p) \subseteq PaperColumns
  BY <1>2, <1>4, RowFields
<1>6. /\ DOMAIN edit \subseteq Fields(p) /\ calls[k].changed \in SUBSET DOMAIN edit
      /\ calls[k].lone \in SUBSET DOMAIN edit
  BY <1>1 DEF EditOK
<1>7. /\ entry \in Rows(p) /\ DOMAIN entry = Fields(p)
      /\ \A c \in Fields(p) : entry[c] = IF c \in calls[k].changed THEN edit[c] ELSE shelf[p][c]
  BY <1>1, <1>2, <1>4, <1>5, <1>6, OverlaidRow DEF EditType
<1>8. /\ hist \in Rows(p) /\ DOMAIN hist = Fields(p)
      /\ \A c \in Fields(p) : hist[c] = IF c \in DOMAIN edit THEN edit[c] ELSE given[p][c]
  BY <1>1, <1>2, <1>4, <1>5, <1>6, OverlaidRow DEF EditType
<1>9. entry # Gone /\ hist # Gone /\ C \in SUBSET PaperColumns
  BY <1>2, <1>4, <1>5, <1>6, <1>7, <1>8, RowFields
<1>10. \A c \in calls[k].lone \ calls[k].changed : edit[c] = shelf[p][c]
  BY <1>1 DEF RowsInv, LoneIsFresh
<1>11. \A c \in Fields(p) \ contended[p] : shelf[p][c] = given[p][c]
  BY <1>1, <1>2, <1>5 DEF RowsInv, EditsKept
<1>12. \A q \in Calls \ {k} : Patches(q, p) =>
         /\ calls[q].lone \cap DOMAIN edit = {}
         /\ calls[q].lone \subseteq Fields(p)
         /\ \A c \in calls[q].lone \ calls[q].changed : mine[q][c] = shelf[p][c]
  <2> SUFFICES ASSUME NEW q \in Calls, q # k, Patches(q, p)
               PROVE  /\ calls[q].lone \cap DOMAIN edit = {}
                      /\ calls[q].lone \subseteq Fields(p)
                      /\ \A c \in calls[q].lone \ calls[q].changed : mine[q][c] = shelf[p][c]
    OBVIOUS
  <2>1. calls[q].at = "patch" /\ calls[q].paper = p /\ Patches(k, p)
    BY <1>1 DEF Patches
  <2>2. calls[q].lone \cap DOMAIN edit = {}
    BY <2>1 DEF RowsInv, LoneIsLone
  <2>3. calls[q].lone \subseteq Fields(p)
    BY <2>1 DEF RowsInv, CallsOK, EditOK
  <2>4. \A c \in calls[q].lone \ calls[q].changed : mine[q][c] = shelf[p][c]
    BY <1>1, <2>1 DEF RowsInv, LoneIsFresh
  <2> QED BY <2>2, <2>3, <2>4
<1>13. ASSUME p \in Topologies
       PROVE  Paired(C) /\ ("document" \notin C => Counts(hist))
  <2>1. /\ Paired(contended[p]) /\ Paired(DOMAIN edit) /\ Paired(calls[k].lone)
        /\ "document" \notin contended[p] => Counts(given[p])
        /\ "document" \in DOMAIN edit => Counts(edit)
    BY <1>1, <1>2, <1>13 DEF RowsInv, HistoryOK, EditOK
  <2>2. "document" \in Fields(p) /\ "count" \in Fields(p)
    BY <1>13 DEF Fields
  <2> QED BY <1>8, <2>1, <2>2, <1>6 DEF Paired, Counts
<1> HIDE DEF p, edit, entry, hist, C
<1>14. \A c \in DOMAIN entry \ C : entry[c] = hist[c]
  BY <1>6, <1>7, <1>8, <1>10, <1>11 DEF C
<1>15. \A q \in Calls \ {k} : Patches(q, p) =>
         \A c \in calls[q].lone \ calls[q].changed : mine[q][c] = entry[c]
  BY <1>6, <1>7, <1>12
<1>16. Sound(k, p, entry, hist, C)
  BY <1>2, <1>7, <1>8, <1>9, <1>13, <1>14, <1>15 DEF Sound
<1>17. PICK paper, new, old, cols :
         paper \in Papers /\ paper = p /\ new = entry /\ old = hist /\ cols = C
  BY <1>2
<1> QED BY <1>1, <1>3, <1>16, <1>17, Answered

LEMMA PatchPreserves ==
  ASSUME RowsInv, NEW k \in Calls, NEW p \in Papers \ Bookmarks,
         NEW C \in Payloads(p), NEW new \in Asked(p), PatchRow(k, p, new, C)
  PROVE  RowsInv'
<1> DEFINE lone == {c \in C : \A r \in Calls : Patches(r, p) => c \notin DOMAIN mine[r]}
           call == [at |-> "patch", paper |-> p, changed |-> ChangedColumns(p, new, C), lone |-> lone]
           edit == [c \in C |-> new[c]]
<1>1. /\ new \in Rows(p) /\ (p \in Topologies => Counts(new))
      /\ DOMAIN new = Fields(p) /\ Fields(p) \subseteq PaperColumns
      /\ \A c \in Fields(p) : new[c] \in Value[c]
  BY AskedRows, RowFields
<1>2. shelf[p] \in Rows(p) /\ shelf[p] # Gone /\ DOMAIN shelf[p] = Fields(p)
  <2>1. shelf[p] \in Rows(p) \cup {Gone} /\ shelf[p] # Gone
    BY DEF RowsInv, LibTypeOK, Payloads
  <2> QED BY <2>1, RowFields
<1>3. C \subseteq Fields(p) /\ Paired(C)
  BY <1>2 DEF Payloads, Paired
<1>4. /\ EditType(edit) /\ DOMAIN edit = C /\ \A c \in C : edit[c] = new[c]
  BY <1>1, <1>3 DEF EditType
<1>5. lone \subseteq C /\ ChangedColumns(p, new, C) \subseteq C
  BY DEF ChangedColumns
<1>6. /\ call.at = "patch" /\ call.paper = p /\ call.lone = lone
      /\ call.changed = ChangedColumns(p, new, C) /\ call \in CallType
  BY <1>1, <1>3, <1>5 DEF CallType
<1>7. \A q \in Calls : Patches(q, p) => EditOK(calls[q], mine[q])
  BY DEF RowsInv, CallsOK, Patches
<1>8. Paired(lone)
  BY <1>3, <1>7 DEF EditOK, Paired
<1>9. EditOK(call, edit)
  <2>1. "document" \in C => Counts(edit)
    BY <1>1, <1>3, <1>4 DEF Paired, Counts, Fields
  <2> QED BY <1>3, <1>4, <1>5, <1>6, <1>8, <2>1 DEF EditOK, Papers
<1>10. /\ calls'[k] = call /\ mine'[k] = edit /\ DOMAIN mine' = Calls
       /\ \A q \in Calls \ {k} :
            /\ mine'[q] = mine[q]
            /\ calls'[q] = IF Patches(q, p) THEN [calls[q] EXCEPT !.lone = @ \ C] ELSE calls[q]
       /\ DOMAIN calls' = Calls /\ UNCHANGED <<shelf, given, contended>>
  BY DEF PatchRow, RowsInv, LibTypeOK
<1>11. calls' = [q \in Calls |-> calls'[q]]
  BY DEF PatchRow
<1> HIDE DEF lone, call, edit
<1>12. ASSUME NEW q \in Calls \ {k}
       PROVE  /\ calls'[q] \in CallType
              /\ calls'[q].at = calls[q].at /\ calls'[q].paper = calls[q].paper
              /\ calls'[q].changed = calls[q].changed
              /\ calls'[q].lone = IF Patches(q, p) THEN calls[q].lone \ C ELSE calls[q].lone
  <2>1. calls[q] \in CallType
    BY DEF RowsInv, LibTypeOK, CallType
  <2>2. CASE Patches(q, p)
    BY <1>10, <2>1, <2>2 DEF CallType
  <2>3. CASE ~Patches(q, p)
    BY <1>10, <2>1, <2>3
  <2> QED BY <2>2, <2>3
<1>13. LibTypeOK'
  <2>1. calls' \in [Calls -> CallType]
    BY <1>6, <1>10, <1>11, <1>12
  <2>2. \A q \in Calls : EditType(mine'[q])
    BY <1>4, <1>10 DEF RowsInv, LibTypeOK, EditType
  <2> QED BY <1>10, <2>1, <2>2 DEF RowsInv, LibTypeOK, CallType, EditType
<1>14. CallsOK'
  <2> SUFFICES ASSUME NEW q \in Calls
               PROVE  /\ calls'[q].at \in {"copy", "insert"} => NewOK(calls'[q], mine'[q])
                      /\ calls'[q].at = "copy" => mine'[q] \in TopologyRow
                      /\ calls'[q].at = "patch" => EditOK(calls'[q], mine'[q])
                      /\ calls'[q].at = "delete" => calls'[q].paper \in Papers
                      /\ calls'[q].at = "idle" => calls'[q].paper = Gone
    BY DEF CallsOK
  <2>1. CASE q = k
    BY <1>6, <1>9, <1>10, <2>1
  <2>2. CASE q # k /\ ~Patches(q, p)
    BY <1>10, <2>2 DEF RowsInv, CallsOK
  <2>3. CASE q # k /\ Patches(q, p)
    <3>1. calls'[q].at = "patch" /\ EditOK(calls[q], mine[q])
      BY <1>7, <1>12, <2>3 DEF Patches
    <3>2. EditOK(calls'[q], mine'[q])
      BY <1>3, <1>10, <1>12, <2>3, <3>1 DEF EditOK, Paired
    <3> QED BY <3>1, <3>2
  <2> QED BY <2>1, <2>2, <2>3
<1>15. LoneIsFresh'
  <2> SUFFICES ASSUME NEW q \in Calls, calls'[q].at = "patch",
                      shelf'[calls'[q].paper] # Gone,
                      NEW c \in calls'[q].lone \ calls'[q].changed
               PROVE  mine'[q][c] = shelf'[calls'[q].paper][c]
    BY DEF LoneIsFresh
  <2>1. CASE q = k
    BY <1>4, <1>5, <1>6, <1>10, <2>1 DEF ChangedColumns
  <2>2. CASE q # k
    <3>1. /\ calls[q].at = "patch" /\ shelf[calls[q].paper] # Gone
          /\ c \in calls[q].lone \ calls[q].changed
      BY <1>10, <1>12, <2>2
    <3>2. mine[q][c] = shelf[calls[q].paper][c]
      BY <3>1 DEF RowsInv, LoneIsFresh
    <3> QED BY <1>10, <1>12, <2>2, <3>2
  <2> QED BY <2>1, <2>2
<1>16. LoneIsLone'
  <2> SUFFICES ASSUME NEW r \in Calls, NEW q \in Calls, r # q, calls'[r].at = "patch",
                      calls'[q].at = "patch", calls'[q].paper = calls'[r].paper
               PROVE  calls'[r].lone \cap DOMAIN mine'[q] = {}
    BY DEF LoneIsLone, Patches
  <2>1. CASE r = k
    <3>1. q # k /\ Patches(q, p) /\ mine'[q] = mine[q]
      BY <1>6, <1>10, <1>12, <2>1 DEF Patches
    <3> QED BY <1>6, <1>10, <2>1, <3>1 DEF lone
  <2>2. CASE q = k
    <3>1. r # k /\ Patches(r, p)
      BY <1>6, <1>10, <1>12, <2>2 DEF Patches
    <3> QED BY <1>4, <1>10, <1>12, <2>2, <3>1
  <2>3. CASE r # k /\ q # k
    <3>1. calls[r].at = "patch" /\ Patches(q, calls[r].paper) /\ mine'[q] = mine[q]
      BY <1>10, <1>12, <2>3 DEF Patches
    <3>2. calls'[r].lone \subseteq calls[r].lone
      BY <1>12, <2>3
    <3> QED BY <2>3, <3>1, <3>2 DEF RowsInv, LoneIsLone
  <2> QED BY <2>1, <2>2, <2>3
<1>17. (HistoryOK /\ EditsKept /\ OneStar)'
  BY <1>10 DEF RowsInv, HistoryOK, EditsKept, OneStar, Paired, Counts
<1> QED BY <1>13, <1>14, <1>15, <1>16, <1>17 DEF RowsInv

-----------------------------------------------------------------------------
(* The limit *)

LEMMA RowsStart == LibInit => RowsInv
<1> SUFFICES ASSUME LibInit PROVE RowsInv
  OBVIOUS
<1>1. LibTypeOK
  BY IdleType DEF LibInit, LibTypeOK, CallType, EditType
<1>2. CallsOK /\ LoneIsFresh /\ LoneIsLone
  BY IdleType DEF LibInit, CallsOK, LoneIsFresh, LoneIsLone, Patches
<1>3. HistoryOK /\ EditsKept
  BY DEF LibInit, HistoryOK, EditsKept
<1>4. OneStar
  BY DEF LibInit, OneStar, Papers
<1> QED BY <1>1, <1>2, <1>3, <1>4 DEF RowsInv

LEMMA RowsKept == RowsInv /\ [LibNext]_libVars => RowsInv'
<1> SUFFICES ASSUME RowsInv, [LibNext]_libVars PROVE RowsInv'
  OBVIOUS
<1>1. ASSUME NEW k \in Calls, CallOn(Papers, k) PROVE RowsInv'
  <2>1. CASE \E p \in Papers : \E entry \in Asked(p) : Create(k, p, entry)
    BY <2>1, CreatePreserves
  <2>2. CASE \E p \in Papers : Insert(k, p)
    BY <2>2, InsertPreserves
  <2>3. CASE \E p \in Papers : Load(k, p)
    BY <2>3, LoadPreserves
  <2>4. CASE \E p \in Papers \cap Topologies : Copy(k, p)
    BY <2>4, CopyPreserves
  <2>5. CASE \E p \in Papers \ Bookmarks :
               \E C \in Payloads(p), new \in Asked(p) : PatchRow(k, p, new, C)
    BY <2>5, PatchPreserves
  <2>6. CASE CountForCopy(k) \/ Update(k) \/ Delete(k) \/ GiveUp(k)
    BY <2>6, CountPreserves, UpdatePreserves, DeletePreserves, GiveUpPreserves
  <2> QED BY <1>1, <2>1, <2>2, <2>3, <2>4, <2>5, <2>6 DEF CallOn
<1>2. CASE UNCHANGED libVars
  BY <1>2 DEF libVars, RowsInv, LibTypeOK, CallsOK, NewOK, EditOK, Paired, Counts,
              LoneIsFresh, LoneIsLone, Patches, HistoryOK, EditsKept, OneStar
<1> QED BY <1>1, <1>2 DEF LibNext

\* Sets of a learner's topologies, and of calls.
LEMMA Sizes ==
  /\ Cardinality(Calls) \in Nat \ {0}
  /\ \A T \in SUBSET Topologies :
       /\ IsFiniteSet(T) /\ Cardinality(T) \in Nat
       /\ \A S \in SUBSET T : Cardinality(S) <= Cardinality(T)
  /\ \A T \in SUBSET Calls :
       /\ IsFiniteSet(T) /\ Cardinality(T) \in Nat
       /\ \A S \in SUBSET T : Cardinality(S) <= Cardinality(T)
<1>1. \A T \in SUBSET Topologies :
        /\ IsFiniteSet(T) /\ \A S \in SUBSET T : Cardinality(S) <= Cardinality(T)
  BY PapersAssumption, FS_Subset
<1>2. \A T \in SUBSET Calls :
        /\ IsFiniteSet(T) /\ \A S \in SUBSET T : Cardinality(S) <= Cardinality(T)
  BY CallsAssumption, FS_Subset
<1>3. Cardinality(Calls) # 0
  BY CallsAssumption, FS_EmptySet
<1> QED BY <1>1, <1>2, <1>3, CallsAssumption, FS_CardinalityType

\* Neither a topology nor an insert of one more.
LEMMA NoneMore ==
  ASSUME LimitInv, Owned' \subseteq Owned, Inserting' \subseteq Inserting
  PROVE  LimitInv'
<1>1. /\ Owned \in SUBSET Topologies /\ Owned' \in SUBSET Topologies
      /\ Inserting \in SUBSET Calls /\ Inserting' \in SUBSET Calls
  BY DEF Owned, Inserting
<1>2. Cardinality(Owned') <= Cardinality(Owned) /\ Cardinality(Inserting') <= Cardinality(Inserting)
  BY <1>1, Sizes
<1> QED BY <1>1, <1>2, Sizes, LimitsAssumption DEF LimitInv

\* An insert more, after the topologies were counted.
LEMMA OneMore ==
  ASSUME BelowLimit, Owned' = Owned
  PROVE  LimitInv'
<1>1. Owned \in SUBSET Topologies /\ Inserting' \in SUBSET Calls
  BY DEF Owned, Inserting
<1>2. Cardinality(Inserting') <= Cardinality(Calls)
  BY <1>1, Sizes
<1> QED BY <1>1, <1>2, Sizes, LimitsAssumption DEF LimitInv, BelowLimit

LEMMA InsertWithin ==
  ASSUME LibTypeOK, LimitInv, NEW k \in Calls, NEW p \in Papers, Insert(k, p)
  PROVE  LimitInv'
<1>1. /\ shelf' = [shelf EXCEPT ![p] = mine[k]] /\ calls' = [calls EXCEPT ![k] = Idle]
      /\ \A q \in Calls \ {k} : mine'[q] = mine[q]
      /\ calls[k].at = "insert" /\ mine[k] \in Rows(p) /\ shelf[p] = Gone
  BY DEF Insert, Answer, LibTypeOK
<1>2. Inserting' \subseteq Inserting \ {k}
  BY <1>1 DEF Inserting, LibTypeOK, Idle
<1>3. CASE p \in Topologies
  <2>1. Owned' \subseteq Owned \cup {p} /\ p \notin Owned
    BY <1>1, <1>3 DEF Owned, LibTypeOK, Papers
  <2>2. k \in Inserting
    BY <1>1, <1>3 DEF Inserting, Rows
  <2>3. /\ Owned \in SUBSET Topologies /\ Owned \cup {p} \in SUBSET Topologies
        /\ Owned' \in SUBSET Topologies
        /\ Inserting \in SUBSET Calls /\ Inserting \ {k} \in SUBSET Calls
        /\ Inserting' \in SUBSET Calls
    BY <1>3 DEF Owned, Inserting
  <2>4. Cardinality(Owned \cup {p}) = Cardinality(Owned) + 1
    BY <2>1, <2>3, Sizes, FS_AddElement
  <2>5. Cardinality(Inserting \ {k}) = Cardinality(Inserting) - 1
    BY <2>2, <2>3, Sizes, FS_RemoveElement
  <2>6. /\ Cardinality(Owned') <= Cardinality(Owned \cup {p})
        /\ Cardinality(Inserting') <= Cardinality(Inserting \ {k})
    BY <1>2, <2>1, <2>3, Sizes
  <2> QED BY <2>3, <2>4, <2>5, <2>6, Sizes, LimitsAssumption DEF LimitInv
<1>4. CASE p \notin Topologies
  BY <1>1, <1>2, <1>4, NoneMore DEF Owned, LibTypeOK
<1> QED BY <1>3, <1>4

LEMMA LimitStarts == LibInit => LimitInv
<1> SUFFICES ASSUME LibInit PROVE LimitInv
  OBVIOUS
<1>1. Owned = {} /\ Inserting = {}
  BY IdleType DEF LibInit, Owned, Inserting, Papers
<1> QED BY <1>1, FS_EmptySet, Sizes, LimitsAssumption DEF LimitInv

LEMMA LimitKept == RowsInv /\ LimitInv /\ [LibNext]_libVars => LimitInv'
<1> SUFFICES ASSUME LibTypeOK, LimitInv, CallsOK, [LibNext]_libVars PROVE LimitInv'
  BY DEF RowsInv
<1>1. ASSUME NEW k \in Calls, CallOn(Papers, k) PROVE LimitInv'
  <2>1. ASSUME NEW p \in Papers, NEW entry \in Asked(p), Create(k, p, entry)
        PROVE  LimitInv'
    <3>1. CASE p \in Topologies
      BY <2>1, <3>1, OneMore DEF Create, Owned
    <3>2. CASE p \notin Topologies
      <4>1. entry \notin TopologyRow
        BY <3>2, AskedRows, Kinds
      <4> QED BY <2>1, <4>1, NoneMore DEF Create, Owned, Inserting, LibTypeOK
    <3> QED BY <3>1, <3>2
  <2>2. ASSUME NEW p \in Papers, Insert(k, p) PROVE LimitInv'
    BY <2>2, InsertWithin
  <2>3. ASSUME NEW p \in Papers, Load(k, p) PROVE LimitInv'
    BY <2>3, NoneMore DEF Load, Owned, Inserting, LibTypeOK, Idle
  <2>4. ASSUME NEW p \in Topologies, Copy(k, p) PROVE LimitInv'
    BY <2>4, NoneMore DEF Copy, Owned, Inserting, LibTypeOK, Idle
  <2>5. ASSUME NEW p \in Papers, NEW C, NEW new, PatchRow(k, p, new, C) PROVE LimitInv'
    BY <2>5, NoneMore DEF PatchRow, Owned, Inserting, LibTypeOK, Patches
  <2>6. ASSUME CountForCopy(k) PROVE LimitInv'
    BY <2>6, OneMore DEF CountForCopy, Owned
  <2>7. ASSUME Update(k) PROVE LimitInv'
    BY <2>7, NoneMore DEF Update, Answer, Owned, Inserting, LibTypeOK, Idle
  <2>8. ASSUME Delete(k) PROVE LimitInv'
    BY <2>8, NoneMore DEF Delete, Answer, Owned, Inserting, LibTypeOK, Idle
  <2>9. ASSUME GiveUp(k) PROVE LimitInv'
    BY <2>9, NoneMore DEF GiveUp, Answer, Owned, Inserting, LibTypeOK, Idle
  <2> QED BY <1>1, <2>1, <2>2, <2>3, <2>4, <2>5, <2>6, <2>7, <2>8, <2>9 DEF CallOn
<1>2. CASE UNCHANGED libVars
  BY <1>2, NoneMore DEF libVars, Owned, Inserting
<1> QED BY <1>1, <1>2 DEF LibNext

-----------------------------------------------------------------------------
\* Whatever calls of a learner overlap, the invariant holds.
THEOREM LibraryInvariant == LibSpec => []LibInv
<1>1. LibInit => LibInv
  BY RowsStart, LimitStarts DEF LibInv
<1>2. LibInv /\ [LibNext]_libVars => LibInv'
  BY RowsKept, LimitKept DEF LibInv
<1> QED BY <1>1, <1>2, PTL DEF LibSpec

\* Rows of topologies, notes and bookmarks hold what their columns admit
\* (models/topology.py, models/notes.py), and so does every call under way.
THEOREM LibraryTypeCorrect == LibSpec => []LibTypeOK
<1>1. LibInv => LibTypeOK
  BY DEF LibInv, RowsInv
<1> QED BY <1>1, LibraryInvariant, PTL

\* A learner's shelf stays in order: calls that overlap exceed the limit of
\* topologies (_enforce_quota) by no more than the calls there can be besides
\* one; an edit of some columns survives overlapping edits of others; a topology
\* counts its devices unless saves of its document overlapped; a lesson has one star.
THEOREM ShelfStaysInOrder == LibSpec => []ShelfInOrder
<1>1. ASSUME LibInv PROVE WithinLimit
  <2>1. Owned \in SUBSET Topologies /\ Inserting \in SUBSET Calls
    BY DEF Owned, Inserting
  <2> QED BY <1>1, <2>1, Sizes, LimitsAssumption DEF LibInv, LimitInv, WithinLimit
<1>2. ASSUME LibInv PROVE EditsKept /\ OneStar
  BY <1>2 DEF LibInv, RowsInv
<1>3. ASSUME LibInv PROVE CountsItsDevices
  BY <1>3, ShownCounts DEF LibInv, CountsItsDevices, Counts
<1>4. LibInv => ShelfInOrder
  BY <1>1, <1>2, <1>3 DEF ShelfInOrder
<1> QED BY <1>4, LibraryInvariant, PTL
=============================================================================
