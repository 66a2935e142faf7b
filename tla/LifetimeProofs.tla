--------------------------- MODULE LifetimeProofs ---------------------------
(***************************************************************************)
(* NoLeak for every number of lines and every set of encodings.  NoLeak   *)
(* is not inductive: it says nothing inside the loop body.  LeakInv says   *)
(* what every count is at each control point: the references the parse    *)
(* tree, the engine values and the live C strings hold (Expected).  Each  *)
(* action is shown to move every count by exactly what it moves Expected, *)
(* but for the two id cells, where the second JS_FreeCString of invoke_id  *)
(* after a payload lowers the count below what the code still holds.      *)
(***************************************************************************)
EXTENDS Lifetime, TLAPS

\* The control points inside the loop body, after JS_ParseJSON succeeded.
Mid == {"type", "id", "fields", "free_fields", "nopayload", "free_invoke", "cleanup"}

\* Where type_val (and type_str) are live.
TypeLive == Mid \ {"type"}

\* Where id_val is live (and payload_val, for an invoke with a payload).
IdLive == {"fields", "free_fields", "nopayload", "free_invoke"}

\* The five field values and the two JSON strings.
FieldVals == {<<"val", f>> : f \in Fields} \cup {<<"json", f>> : f \in JsonFields}

\* The cells of the id: the double JS_FreeCString of invoke_id lands here.
IdCells == {Prop("id"), <<"copy", "id">>}

\* The C string variables that still hold their string at control point
\* p on a line of kind k: invoke_id is already freed once at "free_invoke"
\* after a payload.
HeldC(p, k) ==
    (IF p \in TypeLive THEN {"type"} ELSE {})
    \cup (IF p \in IdLive /\ ~(p = "free_invoke" /\ k = "invoke") THEN {"id"} ELSE {})
    \cup (IF p = "free_fields" THEN Fields ELSE {})

\* One if b, else zero.
One(b) == IF b THEN 1 ELSE 0

\* The references the code holds to c at control point p, on a line of
\* kind k, with the C string variables s: the parse tree's, the engine
\* values it got, and the C strings it has not freed.
Expected(p, k, s, c) ==
    One(p \in Mid /\ c \in Parsed(k))
    + One(p \in TypeLive /\ c = Prop("type"))
    + One(p \in IdLive /\ c = Prop("id"))
    + One(p \in IdLive /\ k = "invoke" /\ c = Prop("payload"))
    + One(p = "free_fields" /\ c \in FieldVals)
    + One(\E n \in HeldC(p, k) : s[n] = c)

\* Inductive invariant for NoLeak: every count is what the code holds,
\* but the two id cells, which the double free can only lower.
LeakInv ==
    /\ pc \in Mid \cup {"read", "done"}
    /\ kind \in Kinds
    /\ pc \in Mid => kind # "bad"
    /\ pc \in {"id", "nopayload", "free_invoke"} => kind \in {"invoke", "nopayload"}
    /\ pc \in {"fields", "free_fields"} => kind = "invoke"
    /\ pc = "nopayload" => kind = "nopayload"
    /\ lines \in 0..MaxLines
    /\ cstr \in [CNames -> Cells \cup {Null}]
    /\ \A n \in CNames : cstr[n] \in {Src(n), <<"copy", n>>, Null}
    /\ rc \in [Cells -> Int]
    /\ \A c \in Cells \ IdCells : rc[c] = Expected(pc, kind, cstr, c)
    /\ \A c \in IdCells : rc[c] <= Expected(pc, kind, cstr, c)

-----------------------------------------------------------------------------
(* Lemmas about the reference-count operators.                            *)

\* Dec and Inc change the cells of S by one and leave the others.
LEMMA DecAt ==
    ASSUME NEW m, NEW S, NEW x \in Cells
    PROVE  Dec(m, S)[x] = IF x \in S THEN m[x] - 1 ELSE m[x]
BY DEF Dec

LEMMA IncAt ==
    ASSUME NEW m, NEW S, NEW x \in Cells
    PROVE  Inc(m, S)[x] = IF x \in S THEN m[x] + 1 ELSE m[x]
BY DEF Inc

\* Releasing a value that holds nothing (a property other than the
\* payload, a field, a JSON string or a copy), or that keeps a reference
\* after this one, is one reference less.
LEMMA ReleaseLeaf ==
    ASSUME NEW m, NEW c \in Cells, NEW held, Children(c) = {} \/ m[c] # 1, NEW x \in Cells
    PROVE  Release(m, c, held)[x] = IF x = c THEN m[x] - 1 ELSE m[x]
<1> DEFINE m1 == Dec(m, {c})
<1>1. (IF m[c] = 1 THEN Children(c) \cap held ELSE {}) = {}
  OBVIOUS
<1>2. UNION {Children(y) \cap held : y \in {z \in {} : m1[z] = 1}} = {}
  OBVIOUS
<1>3. Dec(Dec(m1, {}), {})[x] = m1[x]
  BY DEF Dec
<1> QED
  BY <1>1, <1>2, <1>3 DEF Release, Dec

\* The values JS_ParseJSON creates, by kind.
LEMMA ParsedOf ==
    /\ Parsed("bad") = {}
    /\ Parsed("invoke") = {Msg, Prop("type"), Prop("id"), Prop("payload")}
                          \cup {<<"val", f>> : f \in Fields}
    /\ Parsed("other") = {Msg, Prop("type"), Prop("id")}
    /\ Parsed("nopayload") = {Msg, Prop("type"), Prop("id")}
BY DEF Parsed

\* Children of the cells.
LEMMA ChildrenOf ==
    /\ Children(Msg) = {Prop("type"), Prop("id"), Prop("payload")}
    /\ Children(Prop("payload")) = {<<"val", f>> : f \in Fields}
    /\ \A c \in Cells \ {Msg, Prop("payload")} : Children(c) = {}
BY DEF Children, Msg, Prop, Cells

\* Releasing the last reference of the message: it and the properties it
\* holds lose one, and the payload, when that was its last, its fields.
LEMMA ReleaseMsg ==
    ASSUME NEW m \in [Cells -> Int], NEW held, m[Msg] = 1, NEW x \in Cells
    PROVE  Release(m, Msg, held)[x] =
              m[x] - One(x = Msg) - One(x \in Children(Msg) \cap held)
              - One(/\ Prop("payload") \in held /\ m[Prop("payload")] = 1
                    /\ x \in Children(Prop("payload")) \cap held)
<1> DEFINE m1 == Dec(m, {Msg})
           dead1 == Children(Msg) \cap held
           live == {y \in dead1 : m1[y] = 1}
           dead2 == IF Prop("payload") \in held /\ m[Prop("payload")] = 1
                    THEN Children(Prop("payload")) \cap held ELSE {}
<1>1. Msg \in Cells /\ Children(Msg) \subseteq Cells \ {Msg}
  BY ChildrenOf DEF Cells, Msg, Prop
<1>2. \A y \in dead1 : m1[y] = m[y]
  BY <1>1 DEF Dec
<1>3. \A y \in dead1 : y # Prop("payload") => Children(y) = {}
  BY <1>1, ChildrenOf
<1>4. UNION {Children(y) \cap held : y \in live} = dead2
  BY <1>2, <1>3, ChildrenOf
<1>5. Release(m, Msg, held) = Dec(Dec(m1, dead1), dead2)
  BY <1>4 DEF Release
<1>6. Children(Msg) \cup Children(Prop("payload")) \subseteq Cells
  BY ChildrenOf DEF Cells, Prop
<1> QED
  BY <1>5, <1>6, <1>1 DEF Dec, One

\* The C string variables point into different values, or are NULL.
LEMMA PtrDistinct ==
    ASSUME NEW n1 \in CNames, NEW n2 \in CNames, n1 # n2,
           NEW p \in {Src(n1), <<"copy", n1>>, Null},
           p \in {Src(n2), <<"copy", n2>>, Null}
    PROVE  p = Null
BY DEF Src, Prop, CNames, Fields, JsonFields

\* The value a C string variable may point into is a cell.
LEMMA PtrCells ==
    ASSUME NEW n \in CNames
    PROVE  /\ Src(n) \in Cells /\ <<"copy", n>> \in Cells
           /\ \A e \in Encodings : CPtr(n, e) \in {Src(n), <<"copy", n>>, Null}
BY LifetimeAssumption DEF Src, Prop, Cells, CNames, Fields, JsonFields, CPtr

-----------------------------------------------------------------------------
(* LeakInv is inductive.                                                   *)

LEMMA IdCellsIn == IdCells \subseteq Cells
BY DEF IdCells, Cells, Prop, CNames

\* Outside the loop body the code holds nothing.
LEMMA ExpectedOutside ==
    ASSUME NEW p, p \notin Mid, NEW k, NEW s, NEW c
    PROVE  Expected(p, k, s, c) = 0
BY DEF Expected, HeldC, One, Mid, TypeLive, IdLive

\* The control conjuncts of LeakInv: the kind of line each point is on.
OnKind(p, k) ==
    /\ p \in Mid => k # "bad"
    /\ p \in {"id", "nopayload", "free_invoke"} => k \in {"invoke", "nopayload"}
    /\ p \in {"fields", "free_fields"} => k = "invoke"
    /\ p = "nopayload" => k = "nopayload"

\* LeakInv in the next state, from its conjuncts.
LEMMA LeakInvPrimed ==
    ASSUME pc' \in Mid \cup {"read", "done"}, kind' \in Kinds, OnKind(pc', kind'),
           lines' \in 0..MaxLines, cstr' \in [CNames -> Cells \cup {Null}],
           \A n \in CNames : cstr'[n] \in {Src(n), <<"copy", n>>, Null},
           rc' \in [Cells -> Int],
           \A c \in Cells \ IdCells : rc'[c] = Expected(pc', kind', cstr', c),
           \A c \in IdCells : rc'[c] <= Expected(pc', kind', cstr', c)
    PROVE  LeakInv'
<1>1. (/\ pc \in Mid => kind # "bad"
       /\ pc \in {"id", "nopayload", "free_invoke"} => kind \in {"invoke", "nopayload"}
       /\ pc \in {"fields", "free_fields"} => kind = "invoke"
       /\ pc = "nopayload" => kind = "nopayload")'
  BY DEF OnKind
<1> QED
  BY <1>1 DEF LeakInv

\* What the code holds is a count.
LEMMA ExpectedNat ==
    ASSUME NEW p, NEW k, NEW s, NEW c
    PROVE  Expected(p, k, s, c) \in Nat
BY DEF Expected, One

LEMMA LeakInvInit == Init => LeakInv
<1> SUFFICES ASSUME Init PROVE LeakInv
  OBVIOUS
<1>1. \A c \in Cells : Expected(pc, kind, cstr, c) = 0
  BY ExpectedOutside DEF Init, Mid
<1> QED
  BY <1>1, IdCellsIn, LifetimeAssumption, NullAssumption DEF Init, LeakInv, Mid, Kinds

LEMMA LeakInvNext == LeakInv /\ [Next]_vars => LeakInv'
<1> SUFFICES ASSUME LeakInv, [Next]_vars PROVE LeakInv'
  OBVIOUS
<1> USE LifetimeAssumption, NullAssumption
<1> DEFINE E(c) == Expected(pc, kind, cstr, c)
           E1(c) == Expected(pc', kind', cstr', c)
<1>1. CASE ReadLine
  <2>1. PICK k \in Kinds : /\ kind' = k /\ rc' = Inc(rc, Parsed(k))
                           /\ pc' = IF k = "bad" THEN "read" ELSE "type"
    BY <1>1 DEF ReadLine
  <2>2. pc = "read" /\ cstr' = [n \in CNames |-> Null] /\ lines' \in 0..MaxLines
    BY <1>1 DEF ReadLine, LeakInv
  <2>3. \A c \in Cells : E(c) = 0
    BY <2>2, ExpectedOutside DEF Mid
  <2>4. \A c \in Cells : E1(c) = One(c \in Parsed(k))
    BY <2>1 DEF Expected, HeldC, One, Mid, TypeLive, IdLive, Parsed
  <2>5. Parsed(k) \subseteq Cells
    BY DEF Parsed, Cells, Msg, Prop
  <2> QED
    BY <2>1, <2>2, <2>3, <2>4, <2>5, IdCellsIn DEF LeakInv, Inc, One, Mid, Kinds
<1>2. CASE GetType
  <2>1. /\ pc = "type" /\ kind \in {"other", "nopayload", "invoke"}
        /\ pc' = IF kind \in {"invoke", "nopayload"} THEN "id" ELSE "cleanup"
        /\ kind' = kind /\ lines' = lines
    BY <1>2 DEF GetType, LeakInv, Mid, Kinds
  <2>2. PICK e \in [{"type"} -> Encodings] :
           /\ rc' = ToCString([rc EXCEPT ![Prop("type")] = @ + 1], {"type"}, e)
           /\ cstr' = [cstr EXCEPT !["type"] = CPtr("type", e["type"])]
    BY <1>2 DEF GetType
  <2> DEFINE p == CPtr("type", e["type"])
  <2>3. p \in {Src("type"), <<"copy", "type">>, Null} /\ Prop("type") \in Cells
    BY PtrCells DEF CNames, Cells
  <2>4. \A c \in Cells : rc'[c] = rc[c] + One(c = Prop("type")) + One(c = p)
    <3>1. {CPtr(n, e[n]) : n \in {"type"}} \ {Null} = {p} \ {Null}
      OBVIOUS
    <3> QED
      BY <2>2, <2>3, <3>1 DEF ToCString, Inc, One, LeakInv
  <2>5. \A c \in Cells : E(c) = One(c \in Parsed(kind))
    BY <2>1 DEF Expected, HeldC, One, Mid, TypeLive, IdLive
  <2>6. \A c \in Cells : E1(c) = One(c \in Parsed(kind)) + One(c = Prop("type")) + One(c = p)
    <3>1. HeldC(pc', kind') = {"type"}
      BY <2>1 DEF HeldC, TypeLive, IdLive, Mid
    <3>2. cstr'["type"] = p
      BY <2>2 DEF LeakInv, CNames
    <3> QED
      BY <2>1, <3>1, <3>2 DEF Expected, One, Mid, TypeLive, IdLive
  <2>7. /\ cstr' \in [CNames -> Cells \cup {Null}]
        /\ \A n \in CNames : cstr'[n] \in {Src(n), <<"copy", n>>, Null}
    BY <2>2, <2>3, PtrCells DEF LeakInv, CNames
  <2>8. rc' \in [Cells -> Int]
    BY <2>2, <2>3 DEF ToCString, Inc, LeakInv
  <2>9. \A c \in Cells \ IdCells : rc'[c] = E1(c)
    BY <2>4, <2>5, <2>6 DEF LeakInv, One
  <2>10. \A c \in IdCells : rc'[c] <= E1(c)
    BY <2>4, <2>5, <2>6, IdCellsIn DEF LeakInv, One
  <2>11. OnKind(pc', kind')
    BY <2>1 DEF OnKind, Mid
  <2> QED
    BY <2>1, <2>7, <2>8, <2>9, <2>10, <2>11, LeakInvPrimed DEF LeakInv, Mid
<1>3. CASE GetId
  <2>1. /\ pc = "id" /\ kind \in {"nopayload", "invoke"}
        /\ pc' = IF kind = "invoke" THEN "fields" ELSE "nopayload"
        /\ kind' = kind /\ lines' = lines
    BY <1>3 DEF GetId, LeakInv, Mid, Kinds
  <2>2. PICK e \in [{"id"} -> Encodings] :
           /\ LET m == ToCString([rc EXCEPT ![Prop("id")] = @ + 1], {"id"}, e)
              IN  rc' = IF kind = "invoke" THEN [m EXCEPT ![Prop("payload")] = @ + 1] ELSE m
           /\ cstr' = [cstr EXCEPT !["id"] = CPtr("id", e["id"])]
    BY <1>3 DEF GetId
  <2> DEFINE p == CPtr("id", e["id"])
  <2>3. /\ p \in {Src("id"), <<"copy", "id">>, Null}
        /\ Prop("id") \in Cells /\ Prop("payload") \in Cells
    BY PtrCells DEF CNames, Cells
  <2>4. \A c \in Cells :
           rc'[c] = rc[c] + One(c = Prop("id")) + One(c = p)
                    + One(kind = "invoke" /\ c = Prop("payload"))
    <3>1. {CPtr(n, e[n]) : n \in {"id"}} \ {Null} = {p} \ {Null}
      OBVIOUS
    <3> QED
      BY <2>2, <2>3, <3>1 DEF ToCString, Inc, One, LeakInv
  <2>5. \A c \in Cells :
           E(c) = One(c \in Parsed(kind)) + One(c = Prop("type")) + One(cstr["type"] = c)
    <3>1. HeldC(pc, kind) = {"type"}
      BY <2>1 DEF HeldC, TypeLive, IdLive, Mid
    <3> QED
      BY <2>1, <3>1 DEF Expected, One, Mid, TypeLive, IdLive
  <2>6. \A c \in Cells :
           E1(c) = One(c \in Parsed(kind)) + One(c = Prop("type")) + One(c = Prop("id"))
                   + One(kind = "invoke" /\ c = Prop("payload"))
                   + One(cstr["type"] = c) + One(c = p)
    <3>1. HeldC(pc', kind') = {"type", "id"}
      BY <2>1 DEF HeldC, TypeLive, IdLive, Mid
    <3>2. cstr'["id"] = p /\ cstr'["type"] = cstr["type"]
      BY <2>2 DEF LeakInv, CNames
    <3>3. \A c \in Cells : ~(cstr["type"] = c /\ p = c)
      BY <2>3, PtrDistinct, NullAssumption DEF LeakInv, CNames
    <3> QED
      BY <2>1, <3>1, <3>2, <3>3 DEF Expected, One, Mid, TypeLive, IdLive
  <2>7. /\ cstr' \in [CNames -> Cells \cup {Null}]
        /\ \A n \in CNames : cstr'[n] \in {Src(n), <<"copy", n>>, Null}
    BY <2>2, <2>3, PtrCells DEF LeakInv, CNames
  <2>8. rc' \in [Cells -> Int]
    BY <2>2, <2>3 DEF ToCString, Inc, LeakInv
  <2>9. \A c \in Cells \ IdCells : rc'[c] = E1(c)
    BY <2>4, <2>5, <2>6 DEF LeakInv, One
  <2>10. \A c \in IdCells : rc'[c] <= E1(c)
    BY <2>4, <2>5, <2>6, IdCellsIn DEF LeakInv, One
  <2>11. OnKind(pc', kind')
    BY <2>1 DEF OnKind, Mid
  <2> QED
    BY <2>1, <2>7, <2>8, <2>9, <2>10, <2>11, LeakInvPrimed DEF LeakInv, Mid
<1>4. CASE ReadFields
  <2>1. /\ pc = "fields" /\ kind = "invoke" /\ pc' = "free_fields"
        /\ kind' = kind /\ lines' = lines
    BY <1>4 DEF ReadFields, LeakInv
  <2> DEFINE m == [c \in Cells |->
                     CASE c \in {<<"val", f>> : f \in Fields} -> rc[c] + 1
                       [] c \in {<<"json", f>> : f \in JsonFields} -> 1
                       [] OTHER -> rc[c]]
  <2>2. PICK e \in [Fields -> Encodings] :
           /\ rc' = ToCString(m, Fields, e)
           /\ cstr' = [n \in CNames |-> IF n \in Fields THEN CPtr(n, e[n]) ELSE cstr[n]]
    BY <1>4 DEF ReadFields
  <2> DEFINE Ptrs == {CPtr(f, e[f]) : f \in Fields} \ {Null}
  <2>3. \A f \in Fields : CPtr(f, e[f]) \in {Src(f), <<"copy", f>>, Null}
    BY PtrCells DEF CNames, Fields
  <2>4. \A c \in Cells : One(\E n \in {"type", "id"} : cstr[n] = c) = One(cstr["type"] = c \/ cstr["id"] = c)
    OBVIOUS
  <2>5. \A c \in {<<"json", f>> : f \in JsonFields} : rc[c] = 0
    <3>1. \A c \in {<<"json", f>> : f \in JsonFields} :
             c \in Cells \ IdCells /\ c \notin Parsed(kind) /\ cstr["type"] # c /\ cstr["id"] # c
      BY DEF LeakInv, Cells, IdCells, Parsed, Msg, Prop, JsonFields, Fields, CNames, Src
    <3>2. HeldC(pc, kind) = {"type", "id"}
      BY <2>1 DEF HeldC, TypeLive, IdLive, Mid
    <3> QED
      BY <2>1, <3>1, <3>2 DEF LeakInv, Expected, One, Mid, TypeLive, IdLive, FieldVals, Prop
  <2>6. \A c \in Cells : rc'[c] = rc[c] + One(c \in FieldVals) + One(c \in Ptrs)
    BY <2>2, <2>5 DEF ToCString, Inc, One, FieldVals, LeakInv
  <2>7. \A c \in Cells :
           E1(c) = E(c) + One(c \in FieldVals) + One(c \in Ptrs)
    <3>1. HeldC(pc, kind) = {"type", "id"} /\ HeldC(pc', kind') = {"type", "id"} \cup Fields
      BY <2>1 DEF HeldC, TypeLive, IdLive, Mid
    <3>2. \A c \in Cells :
             (\E n \in {"type", "id"} \cup Fields : cstr'[n] = c)
             <=> (\E n \in {"type", "id"} : cstr[n] = c) \/ c \in Ptrs
      BY <2>2, NullAssumption DEF CNames, Fields
    <3>3. \A c \in Cells : ~((\E n \in {"type", "id"} : cstr[n] = c) /\ c \in Ptrs)
      <4> SUFFICES ASSUME NEW c \in Cells, NEW n \in {"type", "id"}, cstr[n] = c,
                          NEW f \in Fields, CPtr(f, e[f]) = c
                   PROVE  FALSE
        BY NullAssumption
      <4> QED
        BY <2>3, PtrDistinct, NullAssumption DEF LeakInv, CNames, Fields
    <3>4. \A c \in Cells :
             One(\E n \in HeldC(pc', kind') : cstr'[n] = c)
             = One(\E n \in HeldC(pc, kind) : cstr[n] = c) + One(c \in Ptrs)
      <4> SUFFICES ASSUME NEW c \in Cells
                   PROVE  One(\E n \in HeldC(pc', kind') : cstr'[n] = c)
                          = One(\E n \in HeldC(pc, kind) : cstr[n] = c) + One(c \in Ptrs)
        OBVIOUS
      <4>1. (\E n \in HeldC(pc', kind') : cstr'[n] = c)
            <=> (\E n \in HeldC(pc, kind) : cstr[n] = c) \/ c \in Ptrs
        BY <3>1, <3>2
      <4>2. ~((\E n \in HeldC(pc, kind) : cstr[n] = c) /\ c \in Ptrs)
        BY <3>1, <3>3
      <4> QED
        BY <4>1, <4>2 DEF One
    <3> QED
      BY <2>1, <3>4 DEF Expected, One, Mid, TypeLive, IdLive
  <2>8. /\ cstr' \in [CNames -> Cells \cup {Null}]
        /\ \A n \in CNames : cstr'[n] \in {Src(n), <<"copy", n>>, Null}
    <3>1. \A n \in CNames : cstr'[n] \in {Src(n), <<"copy", n>>, Null}
      BY <2>2, <2>3 DEF LeakInv, CNames, Fields
    <3>2. \A n \in CNames : {Src(n), <<"copy", n>>, Null} \subseteq Cells \cup {Null}
      BY PtrCells
    <3> QED
      BY <2>2, <3>1, <3>2
  <2>9. rc' \in [Cells -> Int]
    BY <2>2 DEF ToCString, Inc, LeakInv
  <2>10. \A c \in Cells \ IdCells : rc'[c] = E1(c)
    BY <2>6, <2>7 DEF LeakInv, One
  <2>11. \A c \in IdCells : rc'[c] <= E1(c)
    BY <2>6, <2>7, IdCellsIn, ExpectedNat DEF LeakInv, One
  <2>12. OnKind(pc', kind')
    BY <2>1 DEF OnKind, Mid
  <2> QED
    BY <2>1, <2>8, <2>9, <2>10, <2>11, <2>12, LeakInvPrimed DEF LeakInv, Mid
<1>5. CASE FreeFields
  <2>1. /\ pc = "free_fields" /\ kind = "invoke" /\ pc' = "free_invoke"
        /\ kind' = kind /\ lines' = lines /\ cstr' = cstr
    BY <1>5 DEF FreeFields, LeakInv
  <2> DEFINE P == {cstr[n] : n \in {"id"} \cup Fields}
  <2>2. \A c \in Cells : rc'[c] = rc[c] - One(c \in P) - One(c \in FieldVals)
    <3>1. \A c \in Cells : FreeCStrings(rc, P)[c] = IF c \in P \ {Null} THEN rc[c] - 1 ELSE rc[c]
      BY DecAt DEF FreeCStrings
    <3>2. rc' = Dec(FreeCStrings(rc, P), FieldVals)
      BY <1>5 DEF FreeFields, FieldVals
    <3> QED
      BY <3>1, <3>2, DecAt, NullAssumption DEF One, LeakInv
  <2>3. HeldC(pc, kind) = {"type"} \cup ({"id"} \cup Fields) /\ HeldC(pc', kind') = {"type"}
    BY <2>1 DEF HeldC, TypeLive, IdLive, Mid
  <2>4. \A c \in Cells :
           One(\E n \in HeldC(pc, kind) : cstr[n] = c)
           = One(cstr["type"] = c) + One(c \in P)
    <3> SUFFICES ASSUME NEW c \in Cells
                 PROVE  One(\E n \in HeldC(pc, kind) : cstr[n] = c)
                        = One(cstr["type"] = c) + One(c \in P)
      OBVIOUS
    <3>1. (\E n \in HeldC(pc, kind) : cstr[n] = c) <=> cstr["type"] = c \/ c \in P
      BY <2>3
    <3>2. ~(cstr["type"] = c /\ c \in P)
      <4> SUFFICES ASSUME cstr["type"] = c, NEW n \in {"id"} \cup Fields, cstr[n] = c
                   PROVE  FALSE
        OBVIOUS
      <4>1. c \in {Src("type"), <<"copy", "type">>, Null} /\ c \in {Src(n), <<"copy", n>>, Null}
        BY DEF LeakInv, CNames, Fields
      <4>2. n \in CNames /\ n # "type"
        BY DEF CNames, Fields
      <4> QED
        BY <4>1, <4>2, PtrDistinct, NullAssumption DEF CNames
    <3>3. CASE cstr["type"] = c
      BY <3>1, <3>2, <3>3 DEF One
    <3>4. CASE c \in P
      BY <3>1, <3>2, <3>4 DEF One
    <3>5. CASE cstr["type"] # c /\ c \notin P
      BY <3>1, <3>5 DEF One
    <3> QED
      BY <3>3, <3>4, <3>5
  <2>5. \A c \in Cells : E1(c) = E(c) - One(c \in FieldVals) - One(c \in P)
    <3>1. \A c \in Cells : One(\E n \in HeldC(pc', kind') : cstr'[n] = c) = One(cstr["type"] = c)
      BY <2>1, <2>3 DEF One
    <3> QED
      BY <2>1, <2>4, <3>1 DEF Expected, One, Mid, TypeLive, IdLive
  <2>6. rc' \in [Cells -> Int]
    BY <1>5 DEF FreeFields, FreeCStrings, Dec, LeakInv
  <2>7. \A c \in Cells \ IdCells : rc'[c] = E1(c)
    BY <2>2, <2>5 DEF LeakInv, One
  <2>8. \A c \in IdCells : rc'[c] <= E1(c)
    BY <2>2, <2>5, IdCellsIn, ExpectedNat DEF LeakInv, One
  <2>9. OnKind(pc', kind')
    BY <2>1 DEF OnKind, Mid
  <2> QED
    BY <2>1, <2>6, <2>7, <2>8, <2>9, LeakInvPrimed DEF LeakInv, Mid
<1>6. CASE NoPayload
  <2>1. pc = "nopayload" /\ pc' = "free_invoke" /\ kind = "nopayload"
    BY <1>6 DEF NoPayload, LeakInv
  <2>2. \A c \in Cells : E1(c) = E(c)
    BY <1>6, <2>1 DEF NoPayload, Expected, HeldC, Mid, TypeLive, IdLive
  <2>3. rc' = rc /\ cstr' = cstr /\ kind' = kind /\ lines' = lines
    BY <1>6 DEF NoPayload
  <2>4. \A c \in Cells \ IdCells : rc'[c] = E1(c)
    BY <2>2, <2>3 DEF LeakInv
  <2>5. \A c \in IdCells : rc'[c] <= E1(c)
    BY <2>2, <2>3, IdCellsIn DEF LeakInv
  <2>6. OnKind(pc', kind')
    BY <2>1, <2>3 DEF OnKind, Mid
  <2> QED
    BY <2>1, <2>3, <2>4, <2>5, <2>6, LeakInvPrimed DEF LeakInv, Mid
<1>7. CASE FreeInvoke
  <2>1. /\ pc = "free_invoke" /\ kind \in {"invoke", "nopayload"} /\ pc' = "cleanup"
        /\ kind' = kind /\ lines' = lines /\ cstr' = cstr
    BY <1>7 DEF FreeInvoke, LeakInv
  <2>2. PICK parsed, mFree, mId :
           /\ mFree = FreeCString(rc, cstr["id"], parsed)
           /\ mId = Release(mFree, Prop("id"), parsed)
           /\ rc' = IF kind = "invoke" THEN Release(mId, Prop("payload"), parsed) ELSE mId
    BY <1>7 DEF FreeInvoke
  <2>3. /\ cstr["id"] \in {Prop("id"), <<"copy", "id">>, Null}
        /\ Prop("id") \in Cells /\ Prop("payload") \in Cells /\ Prop("id") # Prop("payload")
        /\ Children(Prop("id")) = {}
        /\ cstr["id"] # Null => Children(cstr["id"]) = {} /\ cstr["id"] \in Cells
    BY ChildrenOf DEF LeakInv, CNames, Src, Fields, JsonFields, Cells, Msg, Prop
  <2>4. \A x \in Cells : mFree[x] = rc[x] - One(x = cstr["id"])
    BY <2>2, <2>3, ReleaseLeaf, NullAssumption DEF FreeCString, One, LeakInv
  <2>5. \A x \in Cells : mId[x] = rc[x] - One(x = cstr["id"]) - One(x = Prop("id"))
    <3>1. \A x \in Cells : mId[x] = IF x = Prop("id") THEN mFree[x] - 1 ELSE mFree[x]
      <4>1. Children(Prop("id")) = {} /\ Prop("id") \in Cells
        BY <2>3
      <4>2. mId = Release(mFree, Prop("id"), parsed)
        BY <2>2
      <4> QED
        BY <4>1, <4>2, ReleaseLeaf
    <3> QED
      BY <2>4, <3>1 DEF One, LeakInv
  <2>6. kind = "invoke" => rc[Prop("payload")] = 2
    <3>1. Prop("payload") \notin IdCells /\ Prop("payload") # Prop("type")
          /\ Prop("payload") # Prop("id")
          /\ cstr["type"] # Prop("payload") /\ cstr["id"] # Prop("payload")
      BY <2>3, NullAssumption DEF LeakInv, IdCells, Prop, CNames, Src, Fields, JsonFields
    <3>2. Prop("payload") \in Parsed("invoke")
      BY ParsedOf
    <3>3. \A k : \A n \in HeldC("free_invoke", k) : n \in {"type", "id"}
      BY DEF HeldC, TypeLive, IdLive, Mid
    <3>4. ASSUME kind = "invoke" PROVE Expected(pc, kind, cstr, Prop("payload")) = 2
      BY <2>1, <3>1, <3>2, <3>3, <3>4 DEF Expected, One, Mid, TypeLive, IdLive
    <3> QED
      BY <2>3, <3>1, <3>4 DEF LeakInv
  <2>7. \A x \in Cells :
           rc'[x] = rc[x] - One(x = cstr["id"]) - One(x = Prop("id"))
                    - One(kind = "invoke" /\ x = Prop("payload"))
    <3>1. kind = "invoke" => mId[Prop("payload")] # 1
      <4>1. Prop("payload") # cstr["id"]
        BY <2>3, NullAssumption DEF LeakInv, Prop, CNames, Src, Fields, JsonFields
      <4> QED
        BY <2>3, <2>5, <2>6, <4>1 DEF One
    <3>2. kind = "invoke" =>
            \A x \in Cells : rc'[x] = IF x = Prop("payload") THEN mId[x] - 1 ELSE mId[x]
      BY <2>2, <2>3, <3>1, ReleaseLeaf
    <3> QED
      BY <2>5, <3>2, <2>2 DEF One, LeakInv
  <2>8. \A c \in Cells :
           E1(c) = E(c) - One(c = Prop("id")) - One(kind = "invoke" /\ c = Prop("payload"))
                   - One(kind # "invoke" /\ cstr["id"] = c)
    <3>1. HeldC(pc, kind) = {"type"} \cup (IF kind = "invoke" THEN {} ELSE {"id"})
          /\ HeldC(pc', kind') = {"type"}
      BY <2>1 DEF HeldC, TypeLive, IdLive, Mid
    <3>2. \A c \in Cells : ~(cstr["type"] = c /\ cstr["id"] = c)
      BY PtrDistinct, NullAssumption DEF LeakInv, CNames
    <3>3. \A c \in Cells :
             One(\E n \in HeldC(pc, kind) : cstr[n] = c)
             = One(cstr["type"] = c) + One(kind # "invoke" /\ cstr["id"] = c)
      BY <3>1, <3>2 DEF One
    <3> QED
      BY <2>1, <3>1, <3>3 DEF Expected, One, Mid, TypeLive, IdLive
  <2>9. \A c \in Cells \ IdCells : cstr["id"] # c
    BY <2>3 DEF IdCells
  <2>10. rc' \in [Cells -> Int]
    <3>1. rc' = [x \in Cells |-> rc'[x]]
      BY <2>2 DEF Release, Dec
    <3>2. \A x \in Cells : rc'[x] \in Int
      BY <2>7 DEF LeakInv, One
    <3> QED
      BY <3>1, <3>2
  <2>11. \A c \in Cells \ IdCells : rc'[c] = E1(c)
    BY <2>7, <2>8, <2>9 DEF LeakInv, One
  <2>12. \A c \in IdCells : rc'[c] <= E1(c)
    BY <2>7, <2>8, IdCellsIn, ExpectedNat DEF LeakInv, One
  <2>13. OnKind(pc', kind')
    BY <2>1 DEF OnKind, Mid
  <2> QED
    BY <2>1, <2>10, <2>11, <2>12, <2>13, LeakInvPrimed DEF LeakInv, Mid
<1>8. CASE Cleanup
  <2>1. /\ pc = "cleanup" /\ kind \in {"other", "nopayload", "invoke"} /\ pc' = "read"
        /\ kind' = kind /\ lines' = lines /\ cstr' = cstr
    BY <1>8 DEF Cleanup, LeakInv, Mid, Kinds
  <2>2. PICK parsed, mFree, mType :
           /\ parsed = Parsed(kind)
           /\ mFree = FreeCString(rc, cstr["type"], parsed)
           /\ mType = Release(mFree, Prop("type"), parsed)
           /\ rc' = Release(mType, Msg, parsed)
    BY <1>8 DEF Cleanup
  <2>3. /\ cstr["type"] \in {Prop("type"), <<"copy", "type">>, Null}
        /\ Prop("type") \in Cells /\ Msg \in Cells
        /\ Children(Prop("type")) = {}
        /\ cstr["type"] # Null => Children(cstr["type"]) = {} /\ cstr["type"] \in Cells
    BY ChildrenOf DEF LeakInv, CNames, Src, Fields, JsonFields, Cells, Msg, Prop
  <2>4. \A x \in Cells : mFree[x] = rc[x] - One(x = cstr["type"])
    BY <2>2, <2>3, ReleaseLeaf, NullAssumption DEF FreeCString, One, LeakInv
  <2>5. \A x \in Cells : mType[x] = rc[x] - One(x = cstr["type"]) - One(x = Prop("type"))
    <3>1. \A x \in Cells : mType[x] = IF x = Prop("type") THEN mFree[x] - 1 ELSE mFree[x]
      <4>1. mType = Release(mFree, Prop("type"), parsed)
        BY <2>2
      <4> QED
        BY <2>3, <4>1, ReleaseLeaf
    <3> QED
      BY <2>4, <3>1 DEF One, LeakInv
  <2>6. HeldC(pc, kind) = {"type"}
    BY <2>1 DEF HeldC, TypeLive, IdLive, Mid
  <2>7. \A c \in Cells :
           E(c) = One(c \in parsed) + One(c = Prop("type")) + One(cstr["type"] = c)
    BY <2>1, <2>2, <2>6 DEF Expected, One, Mid, TypeLive, IdLive
  \* msg_val and, for an invoke, payload_val hold their last reference.
  <2>8. /\ Msg \in parsed /\ Msg \notin IdCells
        /\ Msg # Prop("type") /\ cstr["type"] # Msg
        /\ Prop("payload") \in Cells /\ Prop("payload") \notin IdCells
        /\ Prop("payload") # Prop("type") /\ cstr["type"] # Prop("payload")
        /\ Prop("payload") \in parsed <=> kind = "invoke"
    BY <2>1, <2>2, <2>3, ParsedOf, NullAssumption
       DEF LeakInv, IdCells, Msg, Prop, Cells, CNames, Src, Fields, JsonFields
  <2>9. mType[Msg] = 1 /\ (kind = "invoke" => mType[Prop("payload")] = 1)
    <3>1. rc[Msg] = 1
      <4>1. Msg \in Cells \ IdCells
        BY <2>3, <2>8
      <4>2. E(Msg) = 1
        BY <2>7, <2>8, <2>3 DEF One
      <4> QED
        BY <4>1, <4>2 DEF LeakInv
    <3>2. kind = "invoke" => rc[Prop("payload")] = 1
      <4>1. Prop("payload") \in Cells \ IdCells
        BY <2>8
      <4>2. kind = "invoke" => E(Prop("payload")) = 1
        BY <2>7, <2>8 DEF One
      <4> QED
        BY <4>1, <4>2 DEF LeakInv
    <3> QED
      BY <2>3, <2>5, <2>8, <3>1, <3>2 DEF One
  <2>10. \A x \in Cells :
            rc'[x] = mType[x] - One(x = Msg) - One(x \in Children(Msg) \cap parsed)
                     - One(/\ Prop("payload") \in parsed /\ mType[Prop("payload")] = 1
                           /\ x \in Children(Prop("payload")) \cap parsed)
    <3>1. mType \in [Cells -> Int]
      <4>1. mType = [x \in Cells |-> mType[x]]
        BY <2>2 DEF Release, Dec
      <4>2. \A x \in Cells : mType[x] \in Int
        BY <2>5 DEF LeakInv, One
      <4> QED
        BY <4>1, <4>2
    <3>2. \A x \in Cells :
             Release(mType, Msg, parsed)[x]
             = mType[x] - One(x = Msg) - One(x \in Children(Msg) \cap parsed)
               - One(/\ Prop("payload") \in parsed /\ mType[Prop("payload")] = 1
                     /\ x \in Children(Prop("payload")) \cap parsed)
      <4> SUFFICES ASSUME NEW x \in Cells
                   PROVE  Release(mType, Msg, parsed)[x]
                          = mType[x] - One(x = Msg) - One(x \in Children(Msg) \cap parsed)
                            - One(/\ Prop("payload") \in parsed /\ mType[Prop("payload")] = 1
                                  /\ x \in Children(Prop("payload")) \cap parsed)
        OBVIOUS
      <4> QED
        BY <2>9, <3>1, ReleaseMsg DEF One
    <3> QED
      BY <2>2, <3>2
  \* What the cascade releases is the parse tree.
  <2>11. \A x \in Cells :
            One(x = Msg) + One(x \in Children(Msg) \cap parsed)
            + One(/\ Prop("payload") \in parsed /\ mType[Prop("payload")] = 1
                  /\ x \in Children(Prop("payload")) \cap parsed)
            = One(x \in parsed)
    <3>1. CASE kind = "invoke"
      BY <2>2, <2>9, <3>1, ParsedOf, ChildrenOf DEF One, Msg, Prop
    <3>2. CASE kind # "invoke"
      <4>1. parsed = {Msg, Prop("type"), Prop("id")}
        BY <2>1, <2>2, <3>2, ParsedOf
      <4> QED
        BY <4>1, ChildrenOf DEF One, Msg, Prop
    <3> QED
      BY <3>1, <3>2
  <2>12. \A x \in Cells : rc'[x] = rc[x] - E(x)
    BY <2>5, <2>7, <2>10, <2>11 DEF One, LeakInv
  <2>13. \A c \in Cells : E1(c) = 0
    BY <2>1, ExpectedOutside DEF Mid
  <2>14. rc' \in [Cells -> Int]
    <3>1. rc' = [x \in Cells |-> rc'[x]]
      BY <2>2 DEF Release, Dec
    <3>2. \A x \in Cells : rc'[x] \in Int
      BY <2>12, ExpectedNat DEF LeakInv
    <3> QED
      BY <3>1, <3>2
  <2>15. \A c \in Cells \ IdCells : rc'[c] = E1(c)
    BY <2>12, <2>13, ExpectedNat DEF LeakInv
  <2>16. \A c \in IdCells : rc'[c] <= E1(c)
    BY <2>12, <2>13, IdCellsIn, ExpectedNat DEF LeakInv
  <2>17. OnKind(pc', kind')
    BY <2>1 DEF OnKind, Mid
  <2> QED
    BY <2>1, <2>14, <2>15, <2>16, <2>17, LeakInvPrimed DEF LeakInv, Mid
<1>9. CASE EndOfInput
  <2>1. pc = "read" /\ pc' = "done"
    BY <1>9 DEF EndOfInput
  <2>2. \A c \in Cells : E1(c) = E(c)
    BY <2>1, ExpectedOutside DEF Mid
  <2>3. rc' = rc /\ cstr' = cstr /\ kind' = kind /\ lines' = lines
    BY <1>9 DEF EndOfInput
  <2>4. \A c \in Cells \ IdCells : rc'[c] = E1(c)
    BY <2>2, <2>3 DEF LeakInv
  <2>5. \A c \in IdCells : rc'[c] <= E1(c)
    BY <2>2, <2>3, IdCellsIn DEF LeakInv
  <2>6. OnKind(pc', kind')
    BY <2>1 DEF OnKind, Mid
  <2> QED
    BY <2>1, <2>3, <2>4, <2>5, <2>6, LeakInvPrimed DEF LeakInv, Mid
<1>10. CASE Terminated
  BY <1>10 DEF Terminated, vars, LeakInv
<1>11. CASE UNCHANGED vars
  BY <1>11 DEF vars, LeakInv
<1> QED
  BY <1>1, <1>2, <1>3, <1>4, <1>5, <1>6, <1>7, <1>8, <1>9, <1>10, <1>11 DEF Next

-----------------------------------------------------------------------------
(* NoLeak.                                                                 *)

\* Between two lines nothing is held, so no count is above 0.
LEMMA LeakInvNoLeak == LeakInv => NoLeak
<1> SUFFICES ASSUME LeakInv, pc \in {"read", "done"}, NEW c \in Cells
             PROVE  rc[c] <= 0
  BY DEF NoLeak
<1>1. Expected(pc, kind, cstr, c) = 0
  BY ExpectedOutside DEF Mid
<1> QED
  BY <1>1 DEF LeakInv

\* Spec 4.3: every path through the loop body of process_messages
\* releases each reference it took for a line (msg_val and its properties,
\* the payload's fields, the JSON strings, the C strings) before the next
\* getline, for every number of lines and every set of encodings.
THEOREM NoLeakHolds == Spec => []NoLeak
<1>1. Init => LeakInv
  BY LeakInvInit
<1>2. LeakInv /\ [Next]_vars => LeakInv'
  BY LeakInvNext
<1>3. LeakInv => NoLeak
  BY LeakInvNoLeak
<1> QED
  BY <1>1, <1>2, <1>3, PTL DEF Spec

=============================================================================
