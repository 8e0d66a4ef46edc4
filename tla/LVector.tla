------------------------------ MODULE LVector -------------------------------
(***************************************************************************)
(* Lazy evaluation.  An lVector that is not at its end has a generator;    *)
(* asking for the chunk after its last one runs it.  The generator of an   *)
(* operator is a closure that asks the operator's inputs for their chunks, *)
(* and so runs their generators; a vector that was conjoined with others   *)
(* then asks its siblings for the same chunk, and they may ask it.         *)
(*                                                                         *)
(* One Lua state does all this, on one stack, which is the variable stack: *)
(* a step runs the function on top up to its next call of get_chunk or its *)
(* return.  A failing assert unwinds the stack; the model stops there,     *)
(* with failed true and the vectors as they were before that step.         *)
(*                                                                         *)
(* Vectors here have no nulls, are not killable (so that the kill() of the *)
(* operators is silent), and live in chunks, not in an lma file.  What the *)
(* generated C of an operator computes from an element is the element in a *)
(* tuple, so that elements differ when they were computed differently.     *)
(***************************************************************************)
EXTENDS Integers, Sequences, SequencesExt, FiniteSets

CONSTANTS
  Vec,          \* the vectors of an expression
  Op,           \* Vec -> "seq", "map", "zip", "split" or "unique"
  In,           \* Vec -> the inputs of the operator, in its order
  Lead,         \* Vec -> the first of the vectors that share its closure
  Memo,         \* Vec -> memo_len; 0 keeps every chunk
  Sibs,         \* Vec -> _siblings, as conjoin left them
  Roots,        \* the vectors the client asks for
  Reduced,      \* the vector a reducer was made from
  Inputs,       \* what a source may hold
  C,            \* max_num_in_chunk
  MaxChnk,      \* bound: the last chunk a vector can have
  MaxHeld       \* bound: how many chunks the client holds at a time

ASSUME GraphAssumption ==
  /\ C \in Nat \ {0} /\ MaxChnk \in Nat /\ MaxHeld \in Nat
  /\ Roots \subseteq Vec /\ Reduced \in Vec
  /\ \A v \in Vec : /\ Memo[v] \in Nat
                    /\ Lead[v] \in Vec /\ Op[v] = Op[Lead[v]]
                    /\ Range(In[v]) \cup Range(Sibs[v]) \subseteq Vec \ {v}
  /\ \A s \in Inputs : Len(s) \in 1..(C * (MaxChnk + 1))

VARIABLES
  src,      \* what the generator of each source fills its chunks with
  vec,      \* the vectors
  gen,      \* the variables of the closures, at the Lead of their vectors
  rdcr,     \* the reducer: its l_chunk_num, accumulator and _is_eor
  stack,    \* the calls under way; the last one runs
  ret,      \* the chunk the last inner call returned; <<>> when that was 0
  held,     \* the chunks the client got and has not given back
  failed    \* an assert failed

vars == <<src, vec, gen, rdcr, stack, ret, held, failed>>

Chnks == 0..MaxChnk

-----------------------------------------------------------------------------
(* The vector and its chunks, as far as evaluation tells them apart: data  *)
(* is all that was ever put, chnks the chunks that are still in the table. *)

NewVec == [data |-> <<>>, chnks |-> {}, min |-> 0, eov |-> FALSE,
           readers |-> [k \in Chnks |-> 0]]

Upto(s, k) == IF k < Len(s) THEN k ELSE Len(s)

ChunkOf(s, k) == SubSeq(s, k * C + 1, Upto(s, (k + 1) * C))

NumChunks(s) == (Len(s) + C - 1) \div C

max_chnk_idx(x) == IF x.data = <<>> THEN 0 ELSE NumChunks(x.data) - 1

(* vctr_memo(): chunks that fall out of the window are deleted, unless they *)
(* are being read; min moves on either way.                                 *)
MemoMin(v, x) ==
  IF Memo[v] > 0 /\ max_chnk_idx(x) + 1 - x.min > Memo[v]
  THEN max_chnk_idx(x) + 1 - Memo[v]
  ELSE x.min

Memoed(v, x) ==
  [x EXCEPT !.min = MemoMin(v, x),
            !.chnks = @ \ {k \in x.min..(MemoMin(v, x) - 1) : x.readers[k] = 0}]

MemoFails(v, x) ==
  LET k == MemoMin(v, x) - 1
  IN  MemoMin(v, x) > x.min /\ (k \notin x.chnks \/ x.readers[k] > 0)

(* put_chunk(): refused after the end or after a short chunk; the vector   *)
(* ends with a short one.  What vctr_memo does before a short chunk it did *)
(* at the put before.                                                      *)
WithChunk(x, s) ==
  [x EXCEPT !.data = @ \o s, !.chnks = @ \cup {NumChunks(x.data)}]

CanPut(v, x, s) ==
  /\ ~x.eov /\ Len(x.data) % C = 0 /\ s # <<>>
  /\ ~MemoFails(v, WithChunk(x, s))

put_chunk(v, x, s) == [Memoed(v, WithChunk(x, s)) EXCEPT !.eov = Len(s) < C]

(* vctr_eov(): an empty vector cannot end. *)
CanEnd(x) == x.eov \/ x.data # <<>>
Ended(x) == [x EXCEPT !.eov = TRUE]

Got(x, k) == [x EXCEPT !.readers[k] = @ + 1]

CanUnget(x, k) == k \in x.chnks /\ x.readers[k] > 0
Unget(x, k) == [x EXCEPT !.readers[k] = @ - 1]

-----------------------------------------------------------------------------
(* Calls.  i counts inputs or siblings, bufs are the chunks a generator    *)
(* has got from its inputs, out is what it returned; unique fills out and  *)
(* cnt together.                                                           *)

Frame(fn, v, k) ==
  [fn |-> fn, v |-> v, k |-> k, at |-> "enter", i |-> 1, bufs |-> <<>>,
   out |-> <<>>, cnt |-> <<>>]

Top == Last(stack)
At(fn, at) == stack # <<>> /\ Top.fn = fn /\ Top.at = at

Goto(f) == stack' = Append(Front(stack), f)

Call(f, v, k) == stack' = Front(stack) \o <<f, Frame("get", v, k)>>

(* A chunk that goes back to the client is the client's to give back. *)
Return(s) ==
  /\ stack' = Front(stack)
  /\ ret' = IF Len(stack) = 1 THEN <<>> ELSE s
  /\ held' = IF Len(stack) = 1 /\ Top.fn = "get" /\ s # <<>>
             THEN [held EXCEPT ![<<Top.v, Top.k>>] = @ + 1]
             ELSE held

Fail ==
  /\ failed' = TRUE /\ stack' = <<>> /\ ret' = <<>>
  /\ UNCHANGED <<src, vec, gen, rdcr, held>>

(* The other vector of a pair that shares a closure. *)
Twin(v) == CHOOSE w \in Vec : w # v /\ Lead[w] = Lead[v]
Paired(v) == Op[v] \in {"split", "unique"}

-----------------------------------------------------------------------------
(* lVector:get_chunk(). *)

ToGenerate(x, k) == ~x.eov /\ (x.data = <<>> \/ k = max_chnk_idx(x) + 1)

(* The chunk is there, or is not: then the call returns 0, as at an end.   *)
(* Before the end nothing beyond the next chunk may be asked for.          *)
GetArchived ==
  /\ At("get", "enter")
  /\ LET v == Top.v
         k == Top.k
         x == vec[v]
     IN  /\ ~ToGenerate(x, k)
         /\ IF ~x.eov /\ k > max_chnk_idx(x) + 1
            THEN Fail
            ELSE /\ UNCHANGED <<src, gen, rdcr, failed>>
                 /\ IF k \in x.chnks
                    THEN /\ vec' = [vec EXCEPT ![v] = Got(x, k)]
                         /\ Return(ChunkOf(x.data, k))
                    ELSE Return(<<>>) /\ UNCHANGED vec

(* Every generator starts with assert(chunk_num == l_chunk_num). *)
GetGenerates ==
  /\ At("get", "enter")
  /\ ToGenerate(vec[Top.v], Top.k)
  /\ IF Top.k <= max_chnk_idx(vec[Top.v]) + 1 /\ Top.k = gen[Lead[Top.v]].chunk
     THEN /\ Goto([Top EXCEPT !.at = Op[Top.v]])
          /\ UNCHANGED <<src, vec, gen, rdcr, ret, held, failed>>
     ELSE Fail

(* The generator has returned out: put it, and end the vector if it is     *)
(* short.                                                                  *)
PutGenerated ==
  /\ At("get", "put")
  /\ LET v == Top.v
         s == Top.out
     IN  IF s = <<>>
         THEN IF CanEnd(vec[v])
              THEN /\ vec' = [vec EXCEPT ![v] = Ended(@)]
                   /\ Return(<<>>) /\ UNCHANGED <<src, gen, rdcr, failed>>
              ELSE Fail
         ELSE IF CanPut(v, vec[v], s)
              THEN /\ vec' = [vec EXCEPT ![v] = put_chunk(v, @, s)]
                   /\ Goto([Top EXCEPT !.at = "siblings", !.i = 1])
                   /\ UNCHANGED <<src, gen, rdcr, ret, held, failed>>
              ELSE Fail

AskSibling ==
  /\ At("get", "siblings") /\ Top.i <= Len(Sibs[Top.v])
  /\ Call([Top EXCEPT !.at = "sibling"], Sibs[Top.v][Top.i], Top.k)
  /\ UNCHANGED <<src, vec, gen, rdcr, ret, held, failed>>

(* A sibling must be as long; it ends with the vector; its chunk was not   *)
(* asked for to be read.                                                   *)
\* mutant: a full chunk ends the sibling, too
SiblingAnswers_EndsFull ==
  /\ At("get", "sibling")
  /\ LET w == Sibs[Top.v][Top.i]
     IN  vec' = [vec EXCEPT ![w] = Unget(Ended(@), Top.k)]
  /\ Goto([Top EXCEPT !.at = "siblings", !.i = @ + 1])
  /\ UNCHANGED <<src, gen, rdcr, ret, held, failed>>
SiblingAnswers ==
  /\ At("get", "sibling")
  /\ LET w == Sibs[Top.v][Top.i]
         x == IF Len(ret) < C THEN Ended(vec[w]) ELSE vec[w]
     IN  IF /\ Len(ret) = Len(Top.out)
            /\ Len(ret) < C => CanEnd(vec[w])
            /\ CanUnget(x, Top.k)
         THEN /\ vec' = [vec EXCEPT ![w] = Unget(x, Top.k)]
              /\ Goto([Top EXCEPT !.at = "siblings", !.i = @ + 1])
              /\ UNCHANGED <<src, gen, rdcr, ret, held, failed>>
         ELSE Fail

GetReturns ==
  /\ At("get", "siblings") /\ Top.i > Len(Sibs[Top.v])
  /\ IF Top.k \in vec[Top.v].chnks
     THEN /\ vec' = [vec EXCEPT ![Top.v] = Got(@, Top.k)]
          /\ Return(Top.out) /\ UNCHANGED <<src, gen, rdcr, failed>>
     ELSE Fail

GetChunk ==
  \/ GetArchived \/ GetGenerates \/ PutGenerated
  \/ AskSibling \/ SiblingAnswers \/ GetReturns

-----------------------------------------------------------------------------
(* The generators.  l_chunk_num is read where the code reads it: it is a   *)
(* variable of the closure, and a call in between may have moved it.       *)

l_chunk_num(v) == gen[Lead[v]].chunk
\* mutant: l_chunk_num stays
NextChunk_Stays(v) == gen
NextChunk(v) == [gen EXCEPT ![Lead[v]].chunk = @ + 1]

(* expander_s_to_f *)
SeqGenerates ==
  /\ At("get", "seq")
  /\ LET s == ChunkOf(src[Top.v], l_chunk_num(Top.v))
     IN  /\ Goto([Top EXCEPT !.at = "put", !.out = s])
         /\ gen' = IF s = <<>> THEN gen ELSE NextChunk(Top.v)
  /\ UNCHANGED <<src, vec, rdcr, ret, held, failed>>

(* expander_f1opf2, expander_f1f2opf3 and expander_f1opf2f3 get a chunk of *)
(* each input before they look at any.                                     *)
Computes(op) == op \in {"map", "zip", "split"}

AskInput ==
  /\ stack # <<>> /\ Computes(Top.at) /\ Top.i <= Len(In[Top.v])
  /\ Call([Top EXCEPT !.at = "input"], In[Top.v][Top.i], l_chunk_num(Top.v))
  /\ UNCHANGED <<src, vec, gen, rdcr, ret, held, failed>>

InputAnswers ==
  /\ At("get", "input")
  /\ Goto([Top EXCEPT !.at = Op[Top.v], !.i = @ + 1, !.bufs = Append(@, ret)])
  /\ UNCHANGED <<src, vec, gen, rdcr, ret, held, failed>>

(* What v gets of the elements s[1], s[2] ... of the inputs. *)
Element(v, s) == IF Op[v] = "split" THEN <<Lead[v] = v, s[1]>> ELSE s
Computed(v, bufs) ==
  [j \in 1..Len(bufs[1]) |-> Element(v, [i \in DOMAIN bufs |-> bufs[i][j]])]

(* unget_chunk of the inputs of v, one after the other *)
Times(v, w) == Cardinality({i \in DOMAIN In[v] : In[v][i] = w})
CanUngetInputs(v, k) ==
  \A w \in Range(In[v]) : k \in vec[w].chnks /\ vec[w].readers[k] >= Times(v, w)
UngetInputs(v, k) ==
  [w \in Vec |-> IF w \in Range(In[v])
                 THEN [vec[w] EXCEPT !.readers[k] = @ - Times(v, w)]
                 ELSE vec[w]]

AllAnswered == stack # <<>> /\ Computes(Top.at) /\ Top.i > Len(In[Top.v])

(* No more input: split ends the other vector. *)
\* mutant: the other vector stays open
InputEnds_TwinOpen ==
  /\ AllAnswered /\ \A i \in DOMAIN Top.bufs : Top.bufs[i] = <<>>
  /\ Goto([Top EXCEPT !.at = "put", !.out = <<>>])
  /\ UNCHANGED <<src, vec, gen, rdcr, ret, held, failed>>
InputEnds ==
  /\ AllAnswered /\ \A i \in DOMAIN Top.bufs : Top.bufs[i] = <<>>
  /\ IF Paired(Top.v) => CanEnd(vec[Twin(Top.v)])
     THEN /\ vec' = IF Paired(Top.v)
                    THEN [vec EXCEPT ![Twin(Top.v)] = Ended(@)]
                    ELSE vec
          /\ Goto([Top EXCEPT !.at = "put", !.out = <<>>])
          /\ UNCHANGED <<src, gen, rdcr, ret, held, failed>>
     ELSE Fail

(* The chunks of the inputs must be equally long.  zip asserts that the    *)
(* inputs of a short chunk are at their end; split puts the chunk of its   *)
(* other vector.                                                           *)
InputComputed ==
  /\ AllAnswered /\ \E i \in DOMAIN Top.bufs : Top.bufs[i] # <<>>
  /\ LET v == Top.v
         k == l_chunk_num(v)
         s == Computed(v, Top.bufs)
         w == Twin(v)
         t == Computed(w, Top.bufs)
     IN  IF /\ \A b \in Range(Top.bufs) : Len(b) = Len(Top.bufs[1])
            /\ CanUngetInputs(v, k)
            /\ Op[v] = "zip" /\ Len(s) < C
                 => \A u \in Range(In[v]) : vec[u].eov
            /\ Paired(v) => CanPut(w, vec[w], t)
         THEN /\ vec' = IF Paired(v)
                        THEN [UngetInputs(v, k) EXCEPT ![w] = put_chunk(w, @, t)]
                        ELSE UngetInputs(v, k)
              /\ gen' = NextChunk(v)
              /\ Goto([Top EXCEPT !.at = "put", !.out = s])
              /\ UNCHANGED <<src, rdcr, ret, held, failed>>
         ELSE Fail

-----------------------------------------------------------------------------
(* expander_unique: two vectors, of the values of the runs of the input    *)
(* and of their lengths.  The chunk of the input that is being consumed is *)
(* kept, and held, from one call of the generator to the next.             *)

(* The C loop over s from in_idx on; it stops at a new value when the      *)
(* output is full.                                                         *)
\* mutant: the run's first element is the only one counted
Consume_Uncounted(acc, e) ==
  IF acc.overflow THEN acc
  ELSE IF acc.val # <<>> /\ Last(acc.val) = e THEN [acc EXCEPT !.idx = @ + 1]
  ELSE IF Len(acc.val) < C
  THEN [acc EXCEPT !.val = Append(@, e), !.cnt = Append(@, 1), !.idx = @ + 1]
  ELSE [acc EXCEPT !.overflow = TRUE]
Consume(acc, e) ==
  IF acc.overflow THEN acc
  ELSE IF acc.val # <<>> /\ Last(acc.val) = e
  THEN [acc EXCEPT !.cnt[Len(acc.cnt)] = @ + 1, !.idx = @ + 1]
  ELSE IF Len(acc.val) < C
  THEN [acc EXCEPT !.val = Append(@, e), !.cnt = Append(@, 1), !.idx = @ + 1]
  ELSE [acc EXCEPT !.overflow = TRUE]

Consumed(f, g) ==
  FoldLeft(Consume,
           [val |-> f.out, cnt |-> f.cnt, idx |-> g.idx, overflow |-> FALSE],
           SubSeq(g.buf, g.idx + 1, Len(g.buf)))

(* What goes into v of the values and counts found. *)
Half(v, val, cnt) == IF Lead[v] = v THEN val ELSE cnt

UniqueAsks ==
  /\ At("get", "unique")
  /\ LET v == Top.v
         a == In[v][1]
         g == gen[Lead[v]]
         done == g.buf # <<>> /\ g.idx = Len(g.buf)
     IN  /\ g.buf = <<>> \/ done
         /\ IF done => CanUnget(vec[a], g.in) /\ (Len(g.buf) < C => vec[a].eov)
            THEN /\ vec' = IF done THEN [vec EXCEPT ![a] = Unget(@, g.in)] ELSE vec
                 /\ IF done /\ Len(g.buf) < C
                    THEN /\ gen' = [gen EXCEPT ![Lead[v]].buf = <<>>]
                         /\ Goto([Top EXCEPT !.at = "flush"])
                    ELSE LET in == IF done THEN g.in + 1 ELSE g.in
                         IN  /\ gen' = [gen EXCEPT ![Lead[v]].in = in]
                             /\ Call([Top EXCEPT !.at = "more"], a, in)
                 /\ UNCHANGED <<src, rdcr, ret, held, failed>>
            ELSE Fail

\* mutant: in_idx is not set back for a new chunk
UniqueGot_KeepsIdx ==
  /\ At("get", "more")
  /\ gen' = [gen EXCEPT ![Lead[Top.v]].buf = ret]
  /\ Goto([Top EXCEPT !.at = IF ret = <<>> THEN "flush" ELSE "unique"])
  /\ UNCHANGED <<src, vec, rdcr, ret, held, failed>>
UniqueGot ==
  /\ At("get", "more")
  /\ gen' = [gen EXCEPT ![Lead[Top.v]].buf = ret, ![Lead[Top.v]].idx = 0]
  /\ Goto([Top EXCEPT !.at = IF ret = <<>> THEN "flush" ELSE "unique"])
  /\ UNCHANGED <<src, vec, rdcr, ret, held, failed>>

(* Give out the buffers: one to the other vector, which may end with it,   *)
(* and one to the caller.                                                  *)
GiveOut(v, val, cnt, g, ends) ==
  LET w == Twin(v)
      x == put_chunk(w, vec[w], Half(w, val, cnt))
  IN  IF CanPut(w, vec[w], Half(w, val, cnt))
      THEN /\ vec' = [vec EXCEPT ![w] = IF ends THEN Ended(x) ELSE x]
           /\ gen' = g
           /\ Goto([Top EXCEPT !.at = "put", !.out = Half(v, val, cnt)])
           /\ UNCHANGED <<src, rdcr, ret, held, failed>>
      ELSE Fail

UniqueConsumes ==
  /\ At("get", "unique")
  /\ LET v == Top.v
         g == gen[Lead[v]]
         r == Consumed(Top, g)
     IN  /\ g.idx < Len(g.buf)
         /\ IF r.overflow
            THEN GiveOut(v, r.val, r.cnt,
                         [gen EXCEPT ![Lead[v]].idx = r.idx, ![Lead[v]].chunk = @ + 1],
                         FALSE)
            ELSE /\ gen' = [gen EXCEPT ![Lead[v]].idx = r.idx]
                 /\ Goto([Top EXCEPT !.out = r.val, !.cnt = r.cnt])
                 /\ UNCHANGED <<src, vec, rdcr, ret, held, failed>>

(* No more input: the other vector is put its chunk, and is ended. *)
UniqueFlushes ==
  /\ At("get", "flush")
  /\ IF Top.out = <<>>
     THEN /\ Goto([Top EXCEPT !.at = "put"])
          /\ UNCHANGED <<src, vec, gen, rdcr, ret, held, failed>>
     ELSE GiveOut(Top.v, Top.out, Top.cnt, gen, TRUE)

Generate ==
  \/ SeqGenerates \/ AskInput \/ InputAnswers \/ InputEnds
  \/ InputComputed \/ UniqueAsks \/ UniqueGot \/ UniqueConsumes \/ UniqueFlushes

-----------------------------------------------------------------------------
(* lVector:eval(): get the next chunk and give it back, until one is short. *)
\* mutant: the last chunk is asked for again
EvalAsks_Same ==
  /\ At("eval", "enter")
  /\ LET k == max_chnk_idx(vec[Top.v])
     IN  Call([Top EXCEPT !.at = "asked", !.k = k], Top.v, k)
  /\ UNCHANGED <<src, vec, gen, rdcr, ret, held, failed>>
EvalAsks ==
  /\ At("eval", "enter")
  /\ LET x == vec[Top.v]
         k == IF x.data = <<>> THEN 0 ELSE max_chnk_idx(x) + 1
     IN  Call([Top EXCEPT !.at = "asked", !.k = k], Top.v, k)
  /\ UNCHANGED <<src, vec, gen, rdcr, ret, held, failed>>

\* mutant: eval keeps what it got
EvalGot_Keeps ==
  /\ At("eval", "asked")
  /\ IF Len(ret) = C
     THEN Goto([Top EXCEPT !.at = "enter"]) /\ UNCHANGED <<ret, held>>
     ELSE Return(<<>>)
  /\ UNCHANGED <<src, vec, gen, rdcr, failed>>
EvalGot ==
  /\ At("eval", "asked")
  /\ LET x == vec[Top.v]
     IN  IF (ret # <<>> => CanUnget(x, Top.k)) /\ (Len(ret) < C => x.eov)
         THEN /\ vec' = IF ret = <<>> THEN vec
                        ELSE [vec EXCEPT ![Top.v] = Unget(x, Top.k)]
              /\ IF Len(ret) = C
                 THEN Goto([Top EXCEPT !.at = "enter"]) /\ UNCHANGED <<ret, held>>
                 ELSE Return(<<>>)
              /\ UNCHANGED <<src, gen, rdcr, failed>>
         ELSE Fail

(* Reducer:next() on a reducer of expander_f_to_s.  Reducer:eval() is next *)
(* until the reducer is at its end.                                        *)
NextAsks ==
  /\ At("next", "enter")
  /\ Call([Top EXCEPT !.at = "asked"], Reduced, rdcr.chunk)
  /\ UNCHANGED <<src, vec, gen, rdcr, ret, held, failed>>

NextGot ==
  /\ At("next", "asked")
  /\ IF ret # <<>> => CanUnget(vec[Reduced], rdcr.chunk)
     THEN /\ vec' = IF ret = <<>> THEN vec
                    ELSE [vec EXCEPT ![Reduced] = Unget(@, rdcr.chunk)]
          /\ rdcr' = [chunk |-> IF ret = <<>> THEN rdcr.chunk ELSE rdcr.chunk + 1,
                      acc |-> rdcr.acc \o ret, eor |-> Len(ret) < C]
          /\ Return(<<>>)
          /\ UNCHANGED <<src, gen, failed>>
     ELSE Fail

Consumers == EvalAsks \/ EvalGot \/ NextAsks \/ NextGot

-----------------------------------------------------------------------------
(* The client, when no call of its own is under way: it asks for chunks it *)
(* has seen or the next one, gives back what it got, evaluates a vector or *)
(* moves the reducer on.                                                   *)

Idle == stack = <<>> /\ ~failed

NumHeld == FoldFunction(+, 0, held)

ClientGets(v, k) ==
  /\ Idle /\ NumHeld < MaxHeld
  /\ k = 0 \/ k <= NumChunks(vec[v].data)
  /\ stack' = <<Frame("get", v, k)>>
  /\ UNCHANGED <<src, vec, gen, rdcr, ret, held, failed>>

ClientUngets(v, k) ==
  /\ Idle /\ held[<<v, k>>] > 0
  /\ IF CanUnget(vec[v], k)
     THEN /\ vec' = [vec EXCEPT ![v] = Unget(@, k)]
          /\ held' = [held EXCEPT ![<<v, k>>] = @ - 1]
          /\ UNCHANGED <<src, gen, rdcr, stack, ret, failed>>
     ELSE Fail

ClientEvals(v) ==
  /\ Idle /\ ~vec[v].eov
  /\ stack' = <<Frame("eval", v, 0)>>
  /\ UNCHANGED <<src, vec, gen, rdcr, ret, held, failed>>

ClientReduces ==
  /\ Idle /\ ~rdcr.eor
  /\ stack' = <<Frame("next", Reduced, 0)>>
  /\ UNCHANGED <<src, vec, gen, rdcr, ret, held, failed>>

Client ==
  \/ \E v \in Roots, k \in Chnks : ClientGets(v, k) \/ ClientUngets(v, k)
  \/ \E v \in Roots : ClientEvals(v)
  \/ ClientReduces

-----------------------------------------------------------------------------
Sources == {v \in Vec : Op[v] = "seq"}

Init ==
  /\ src \in [Sources -> Inputs]
  /\ vec = [v \in Vec |-> NewVec]
  /\ gen = [v \in Vec |-> [chunk |-> 0, in |-> 0, idx |-> 0, buf |-> <<>>]]
  /\ rdcr = [chunk |-> 0, acc |-> <<>>, eor |-> FALSE]
  /\ stack = <<>> /\ ret = <<>>
  /\ held = [p \in Roots \X Chnks |-> 0]
  /\ failed = FALSE

Run == GetChunk \/ Generate \/ Consumers

Next == Client \/ Run

(* The thread that made a call runs it. *)
Spec == Init /\ [][Next]_vars /\ WF_vars(Run)

-----------------------------------------------------------------------------
(* Properties. *)

(* Every closure reads within the chunk it holds, counters are counters,   *)
(* and the chunks of the table are chunks of the vector.                   *)
TypeOK ==
  /\ \A v \in Vec :
       /\ vec[v].chnks \subseteq 0..(NumChunks(vec[v].data) - 1)
       /\ vec[v].min \in Chnks /\ vec[v].eov \in BOOLEAN
       /\ vec[v].readers \in [Chnks -> Nat]
       /\ gen[v].chunk \in 0..(MaxChnk + 1) /\ gen[v].in \in 0..(MaxChnk + 1)
       /\ gen[v].idx \in 0..C
       /\ gen[v].buf # <<>> => gen[v].idx <= Len(gen[v].buf)
  /\ rdcr.chunk \in 0..(MaxChnk + 1) /\ rdcr.eor \in BOOLEAN
  /\ held \in [Roots \X Chnks -> 0..MaxHeld] /\ failed \in BOOLEAN

(* What an expression means: the elements each vector should get to, from  *)
(* the whole of its inputs and without chunks.                             *)
RunStarts(s) ==
  SelectSeq([i \in DOMAIN s |-> i], LAMBDA i : i = 1 \/ s[i] # s[i - 1])
RunVals(s) == [j \in DOMAIN RunStarts(s) |-> s[RunStarts(s)[j]]]
RunLens(s) ==
  LET b == Append(RunStarts(s), Len(s) + 1)
  IN  [j \in DOMAIN RunStarts(s) |-> b[j + 1] - b[j]]

Meaning[v \in Vec] ==
  CASE Op[v] = "seq" -> src[v]
    [] Op[v] = "unique" -> LET s == Meaning[In[v][1]]
                           IN  Half(v, RunVals(s), RunLens(s))
    [] OTHER -> Computed(v, [i \in DOMAIN In[v] |-> Meaning[In[v][i]]])

(* Whatever the order in which the client asks for chunks of which vector, *)
(* what has been put into a vector is the beginning of what it means:      *)
(* chunks are not repeated, skipped or taken from elsewhere.               *)
ValuesRight == \A v \in Vec : IsPrefix(vec[v].data, Meaning[v])

(* A vector that is at its end has all of its elements, and a reducer that *)
(* is at its end has seen all of its vector: a chunk that was dropped      *)
(* early is never taken for the end of the input.                          *)
NoneMissing ==
  /\ \A v \in Vec : vec[v].eov => Len(vec[v].data) = Len(Meaning[v])
  /\ rdcr.eor => rdcr.acc = Meaning[Reduced]

(* No assert of get_chunk, eval or a generator fails: chunks come in step  *)
(* with l_chunk_num, inputs and siblings are equally long, what is ungot   *)
(* is there, the memo window never closes on a chunk that is being read.   *)
NeverFails == ~failed

(* Between calls a chunk has exactly the readers that will unget it: the   *)
(* client, and the closures of unique.                                     *)
ReadersReturned ==
  Idle => \A v \in Vec, k \in Chnks :
            vec[v].readers[k] =
              (IF v \in Roots THEN held[<<v, k>>] ELSE 0)
              + Cardinality({u \in Vec : /\ Op[u] = "unique" /\ Lead[u] = u
                                         /\ In[u][1] = v
                                         /\ gen[u].in = k /\ gen[u].buf # <<>>})

(* Between calls conjoined vectors are equally far, and end together       *)
(* unless they end with a full chunk, when get_chunk returns before it     *)
(* looks at the siblings; the two vectors of an operator that makes two    *)
(* are equally far and end together.                                       *)
InStep ==
  Idle => \A v, w \in Vec :
            /\ w \in Range(Sibs[v]) \/ Lead[v] = Lead[w]
                 => Len(vec[v].data) = Len(vec[w].data)
            /\ vec[v].eov # vec[w].eov
                 => /\ Lead[v] # Lead[w]
                    /\ w \in Range(Sibs[v]) => Len(vec[v].data) % C = 0

(* Every call returns: the recursion through siblings that ask each other, *)
(* and the loop of eval, come to an end.                                   *)
CallsReturn == (stack # <<>>) ~> (stack = <<>>)
=============================================================================
