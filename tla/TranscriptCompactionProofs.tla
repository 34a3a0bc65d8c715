--------------------- MODULE TranscriptCompactionProofs ---------------------
(***************************************************************************)
(* What a run keeps of what it had: proofs about TranscriptCompaction, for *)
(* every limit of messages, every length of a batch and every number of    *)
(* steps; and about RunSnapshots, for any tree of paths, any contents,     *)
(* runs, commands and crashes, and any number of snapshots kept.           *)
(***************************************************************************)
EXTENDS TranscriptCompaction, RunSnapshots, FiniteSetTheorems, SequenceTheorems, TLAPS

-----------------------------------------------------------------------------
(* The inductive invariant.                                                *)

Messages ==
    [kind : {"text"}, who : {"user", "assistant", "nudge"}]
        \cup [kind : {"notice"}, level : {"micro", "auto", "rebuild"}]
        \cup [kind : {"request", "result"}, call : Nat]

TypeOK ==
    /\ transcript \in Seq(Messages) /\ full \in Seq(Messages)
    /\ pc \in {"top", "ask", "done"}
    /\ planning \in BOOLEAN
    /\ {redirects, calls, steps} \subseteq Nat

\* There is one summary, and the next cut takes it away: it stands before the
\* messages that a compaction keeps.
Orderly(msgs) ==
    /\ msgs \in Seq(Messages) /\ Len(msgs) > 0
    /\ \A i, j \in DOMAIN msgs : IsNotice(msgs[i]) /\ IsNotice(msgs[j]) => i = j
    /\ \A i \in DOMAIN msgs : IsNotice(msgs[i]) => i + KeepRecent <= Len(msgs)

\* The last k messages are the same.
SameEnd(s, t, k) ==
    /\ k <= Len(s) /\ k <= Len(t)
    /\ \A i \in 1 .. k : s[Len(s) - k + i] = t[Len(t) - k + i]

\* Nothing was compacted yet, or the newest messages are those of the run and
\* no calls stand before them.
EndsAlike(msgs, all) ==
    \/ msgs = all
    \/ \E k \in Nat :
          /\ k >= KeepRecent /\ SameEnd(msgs, all, k)
          /\ \A i \in 1 .. Len(msgs) - k : ~IsOfCall(msgs[i])

IInv ==
    /\ TypeOK
    /\ Orderly(transcript) /\ Len(full) > 0
    /\ EndsAlike(transcript, full)
    /\ pc = "ask" => Len(transcript) < Limit

-----------------------------------------------------------------------------
(* The limits.                                                             *)

\* What is kept and a summary fit the limit, with room for one message more.
LEMMA LimitsFit ==
    /\ MaxMessages \in Nat /\ MicroTrigger \in Nat /\ Limit \in Nat
    /\ MaxMessages <= Limit /\ MicroTrigger <= Limit
    /\ KeepRecent \in Nat /\ KeepRecent > 0
    /\ KeepRecent + 1 <= MaxMessages /\ KeepRecent + 1 < Limit
    /\ KeepRecent <= MicroTrigger
BY CompactionAssumption DEF KeepRecent, MicroTrigger, Limit, Larger

-----------------------------------------------------------------------------
(* What is cut, and what is left of it.                                    *)

\* Every position of a finite set has its rank, and every rank its position.
LEMMA NthIsOne ==
    ASSUME NEW n \in Nat, NEW S \in SUBSET (1 .. n), NEW k \in 1 .. Cardinality(S)
    PROVE  Nth(S, k) \in S
<1> DEFINE upTo(i) == {j \in S : j <= i}
<1> DEFINE rank == [i \in S |-> Cardinality(upTo(i))]
<1>1. IsFiniteSet(S) /\ Cardinality(S) \in Nat
  <2>1. IsFiniteSet(1 .. n)
    BY FS_Interval
  <2>2. IsFiniteSet(S)
    BY <2>1, FS_Subset
  <2> QED
    BY <2>2, FS_CardinalityType
<1>2. ASSUME NEW i \in S
      PROVE  rank[i] \in 1 .. Cardinality(S)
  <2>1. upTo(i) \in SUBSET S /\ upTo(i) # {}
    BY <1>2
  <2>2. IsFiniteSet(upTo(i)) /\ Cardinality(upTo(i)) \in Nat
        /\ Cardinality(upTo(i)) <= Cardinality(S)
    BY <2>1, <1>1, FS_Subset, FS_CardinalityType
  <2>3. Cardinality(upTo(i)) # 0
    BY <2>1, <2>2, FS_EmptySet
  <2>4. rank[i] = Cardinality(upTo(i))
    BY <1>2
  <2> QED
    BY <2>2, <2>3, <2>4, <1>1
<1>3. ASSUME NEW i \in S, NEW j \in S, i < j
      PROVE  rank[i] # rank[j]
  <2>1. upTo(i) \in SUBSET upTo(j) /\ upTo(i) # upTo(j)
    <3>1. S \subseteq Int
      OBVIOUS
    <3>2. j \in upTo(j) /\ j \notin upTo(i)
      BY <1>3, <3>1
    <3>3. ASSUME NEW x \in S, x <= i
          PROVE  x <= j
      BY <1>3, <3>1, <3>3
    <3> QED
      BY <3>2, <3>3
  <2>2. IsFiniteSet(upTo(j))
    BY <1>1, FS_Subset
  <2>3. Cardinality(upTo(i)) # Cardinality(upTo(j))
    BY <2>1, <2>2, FS_Subset
  <2> QED
    BY <2>3, <1>3
<1>4. rank \in Injection(S, 1 .. Cardinality(S))
  <2>1. rank \in [S -> 1 .. Cardinality(S)]
    BY <1>2
  <2>2. \A i, j \in S : rank[i] = rank[j] => i = j
    <3> HIDE DEF rank
    <3> QED
      BY <1>3
  <2> QED
    BY <2>1, <2>2 DEF Injection, IsInjective
<1>5. rank \in Surjection(S, 1 .. Cardinality(S))
  <2>1. IsFiniteSet(1 .. Cardinality(S)) /\ Cardinality(1 .. Cardinality(S)) = Cardinality(S)
    BY <1>1, FS_Interval
  <2> QED
    BY <2>1, <1>4, FS_Injection
<1>6. PICK i \in S : rank[i] = k
  BY <1>5 DEF Surjection
<1>7. Cardinality({j \in S : j <= i}) = k
  BY <1>6
<1> QED
  BY <1>7 DEF Nth

\* What stays of the older messages are texts, and fewer than there were if one
\* of them was of a call.
LEMMA ConversationIsShort ==
    ASSUME NEW msgs \in Seq(Messages),
           NEW c \in DOMAIN msgs, IsOfCall(msgs[c])
    PROVE  /\ Conversation(msgs) \in Seq(Messages)
           /\ Len(Conversation(msgs)) < Len(msgs)
           /\ \A i \in 1 .. Len(Conversation(msgs)) :
                 /\ ~IsOfCall(Conversation(msgs)[i])
                 /\ ~IsNotice(Conversation(msgs)[i])
<1> DEFINE stay == {i \in DOMAIN msgs : ~IsOfCall(msgs[i]) /\ ~IsNotice(msgs[i])}
<1> DEFINE n == Cardinality(stay)
<1>1. Len(msgs) \in Nat /\ DOMAIN msgs = 1 .. Len(msgs)
      /\ \A i \in 1 .. Len(msgs) : msgs[i] \in Messages
  BY LenProperties, ElementOfSeq
<1>2. stay \in SUBSET (1 .. Len(msgs)) /\ stay # 1 .. Len(msgs)
  BY <1>1
<1>3. IsFiniteSet(1 .. Len(msgs)) /\ Cardinality(1 .. Len(msgs)) = Len(msgs)
  <2>1. Len(msgs) \in Int /\ 1 \in Int
    BY <1>1
  <2>2. IsFiniteSet(1 .. Len(msgs))
        /\ Cardinality(1 .. Len(msgs)) = IF 1 > Len(msgs) THEN 0 ELSE Len(msgs) - 1 + 1
    BY <2>1, FS_Interval
  <2> QED
    BY <1>1, <2>2
<1>4. n \in Nat /\ n < Len(msgs)
  BY <1>1, <1>2, <1>3, FS_Subset, FS_CardinalityType
<1>5. \A k \in 1 .. n : Nth(stay, k) \in stay
  BY <1>1, <1>2, NthIsOne
<1>6. Conversation(msgs) = [k \in 1 .. n |-> msgs[Nth(stay, k)]]
  BY DEF Conversation
<1>7. \A k \in 1 .. n : msgs[Nth(stay, k)] \in Messages
  BY <1>1, <1>2, <1>5
<1>8. Conversation(msgs) \in Seq(Messages) /\ Len(Conversation(msgs)) = n
  <2> HIDE DEF stay
  <2> QED
    BY <1>4, <1>6, <1>7, IsASeq
<1> QED
  BY <1>4, <1>5, <1>6, <1>8

\* The cut leaves the newest messages as they are.
LEMMA CutIsClean ==
    ASSUME NEW msgs \in Seq(Messages), NEW keep \in Nat, Len(msgs) > keep
    PROVE  /\ Older(msgs, keep) \in Seq(Messages)
           /\ Len(Older(msgs, keep)) = Len(msgs) - keep
           /\ \A i \in 1 .. Len(msgs) - keep : Older(msgs, keep)[i] = msgs[i]
           /\ Recent(msgs, keep) \in Seq(Messages)
           /\ Len(Recent(msgs, keep)) = keep
           /\ \A i \in 1 .. keep :
                 Recent(msgs, keep)[i] = msgs[Len(msgs) - keep + i]
<1>1. Len(msgs) \in Nat
  BY LenProperties
<1>2. Older(msgs, keep) = SubSeq(msgs, 1, Len(msgs) - keep)
  BY DEF Older
<1>3. /\ Older(msgs, keep) \in Seq(Messages)
      /\ Len(Older(msgs, keep)) = Len(msgs) - keep
      /\ \A i \in 1 .. Len(msgs) - keep : Older(msgs, keep)[i] = msgs[i]
  BY <1>1, <1>2, SubSeqProperties
<1>4. Recent(msgs, keep) = SubSeq(msgs, Len(msgs) - keep + 1, Len(msgs))
  BY <1>3 DEF Recent
<1>5. /\ Recent(msgs, keep) \in Seq(Messages)
      /\ Len(Recent(msgs, keep)) = keep
      /\ \A i \in 1 .. keep :
            Recent(msgs, keep)[i] = msgs[Len(msgs) - keep + i]
  BY <1>1, <1>4, SubSeqProperties
<1> QED
  BY <1>3, <1>5

LEMMA Joined ==
    ASSUME NEW s \in Seq(Messages), NEW t \in Seq(Messages)
    PROVE  /\ s \o t \in Seq(Messages)
           /\ Len(s) \in Nat /\ Len(t) \in Nat /\ Len(s \o t) = Len(s) + Len(t)
           /\ \A i \in 1 .. Len(s) : (s \o t)[i] = s[i]
           /\ \A i \in 1 .. Len(t) : (s \o t)[Len(s) + i] = t[i]
BY ConcatProperties, LenProperties

\* The form of what both compactions make: a summary between texts and the
\* newest messages.
WithSummary(texts, level, msgs) ==
    texts \o <<Notice(level)>> \o Recent(msgs, KeepRecent)

LEMMA SummaryInBetween ==
    ASSUME NEW msgs, Orderly(msgs), Len(msgs) > KeepRecent,
           NEW texts \in Seq(Messages),
           \A i \in 1 .. Len(texts) : ~IsOfCall(texts[i]) /\ ~IsNotice(texts[i]),
           NEW level \in {"micro", "auto", "rebuild"},
           NEW made, made = WithSummary(texts, level, msgs)
    PROVE  /\ Orderly(made)
           /\ Len(made) = Len(texts) + 1 + KeepRecent
           /\ SameEnd(made, msgs, KeepRecent)
           /\ \A i \in 1 .. Len(made) - KeepRecent : ~IsOfCall(made[i])
<1> DEFINE notice == <<Notice(level)>>
<1> DEFINE recent == Recent(msgs, KeepRecent)
<1>1. KeepRecent \in Nat /\ KeepRecent > 0
  BY LimitsFit
<1>2. /\ msgs \in Seq(Messages) /\ Len(msgs) \in Nat /\ Len(texts) \in Nat
      /\ DOMAIN msgs = 1 .. Len(msgs)
  BY LenProperties DEF Orderly
<1>3. /\ recent \in Seq(Messages) /\ Len(recent) = KeepRecent
      /\ \A i \in 1 .. KeepRecent : recent[i] = msgs[Len(msgs) - KeepRecent + i]
  BY <1>1, <1>2, CutIsClean
<1>4. /\ notice \in Seq(Messages) /\ Len(notice) = 1 /\ IsNotice(notice[1])
      /\ ~IsOfCall(notice[1])
  BY DEF Notice, Messages, IsNotice, IsOfCall
<1>5. /\ texts \o notice \in Seq(Messages) /\ Len(texts \o notice) = Len(texts) + 1
      /\ \A i \in 1 .. Len(texts) : (texts \o notice)[i] = texts[i]
      /\ (texts \o notice)[Len(texts) + 1] = notice[1]
  <2> HIDE DEF notice
  <2>1. /\ texts \o notice \in Seq(Messages)
        /\ Len(texts \o notice) = Len(texts) + Len(notice)
        /\ \A i \in 1 .. Len(texts) : (texts \o notice)[i] = texts[i]
        /\ \A i \in 1 .. Len(notice) : (texts \o notice)[Len(texts) + i] = notice[i]
    BY <1>4, Joined
  <2> QED
    BY <2>1, <1>4
<1>6. /\ made \in Seq(Messages) /\ Len(made) = Len(texts) + 1 + KeepRecent
      /\ \A i \in 1 .. Len(texts) + 1 : made[i] = (texts \o notice)[i]
      /\ \A i \in 1 .. KeepRecent : made[Len(texts) + 1 + i] = recent[i]
  <2> DEFINE front == texts \o notice
  <2>1. made = front \o recent
    BY DEF WithSummary
  <2>2. front \in Seq(Messages) /\ Len(front) = Len(texts) + 1
    BY <1>5
  <2> HIDE DEF front, recent
  <2>3. /\ front \o recent \in Seq(Messages)
        /\ Len(front \o recent) = Len(front) + Len(recent)
        /\ \A i \in 1 .. Len(front) : (front \o recent)[i] = front[i]
        /\ \A i \in 1 .. Len(recent) : (front \o recent)[Len(front) + i] = recent[i]
    BY <2>2, <1>3, Joined
  <2>4. /\ made \in Seq(Messages) /\ Len(made) = Len(texts) + 1 + KeepRecent
        /\ \A i \in 1 .. Len(texts) + 1 : made[i] = front[i]
        /\ \A i \in 1 .. KeepRecent : made[Len(texts) + 1 + i] = recent[i]
    BY <2>1, <2>2, <2>3, <1>3
  <2> QED
    BY <2>4 DEF front
<1>7. ASSUME NEW i \in 1 .. KeepRecent
      PROVE  ~IsNotice(made[Len(texts) + 1 + i])
  <2>1. made[Len(texts) + 1 + i] = msgs[Len(msgs) - KeepRecent + i]
    BY <1>3, <1>6
  <2>2. Len(msgs) - KeepRecent + i \in DOMAIN msgs
    BY <1>1, <1>2
  <2>3. ~(Len(msgs) - KeepRecent + i + KeepRecent <= Len(msgs))
    BY <1>1, <1>2
  <2> QED
    BY <2>1, <2>2, <2>3 DEF Orderly
<1>8. ASSUME NEW i \in 1 .. Len(made)
      PROVE  IsNotice(made[i]) <=> i = Len(texts) + 1
  <2> HIDE DEF notice, recent
  <2>1. CASE i <= Len(texts)
    <3>1. i \in 1 .. Len(texts) /\ i \in 1 .. Len(texts) + 1
      BY <2>1, <1>2
    <3>2. made[i] = texts[i]
      BY <3>1, <1>5, <1>6
    <3>3. i # Len(texts) + 1
      BY <2>1, <1>2
    <3> QED
      BY <3>1, <3>2, <3>3
  <2>2. CASE i = Len(texts) + 1
    <3>1. i \in 1 .. Len(texts) + 1
      BY <2>2, <1>2
    <3>2. made[i] = notice[1]
      BY <3>1, <2>2, <1>5, <1>6
    <3> QED
      BY <3>2, <2>2, <1>4
  <2>3. CASE i > Len(texts) + 1
    <3>1. i - Len(texts) - 1 \in 1 .. KeepRecent
      BY <2>3, <1>1, <1>2, <1>6
    <3>2. i = Len(texts) + 1 + (i - Len(texts) - 1)
      BY <1>1, <1>2
    <3> QED
      BY <3>1, <3>2, <1>7, <2>3
  <2> QED
    BY <2>1, <2>2, <2>3, <1>2
<1>9. Orderly(made)
  <2>1. Len(made) > 0 /\ DOMAIN made = 1 .. Len(made)
    BY <1>1, <1>2, <1>6, LenProperties
  <2>2. \A i \in 1 .. Len(made) : IsNotice(made[i]) => i + KeepRecent <= Len(made)
    BY <1>1, <1>2, <1>6, <1>8
  <2> QED
    BY <2>1, <2>2, <1>6, <1>8 DEF Orderly
<1>10. SameEnd(made, msgs, KeepRecent)
  <2>1. \A i \in 1 .. KeepRecent :
            made[Len(made) - KeepRecent + i] = msgs[Len(msgs) - KeepRecent + i]
    <3> TAKE i \in 1 .. KeepRecent
    <3>1. Len(made) - KeepRecent + i = Len(texts) + 1 + i
      <4>1. /\ Len(texts) \in Nat /\ KeepRecent \in Nat
            /\ Len(made) = Len(texts) + 1 + KeepRecent
        BY <1>1, <1>2, <1>6
      <4> QED
        BY <4>1
    <3>2. made[Len(texts) + 1 + i] = msgs[Len(msgs) - KeepRecent + i]
      BY <1>3, <1>6
    <3> QED
      BY <3>1, <3>2
  <2> QED
    BY <2>1, <1>1, <1>2, <1>6 DEF SameEnd
<1>11. \A i \in 1 .. Len(made) - KeepRecent : ~IsOfCall(made[i])
  <2> TAKE i \in 1 .. Len(made) - KeepRecent
  <2>1. i \in 1 .. Len(texts) + 1
    BY <1>1, <1>2, <1>6
  <2> HIDE DEF notice, recent
  <2>2. CASE i \in 1 .. Len(texts)
    <3>1. made[i] = texts[i]
      BY <2>1, <2>2, <1>5, <1>6
    <3> QED
      BY <2>2, <3>1
  <2>3. CASE i = Len(texts) + 1
    <3>1. made[i] = notice[1]
      BY <2>1, <2>3, <1>5, <1>6
    <3> QED
      BY <3>1, <1>4
  <2> QED
    BY <2>1, <2>2, <2>3, <1>2
<1> QED
  BY <1>6, <1>9, <1>10, <1>11

-----------------------------------------------------------------------------
(* Compaction.                                                             *)

\* A compaction leaves a transcript that fits as it is; of any other it makes
\* one that fits, with the newest messages behind a single summary.
LEMMA CompactionFits ==
    ASSUME NEW msgs, Orderly(msgs)
    PROVE  \/ Compacted(msgs) = msgs /\ Len(msgs) < Limit
           \/ /\ Len(msgs) > KeepRecent
              /\ Orderly(Compacted(msgs))
              /\ Len(Compacted(msgs)) < Limit
              /\ SameEnd(Compacted(msgs), msgs, KeepRecent)
              /\ \A i \in 1 .. Len(Compacted(msgs)) - KeepRecent :
                    ~IsOfCall(Compacted(msgs)[i])
<1>1. msgs \in Seq(Messages) /\ Len(msgs) \in Nat
  BY LenProperties DEF Orderly
<1>2. CASE Len(msgs) >= MicroTrigger /\ Len(msgs) >= MaxMessages
  <2>1. Len(msgs) > KeepRecent
    BY <1>1, <1>2, LimitsFit
  <2> DEFINE short == Summarized(msgs, KeepRecent, "auto")
  <2>2. short = WithSummary(<< >>, "auto", msgs)
    <3>1. <<Notice("auto")>> \in Seq(Messages)
      BY DEF Notice, Messages
    <3>2. << >> \o <<Notice("auto")>> = <<Notice("auto")>>
      BY <3>1, ConcatEmptySeq
    <3> QED
      BY <3>2 DEF Summarized, WithSummary
  <2>3. /\ Orderly(short) /\ Len(short) = 1 + KeepRecent
        /\ SameEnd(short, msgs, KeepRecent)
        /\ \A i \in 1 .. Len(short) - KeepRecent : ~IsOfCall(short[i])
    <3>1. << >> \in Seq(Messages) /\ Len(<< >>) = 0
      BY EmptySeq
    <3> HIDE DEF short
    <3>2. \A i \in 1 .. Len(<< >>) : FALSE
      BY <3>1
    <3>3. /\ Orderly(short) /\ Len(short) = Len(<< >>) + 1 + KeepRecent
          /\ SameEnd(short, msgs, KeepRecent)
          /\ \A i \in 1 .. Len(short) - KeepRecent : ~IsOfCall(short[i])
      BY <3>1, <3>2, <2>1, <2>2, SummaryInBetween
    <3> QED
      BY <3>1, <3>3, LimitsFit
  <2>4. Compacted(msgs) = short
    <3>1. Compacted(msgs) = AutoCompact(msgs)
      BY <1>1, <1>2, LimitsFit DEF Compacted
    <3>2. Len(short) <= MaxMessages
      <4> HIDE DEF short
      <4> QED
        BY <2>3, LimitsFit
    <3> QED
      BY <3>1, <3>2 DEF AutoCompact
  <2> HIDE DEF short
  <2> QED
    BY <2>1, <2>3, <2>4, LimitsFit
<1>3. CASE Len(msgs) >= MicroTrigger /\ Len(msgs) < MaxMessages
  <2> DEFINE older == Older(msgs, KeepRecent)
  <2>1. Compacted(msgs) = MicroCompact(msgs)
    <3>1. ~(Len(msgs) < MicroTrigger) /\ ~(Len(msgs) >= MaxMessages)
      BY <1>1, <1>3, LimitsFit
    <3> QED
      BY <3>1, Zenon DEF Compacted
  <2>2. CASE ~ \E i \in DOMAIN older : IsOfCall(older[i])
    <3>1. Len(msgs) < Limit
      BY <1>1, <1>3, LimitsFit
    <3> QED
      BY <2>1, <2>2, <3>1 DEF MicroCompact
  <2>3. CASE \E i \in DOMAIN older : IsOfCall(older[i])
    <3>1. Len(msgs) > KeepRecent
      <4>1. SUFFICES ASSUME ~(Len(msgs) > KeepRecent)
                     PROVE  DOMAIN older = {}
        BY <2>3
      <4>2. older = SubSeq(msgs, 1, 0)
        BY <4>1 DEF Older
      <4>3. older = << >>
        BY <4>2, SubSeqEmpty
      <4> QED
        BY <4>3
    <3>2. older \in Seq(Messages) /\ Len(older) = Len(msgs) - KeepRecent
      BY <1>1, <3>1, LimitsFit, CutIsClean
    <3> DEFINE texts == Conversation(older)
    <3>3. /\ texts \in Seq(Messages) /\ Len(texts) < Len(older)
          /\ \A i \in 1 .. Len(texts) : ~IsOfCall(texts[i]) /\ ~IsNotice(texts[i])
      BY <2>3, <3>2, ConversationIsShort
    <3> DEFINE made == WithSummary(texts, "micro", msgs)
    <3>4. Compacted(msgs) = made
      BY <2>1, <2>3 DEF MicroCompact, WithSummary
    <3>5. /\ Orderly(made) /\ Len(made) = Len(texts) + 1 + KeepRecent
          /\ SameEnd(made, msgs, KeepRecent)
          /\ \A i \in 1 .. Len(made) - KeepRecent : ~IsOfCall(made[i])
      <4> HIDE DEF texts
      <4> QED
        BY <3>1, <3>3, SummaryInBetween
    <3>6. Len(made) < Limit
      <4>1. Len(texts) \in Nat
        BY <3>3, LenProperties
      <4> HIDE DEF texts, made, older
      <4> QED
        BY <4>1, <3>2, <3>3, <3>5, <1>1, <1>3, LimitsFit
    <3> HIDE DEF made
    <3> QED
      BY <3>1, <3>4, <3>5, <3>6
  <2> QED
    BY <2>2, <2>3
<1>4. CASE Len(msgs) < MicroTrigger
  BY <1>1, <1>4, LimitsFit DEF Compacted
<1> QED
  BY <1>1, <1>2, <1>3, <1>4, LimitsFit

-----------------------------------------------------------------------------
(* What a run appends.                                                     *)

\* The last messages are replaced by others; none are, in most cases.
Continued(msgs, cut, more) == SubSeq(msgs, 1, Len(msgs) - cut) \o more

\* Messages that are no summaries may follow any transcript, also in the place
\* of its last nudge; what was kept is kept.
LEMMA AppendingKeeps ==
    ASSUME NEW msgs, Orderly(msgs), NEW all \in Seq(Messages), Len(all) > 0,
           EndsAlike(msgs, all),
           NEW cut \in 0 .. 1, cut = 1 => ~IsNotice(msgs[Len(msgs)]),
           NEW more \in Seq(Messages), Len(more) > cut,
           \A i \in 1 .. Len(more) : ~IsNotice(more[i]),
           NEW msgs2, msgs2 = Continued(msgs, cut, more),
           NEW all2, all2 = Continued(all, cut, more)
    PROVE  /\ Orderly(msgs2)
           /\ all2 \in Seq(Messages) /\ Len(all2) > 0
           /\ EndsAlike(msgs2, all2)
<1>1. KeepRecent \in Nat /\ KeepRecent > 0
  BY LimitsFit
<1>2. /\ msgs \in Seq(Messages) /\ Len(msgs) \in Nat /\ Len(msgs) > 0
      /\ DOMAIN msgs = 1 .. Len(msgs) /\ Len(all) \in Nat /\ Len(more) \in Nat
  BY LenProperties DEF Orderly
<1>3. ASSUME NEW s \in Seq(Messages), Len(s) > 0,
             NEW t, t = Continued(s, cut, more)
      PROVE  /\ t \in Seq(Messages) /\ Len(t) = Len(s) - cut + Len(more)
             /\ \A i \in 1 .. Len(s) - cut : t[i] = s[i]
             /\ \A i \in 1 .. Len(more) : t[Len(s) - cut + i] = more[i]
  <2>1. Len(s) \in Nat /\ \A i \in 1 .. Len(s) - cut : s[i] \in Messages
    BY LenProperties, ElementOfSeq
  <2> DEFINE front == SubSeq(s, 1, Len(s) - cut)
  <2>2. /\ front \in Seq(Messages) /\ Len(front) = Len(s) - cut
        /\ \A i \in 1 .. Len(s) - cut : front[i] = s[i]
    BY <1>3, <2>1, SubSeqProperties
  <2>3. t = front \o more
    BY <1>3 DEF Continued
  <2> HIDE DEF front
  <2>4. /\ front \o more \in Seq(Messages)
        /\ Len(front \o more) = Len(front) + Len(more)
        /\ \A i \in 1 .. Len(front) : (front \o more)[i] = front[i]
        /\ \A i \in 1 .. Len(more) : (front \o more)[Len(front) + i] = more[i]
    BY <2>2, Joined
  <2> QED
    BY <2>2, <2>3, <2>4
<1>4. /\ msgs2 \in Seq(Messages) /\ Len(msgs2) = Len(msgs) - cut + Len(more)
      /\ \A i \in 1 .. Len(msgs) - cut : msgs2[i] = msgs[i]
      /\ \A i \in 1 .. Len(more) : msgs2[Len(msgs) - cut + i] = more[i]
  BY <1>2, <1>3
<1>5. /\ all2 \in Seq(Messages) /\ Len(all2) = Len(all) - cut + Len(more)
      /\ \A i \in 1 .. Len(all) - cut : all2[i] = all[i]
      /\ \A i \in 1 .. Len(more) : all2[Len(all) - cut + i] = more[i]
  BY <1>2, <1>3
<1>6. Len(all2) > 0
  BY <1>2, <1>5
<1>7. ASSUME NEW i \in 1 .. Len(msgs2), IsNotice(msgs2[i])
      PROVE  i \in 1 .. Len(msgs) /\ IsNotice(msgs[i])
  <2>1. CASE i <= Len(msgs) - cut
    BY <2>1, <1>2, <1>4, <1>7
  <2>2. CASE i > Len(msgs) - cut
    <3>1. i - (Len(msgs) - cut) \in 1 .. Len(more)
      BY <2>2, <1>2, <1>4
    <3>2. i = Len(msgs) - cut + (i - (Len(msgs) - cut))
      BY <1>2
    <3>3. msgs2[i] = more[i - (Len(msgs) - cut)]
      BY <3>1, <3>2, <1>4
    <3> QED
      BY <3>1, <3>3, <1>7
  <2> QED
    BY <2>1, <2>2, <1>2
<1>8. Orderly(msgs2)
  <2>1. Len(msgs2) > 0 /\ DOMAIN msgs2 = 1 .. Len(msgs2) /\ Len(msgs2) >= Len(msgs)
    BY <1>2, <1>4, LenProperties
  <2>2. \A i, j \in 1 .. Len(msgs2) : IsNotice(msgs2[i]) /\ IsNotice(msgs2[j]) => i = j
    BY <1>2, <1>7 DEF Orderly
  <2>3. \A i \in 1 .. Len(msgs2) : IsNotice(msgs2[i]) => i + KeepRecent <= Len(msgs)
    BY <1>2, <1>7 DEF Orderly
  <2>4. \A i \in 1 .. Len(msgs2) : IsNotice(msgs2[i]) => i + KeepRecent <= Len(msgs2)
    BY <2>1, <2>3, <1>1, <1>2
  <2> QED
    BY <2>1, <2>2, <2>4, <1>4 DEF Orderly
<1>9. EndsAlike(msgs2, all2)
  <2>1. CASE msgs = all
    BY <2>1 DEF EndsAlike
  <2>2. CASE msgs # all
    <3>1. PICK k \in Nat :
              /\ k >= KeepRecent /\ k <= Len(msgs) /\ k <= Len(all)
              /\ \A i \in 1 .. k : msgs[Len(msgs) - k + i] = all[Len(all) - k + i]
              /\ \A i \in 1 .. Len(msgs) - k : ~IsOfCall(msgs[i])
      BY <2>2 DEF EndsAlike, SameEnd
    <3> DEFINE m == k - cut + Len(more)
    <3>2. /\ m \in Nat /\ m >= KeepRecent /\ m <= Len(msgs2) /\ m <= Len(all2)
          /\ Len(msgs2) - m = Len(msgs) - k /\ Len(all2) - m = Len(all) - k
      BY <3>1, <1>1, <1>2, <1>4, <1>5
    <3>3. ASSUME NEW i \in 1 .. m
          PROVE  msgs2[Len(msgs) - k + i] = all2[Len(all) - k + i]
      <4>1. CASE i <= k - cut
        <5>1. /\ i \in 1 .. k
              /\ Len(msgs) - k + i \in 1 .. Len(msgs) - cut
              /\ Len(all) - k + i \in 1 .. Len(all) - cut
          BY <4>1, <3>1, <1>2
        <5> QED
          BY <5>1, <3>1, <1>4, <1>5
      <4>2. CASE i > k - cut
        <5> DEFINE j == i - (k - cut)
        <5>1. /\ j \in 1 .. Len(more)
              /\ Len(msgs) - k + i = Len(msgs) - cut + j
              /\ Len(all) - k + i = Len(all) - cut + j
          BY <4>2, <3>1, <1>2
        <5> HIDE DEF j
        <5> QED
          BY <5>1, <1>4, <1>5
      <4> HIDE DEF m
      <4> QED
        BY <4>1, <4>2, <3>1, <3>2
    <3>4. ASSUME NEW i \in 1 .. Len(msgs) - k
          PROVE  ~IsOfCall(msgs2[i])
      <4>1. i \in 1 .. Len(msgs) - cut
        BY <3>1, <1>1, <1>2
      <4> QED
        BY <4>1, <3>1, <1>4
    <3>5. SameEnd(msgs2, all2, m)
      <4> HIDE DEF m
      <4> QED
        BY <3>2, <3>3 DEF SameEnd
    <3> HIDE DEF m
    <3> QED
      BY <3>2, <3>4, <3>5 DEF EndsAlike
  <2> QED
    BY <2>1, <2>2
<1> QED
  BY <1>5, <1>6, <1>8, <1>9

\* An append is the case in which nothing is cut off.
LEMMA NothingCut ==
    ASSUME NEW s \in Seq(Messages), NEW more
    PROVE  s \o more = Continued(s, 0, more)
<1>1. SubSeq(s, 1, Len(s) - 0) = s
  BY SubSeqFull, LenProperties
<1> QED
  BY <1>1 DEF Continued

\* As long as anything is kept, the last message is the run's last.
LEMMA SameLast ==
    ASSUME IInv
    PROVE  transcript[Len(transcript)] = full[Len(full)]
<1>1. CASE transcript = full
  BY <1>1
<1>2. CASE transcript # full
  <2>1. PICK k \in Nat :
            /\ k >= KeepRecent
            /\ k <= Len(transcript) /\ k <= Len(full)
            /\ \A i \in 1 .. k : transcript[Len(transcript) - k + i] = full[Len(full) - k + i]
    BY <1>2 DEF IInv, EndsAlike, SameEnd
  <2>2. k \in 1 .. k /\ Len(transcript) \in Nat /\ Len(full) \in Nat
    BY <2>1, LimitsFit, LenProperties DEF IInv, TypeOK
  <2>3. Len(transcript) - k + k = Len(transcript) /\ Len(full) - k + k = Len(full)
    BY <2>2
  <2> QED
    BY <2>1, <2>2, <2>3
<1> QED
  BY <1>1, <1>2

-----------------------------------------------------------------------------
(* The invariant.                                                          *)

LEMMA InitHolds == Init => IInv
<1> SUFFICES ASSUME Init PROVE IInv
  OBVIOUS
<1>1. Text("user") \in Messages /\ ~IsNotice(Text("user"))
  BY DEF Text, Messages, IsNotice
<1>2. transcript = <<Text("user")>> /\ full = transcript
  BY DEF Init
<1> DEFINE first == Text("user")
<1> HIDE DEF first
<1>3. /\ transcript \in Seq(Messages) /\ Len(transcript) = 1
      /\ DOMAIN transcript = {1} /\ transcript[1] = first
  BY <1>1, <1>2 DEF first
<1>4. Orderly(transcript)
  BY <1>1, <1>3 DEF Orderly, first
<1>5. EndsAlike(transcript, full)
  BY <1>2 DEF EndsAlike
<1>6. TypeOK
  BY <1>2, <1>3 DEF Init, TypeOK
<1> QED
  BY <1>2, <1>3, <1>4, <1>5, <1>6 DEF IInv, Init

LEMMA CompactStep == IInv /\ Compact => IInv'
<1> SUFFICES ASSUME IInv, Compact PROVE IInv'
  OBVIOUS
<1>1. /\ transcript' = Compacted(transcript) /\ full' = full
      /\ Orderly(transcript) /\ EndsAlike(transcript, full)
  BY DEF IInv, Compact
<1>2. CASE Compacted(transcript) = transcript /\ Len(transcript) < Limit
  BY <1>1, <1>2 DEF IInv, TypeOK, Compact
<1>3. CASE /\ Len(transcript) > KeepRecent
           /\ Orderly(Compacted(transcript))
           /\ Len(Compacted(transcript)) < Limit
           /\ SameEnd(Compacted(transcript), transcript, KeepRecent)
           /\ \A i \in 1 .. Len(Compacted(transcript)) - KeepRecent :
                 ~IsOfCall(Compacted(transcript)[i])
  <2> DEFINE made == Compacted(transcript)
  <2>1. Orderly(made) /\ Len(made) < Limit /\ made \in Seq(Messages)
    BY <1>3 DEF Orderly
  <2>2. /\ KeepRecent <= Len(made) /\ KeepRecent <= Len(transcript)
        /\ \A i \in 1 .. KeepRecent :
              made[Len(made) - KeepRecent + i] = transcript[Len(transcript) - KeepRecent + i]
    BY <1>3 DEF SameEnd
  <2>3. SameEnd(made, full, KeepRecent)
    <3> HIDE DEF made
    <3>1. CASE transcript = full
      BY <3>1, <2>2 DEF SameEnd
    <3>2. CASE transcript # full
      <4>1. PICK k \in Nat :
                /\ k >= KeepRecent /\ k <= Len(transcript) /\ k <= Len(full)
                /\ \A i \in 1 .. k :
                      transcript[Len(transcript) - k + i] = full[Len(full) - k + i]
        BY <3>2, <1>1 DEF EndsAlike, SameEnd
      <4>2. Len(transcript) \in Nat /\ Len(full) \in Nat
        BY LenProperties DEF IInv, TypeOK
      <4>3. ASSUME NEW i \in 1 .. KeepRecent
            PROVE  made[Len(made) - KeepRecent + i] = full[Len(full) - KeepRecent + i]
        <5>1. /\ k - KeepRecent + i \in 1 .. k
              /\ Len(transcript) - k + (k - KeepRecent + i) = Len(transcript) - KeepRecent + i
              /\ Len(full) - k + (k - KeepRecent + i) = Len(full) - KeepRecent + i
          BY <4>1, <4>2, LimitsFit
        <5> QED
          BY <5>1, <4>1, <2>2
      <4> QED
        BY <4>1, <4>2, <4>3, <2>2, LimitsFit DEF SameEnd
    <3> QED
      BY <3>1, <3>2
  <2>4. EndsAlike(made, full)
    BY <1>3, <2>3, LimitsFit DEF EndsAlike
  <2> HIDE DEF made
  <2>5. transcript' = made
    BY <1>1 DEF made
  <2>6. TypeOK'
    BY <2>1, <2>5 DEF IInv, TypeOK, Compact
  <2> QED
    BY <2>1, <2>4, <2>5, <2>6, <1>1 DEF IInv
<1> QED
  BY <1>1, <1>2, <1>3, CompactionFits

\* What every appending action has in common.
LEMMA AppendStep ==
    ASSUME IInv, TypeOK', pc' # "ask",
           NEW cut \in 0 .. 1, cut = 1 => ~IsNotice(transcript[Len(transcript)]),
           NEW more \in Seq(Messages), Len(more) > cut,
           \A i \in 1 .. Len(more) : ~IsNotice(more[i]),
           transcript' = Continued(transcript, cut, more),
           full' = Continued(full, cut, more)
    PROVE  IInv'
<1>1. Orderly(transcript) /\ full \in Seq(Messages) /\ Len(full) > 0
      /\ EndsAlike(transcript, full)
  BY DEF IInv, TypeOK
<1>2. Orderly(transcript') /\ Len(full') > 0 /\ EndsAlike(transcript', full')
  BY <1>1, AppendingKeeps
<1> QED
  BY <1>2 DEF IInv

LEMMA CallsStep ==
    ASSUME IInv, NEW n \in 1 .. MaxBatch, Calls(n)
    PROVE  IInv'
<1> DEFINE more == Recorded(n)
<1>1. n \in Nat /\ n > 0 /\ calls \in Nat
  BY CompactionAssumption DEF IInv, TypeOK
<1>2. ASSUME NEW i \in 1 .. 2 * n
      PROVE  more[i] \in [kind : {"request", "result"}, call : Nat]
  <2>1. CASE i % 2 = 1
    <3>1. calls + (i + 1) \div 2 \in Nat /\ more[i] = Request(calls + (i + 1) \div 2)
      BY <2>1, <1>1 DEF Recorded
    <3> QED
      BY <3>1 DEF Request
  <2>2. CASE i % 2 # 1
    <3>1. calls + i \div 2 \in Nat /\ more[i] = Result(calls + i \div 2)
      BY <2>2, <1>1 DEF Recorded
    <3> QED
      BY <3>1 DEF Result
  <2> QED
    BY <2>1, <2>2
<1>3. DOMAIN more = 1 .. 2 * n /\ more = [i \in 1 .. 2 * n |-> more[i]]
  BY DEF Recorded
<1>4. 2 * n \in Nat /\ 2 * n > 0
  BY <1>1
<1> HIDE DEF more
<1>5. \A i \in 1 .. 2 * n : more[i] \in Messages /\ ~IsNotice(more[i])
  BY <1>2 DEF Messages, IsNotice
<1>6. more \in Seq(Messages) /\ Len(more) = 2 * n
  <2>1. more \in Seq(Messages)
    BY <1>3, <1>4, <1>5, IsASeq
  <2> QED
    BY <2>1, <1>3, <1>4, LenProperties
<1>7. transcript' = transcript \o more /\ full' = full \o more
  BY DEF Calls, more
<1>8. transcript' = Continued(transcript, 0, more) /\ full' = Continued(full, 0, more)
  BY <1>7, NothingCut DEF IInv, TypeOK
<1>9. TypeOK'
  <2>1. transcript' \in Seq(Messages) /\ full' \in Seq(Messages)
    BY <1>6, <1>7, Joined DEF IInv, TypeOK
  <2>2. /\ pc' = "top" /\ planning' \in BOOLEAN /\ redirects' = redirects
        /\ calls' = calls + n /\ steps' = steps + 1
    BY DEF Calls
  <2> QED
    BY <2>1, <2>2, <1>1 DEF IInv, TypeOK
<1>10. pc' # "ask"
  BY DEF Calls
<1> QED
  BY <1>4, <1>5, <1>6, <1>8, <1>9, <1>10, AppendStep

LEMMA RedirectStep ==
    ASSUME IInv, Redirect
    PROVE  IInv'
<1> DEFINE a == Text("assistant")
<1> DEFINE b == Text("nudge")
<1> DEFINE more == <<a, b>>
<1> DEFINE cut == IF transcript[Len(transcript)] = b THEN 1 ELSE 0
<1>1. /\ a \in Messages /\ ~IsNotice(a) /\ b \in Messages /\ ~IsNotice(b)
  BY DEF Text, Messages, IsNotice
<1>2. /\ transcript' = Redirected(transcript) /\ full' = Redirected(full)
      /\ pc' = "top" /\ redirects' = redirects + 1 /\ calls' = calls
      /\ steps' = steps + 1 /\ planning' = (redirects' < MaxRedirects)
  BY DEF Redirect
<1>3. transcript \in Seq(Messages) /\ full \in Seq(Messages)
  BY DEF IInv, TypeOK
<1>4. transcript[Len(transcript)] = full[Len(full)]
  BY SameLast
<1> HIDE DEF a, b
<1>5. /\ more \in Seq(Messages) /\ Len(more) = 2
      /\ \A i \in 1 .. Len(more) : ~IsNotice(more[i])
  BY <1>1
<1> HIDE DEF more
<1>6. ASSUME NEW s \in Seq(Messages), s[Len(s)] = transcript[Len(transcript)]
      PROVE  Redirected(s) = Continued(s, cut, more)
  <2>1. Redirected(s) = WithoutNudge(s) \o more
    BY DEF Redirected, more, a, b
  <2>2. CASE s[Len(s)] = b
    BY <2>1, <2>2, <1>6 DEF WithoutNudge, Continued, b
  <2>3. CASE s[Len(s)] # b
    <3>1. WithoutNudge(s) = s
      BY <2>3 DEF WithoutNudge, b
    <3> QED
      BY <2>1, <2>3, <3>1, <1>6, NothingCut
  <2> QED
    BY <2>2, <2>3
<1>7. /\ cut \in 0 .. 1 /\ Len(more) > cut /\ pc' # "ask"
      /\ cut = 1 => ~IsNotice(transcript[Len(transcript)])
  BY <1>1, <1>2, <1>5
<1>8. transcript' = Continued(transcript, cut, more) /\ full' = Continued(full, cut, more)
  BY <1>2, <1>3, <1>4, <1>6
<1> HIDE DEF cut
<1>9. transcript' \in Seq(Messages) /\ full' \in Seq(Messages)
  <2>1. Orderly(transcript) /\ Len(full) > 0 /\ EndsAlike(transcript, full)
    BY DEF IInv
  <2>2. Orderly(transcript') /\ full' \in Seq(Messages)
    BY <2>1, <1>3, <1>5, <1>7, <1>8, AppendingKeeps
  <2> QED
    BY <2>2 DEF Orderly
<1>10. TypeOK'
  BY <1>2, <1>9 DEF IInv, TypeOK
<1> QED
  BY <1>2, <1>5, <1>7, <1>8, <1>10, AppendStep

LEMMA AnswerStep ==
    ASSUME IInv, Answer
    PROVE  IInv'
<1> DEFINE a == Text("assistant")
<1>1. a \in Messages /\ ~IsNotice(a)
  BY DEF Text, Messages, IsNotice
<1>2. transcript \in Seq(Messages) /\ full \in Seq(Messages)
  BY DEF IInv, TypeOK
<1>3. transcript' = Append(transcript, a) /\ full' = Append(full, a)
  BY DEF Answer
<1> HIDE DEF a
<1>4. /\ <<a>> \in Seq(Messages) /\ Len(<<a>>) = 1
      /\ \A i \in 1 .. Len(<<a>>) : ~IsNotice(<<a>>[i])
  BY <1>1
<1>5. transcript' = transcript \o <<a>> /\ full' = full \o <<a>>
  BY <1>1, <1>2, <1>3, AppendIsConcat
<1> DEFINE more == <<a>>
<1>6. transcript' \in Seq(Messages) /\ full' \in Seq(Messages)
  BY <1>1, <1>2, <1>3, AppendProperties
<1>7. TypeOK'
  BY <1>6 DEF IInv, TypeOK, Answer
<1>8. transcript' = Continued(transcript, 0, more) /\ full' = Continued(full, 0, more)
  <2> HIDE DEF more
  <2>1. transcript' = transcript \o more /\ full' = full \o more
    BY <1>5 DEF more
  <2> QED
    BY <2>1, <1>2, NothingCut
<1>9. pc' # "ask"
  BY DEF Answer
<1>10. more \in Seq(Messages) /\ Len(more) > 0
       /\ \A i \in 1 .. Len(more) : ~IsNotice(more[i])
  BY <1>4
<1> HIDE DEF more
<1> QED
  BY <1>7, <1>8, <1>9, <1>10, AppendStep

LEMMA StepHolds == IInv /\ [Next]_vars => IInv'
<1> SUFFICES ASSUME IInv, [Next]_vars PROVE IInv'
  OBVIOUS
<1>1. CASE Compact
  BY <1>1, CompactStep
<1>2. CASE Fails
  BY <1>2 DEF Fails, IInv, TypeOK
<1>3. ASSUME NEW n \in 1 .. MaxBatch, Calls(n)
      PROVE  IInv'
  BY <1>3, CallsStep
<1>4. CASE Redirect
  BY <1>4, RedirectStep
<1>5. CASE Answer
  BY <1>5, AnswerStep
<1>6. CASE UNCHANGED vars
  BY <1>6 DEF vars, IInv, TypeOK
<1> QED
  BY <1>1, <1>2, <1>3, <1>4, <1>5, <1>6 DEF Next

\* The conversation is always one that the next compaction cuts to the limit
\* (Orderly), whatever the run appends (run_inner).
THEOREM Invariance == Spec => []IInv
<1>1. Init => IInv
  BY InitHolds
<1>2. IInv /\ [Next]_vars => IInv'
  BY StepHolds
<1> QED
  BY <1>1, <1>2, PTL DEF Spec

-----------------------------------------------------------------------------
(* What follows from it.                                                   *)

\* The state has its types, for every limit.
THEOREM TypeCorrect == Spec => []TypeOK
<1>1. IInv => TypeOK
  BY DEF IInv
<1> QED
  BY <1>1, Invariance, PTL

\* However long the batches and for every limit from two up, what is sent is
\* shorter than the limit, or than four messages, and holds one summary at most
\* (maybe_compact_context).
THEOREM RequestsAlwaysFit == Spec => []RequestsFit
<1>1. IInv => RequestsFit
  BY DEF IInv, Orderly, RequestsFit, IsNotice
<1> QED
  BY <1>1, Invariance, PTL

\* And it ends with the newest messages of the run (micro_compact,
\* auto_compact).
THEOREM NewestAlwaysKept == Spec => []NewestAreKept
<1>1. ASSUME IInv
      PROVE  \E k \in 0 .. Len(full) :
                /\ k >= KeepRecent \/ k = Len(full)
                /\ k <= Len(transcript)
                /\ Newest(transcript, k) = Newest(full, k)
                /\ \A i \in 1 .. Len(transcript) - k : ~IsOfCall(transcript[i])
  <2>1. /\ transcript \in Seq(Messages) /\ full \in Seq(Messages)
        /\ Len(transcript) \in Nat /\ Len(full) \in Nat
        /\ EndsAlike(transcript, full)
    BY <1>1, LenProperties DEF IInv, TypeOK
  <2>2. CASE transcript = full
    <3>1. Len(full) \in 0 .. Len(full) /\ \A i \in 1 .. Len(full) - Len(full) : FALSE
      BY <2>1
    <3> QED
      BY <2>2, <3>1, <2>1
  <2>3. CASE transcript # full
    <3>1. PICK k \in Nat :
              /\ k >= KeepRecent /\ SameEnd(transcript, full, k)
              /\ \A i \in 1 .. Len(transcript) - k : ~IsOfCall(transcript[i])
      BY <2>1, <2>3 DEF EndsAlike
    <3>2. k <= Len(transcript) /\ k <= Len(full)
      BY <3>1 DEF SameEnd
    <3>3. ASSUME NEW s \in Seq(Messages), k <= Len(s)
          PROVE  /\ Newest(s, k) \in Seq(Messages) /\ Len(Newest(s, k)) = k
                 /\ \A i \in 1 .. k : Newest(s, k)[i] = s[Len(s) - k + i]
      <4>1. Len(s) \in Nat /\ \A i \in Len(s) - k + 1 .. Len(s) : s[i] \in Messages
        BY <3>3, LenProperties, ElementOfSeq
      <4>2. /\ Newest(s, k) \in Seq(Messages)
            /\ Len(Newest(s, k)) = IF Len(s) - k + 1 <= Len(s) THEN Len(s) - (Len(s) - k + 1) + 1 ELSE 0
            /\ \A i \in 1 .. Len(s) - (Len(s) - k + 1) + 1 :
                  Newest(s, k)[i] = s[Len(s) - k + 1 + i - 1]
        BY <4>1, <3>3, SubSeqProperties DEF Newest
      <4> QED
        BY <4>1, <4>2, <3>3
    <3>4. Newest(transcript, k) = Newest(full, k)
      <4>1. \A i \in 1 .. k : Newest(transcript, k)[i] = Newest(full, k)[i]
        BY <3>1, <3>2, <3>3, <2>1 DEF SameEnd
      <4> QED
        BY <4>1, <3>2, <3>3, <2>1, SeqEqual
    <3> QED
      BY <3>1, <3>2, <3>4, <2>1
  <2> QED
    BY <2>2, <2>3
<1>2. IInv => NewestAreKept
  BY <1>1 DEF NewestAreKept
<1> QED
  BY <1>2, Invariance, PTL

-----------------------------------------------------------------------------
(* RunSnapshots: the inductive invariant.                                  *)

Trees == {w \in [Paths -> Values] : IsTree(w)}

Entries == [path : Paths, was : Values \cup {Lost}] \cup [path : {Root}, was : {Dir}]

PendingChanges == [run : Runs, scope : SUBSET Places, path : Paths, value : Values]

Restores == [run : Runs, entries : Seq(Entries), next : Nat \ {0}]

SnapshotTypeOK ==
    /\ ws \in Trees
    /\ snaps \in Seq([run : Runs, entries : Seq(Entries)])
    /\ going \subseteq Runs /\ begun \subseteq Runs /\ changes \in Nat
    /\ pending \in [Runs -> {None} \cup PendingChanges]
    /\ restoring \in {None} \cup Restores
    /\ base \in [Runs -> Trees]
    /\ foreign \in [Runs -> SUBSET Paths]

\* A run has one snapshot at most, and only a run that has begun has one.
OneSnapshotEach ==
    \A i, j \in DOMAIN snaps : snaps[i].run = snaps[j].run => i = j

OnlyOfTheBegun ==
    /\ going \subseteq begun
    /\ \A i \in DOMAIN snaps : snaps[i].run \in begun
    /\ \A r \in Runs : pending[r] # None => r \in begun
    /\ restoring # None => restoring.run \in begun

\* The manifest has p as v, or says that the copy of a file is gone.
Keeps(entries, p, v) ==
    \E i \in DOMAIN entries :
        /\ entries[i].path = p
        /\ entries[i].was = v \/ (entries[i].was = Lost /\ IsFile(v))

Unique(entries) ==
    \A i, j \in DOMAIN entries : entries[i].path = entries[j].path => i = j

\* Whatever the run found below a captured path is in the manifest as found.
Sealed(r, entries) ==
    \A d \in EntryPaths(entries) : \A q \in Below(d) :
        Own(r, q) /\ base[r][q] # Absent => Keeps(entries, q, base[r][q])

\* What is not as the run found it is in the manifest.
Accounted(r, entries, w) ==
    \A p \in Paths :
        Own(r, p) /\ w[p] # base[r][p] =>
            IF base[r][p] # Absent THEN Keeps(entries, p, base[r][p])
            ELSE w[p] = Dir \/ Covered(entries, p)

\* What is on disk of a run that has begun, and be it nothing, tells what the run
\* found.
SnapshotsHold ==
    \A r \in begun :
        /\ Unique(EntriesOf(r)) /\ Sealed(r, EntriesOf(r))
        /\ Accounted(r, EntriesOf(r), ws)

\* What a call is about to change was captured, while the snapshot is there.
ScopesAreCaptured ==
    \A r \in Runs :
        pending[r] # None /\ SnapOf(r) # {} =>
            pending[r].scope \subseteq EntryPaths(EntriesOf(r))

\* What a restore still has to put back is among the entries to come.
RestoreHolds ==
    restoring # None =>
        /\ Unique(restoring.entries) /\ Sealed(restoring.run, restoring.entries)
        /\ \A p \in Paths :
              Own(restoring.run, p) /\ IsFile(base[restoring.run][p]) =>
                 \/ ws[p] = base[restoring.run][p]
                 \/ \E i \in DOMAIN restoring.entries :
                       i >= restoring.next /\ restoring.entries[i].path = p

SnapshotInv ==
    /\ SnapshotTypeOK /\ OneSnapshotEach /\ OnlyOfTheBegun
    /\ SnapshotsHold /\ ScopesAreCaptured /\ RestoreHolds

-----------------------------------------------------------------------------
(* The tree.                                                               *)

\* The parent of a path is above it, and so is what is above its parent.
LEMMA AboveIsAll ==
    ASSUME NEW p \in Paths
    PROVE  /\ Parent[p] \in Above[p] /\ Parent[p] \in Places
           /\ Above[p] \subseteq Places /\ HasParents(Above[p])
<1>1. Parent[p] \in Places
  BY SnapshotAssumption DEF Places
<1>2. Above[p] = {q \in Places : \A S \in SUBSET Places :
                    Parent[p] \in S /\ HasParents(S) => q \in S}
  BY DEF Above
<1>3. ASSUME NEW q \in Above[p], q # Root PROVE Parent[q] \in Above[p]
  <2>1. q \in Paths /\ Parent[q] \in Places
    BY <1>2, <1>3, SnapshotAssumption DEF Places
  <2>2. ASSUME NEW S \in SUBSET Places, Parent[p] \in S, HasParents(S)
        PROVE  Parent[q] \in S
    BY <1>2, <1>3, <2>2 DEF HasParents
  <2> QED BY <1>2, <2>1, <2>2
<1> QED BY <1>1, <1>2, <1>3 DEF HasParents

\* A set that has the parent of p and its own has all above p.
LEMMA AboveIsLeast ==
    ASSUME NEW p \in Paths, NEW S \in SUBSET Places, Parent[p] \in S, HasParents(S)
    PROVE  Above[p] \subseteq S
BY DEF Above

\* What is above a directory above p is above p.
LEMMA AboveIsTransitive ==
    ASSUME NEW p \in Paths, NEW q \in Above[p], q # Root
    PROVE  q \in Paths /\ Above[q] \subseteq Above[p]
<1>1. q \in Paths /\ Parent[q] \in Above[p]
  BY AboveIsAll DEF HasParents, Places
<1> QED BY <1>1, AboveIsAll, AboveIsLeast

\* Everything below the parent's place is below what is above the parent.
LEMMA BelowIsTransitive ==
    ASSUME NEW d \in Places, NEW q \in Below(d), NEW p \in Below(q)
    PROVE  p \in Below(d)
BY AboveIsTransitive, SnapshotAssumption DEF Below, Places

\* In a tree a directory is above whatever is there.
LEMMA DirectoriesAbove ==
    ASSUME NEW w \in Trees, NEW p \in Paths, w[p] # Absent,
           NEW q \in Above[p], q # Root
    PROVE  w[q] = Dir
<1> DEFINE S == {x \in Places : x = Root \/ w[x] = Dir}
<1>1. Parent[p] \in S
  BY AboveIsAll DEF Trees, IsTree
<1>2. Dir # Absent
  BY SnapshotAssumption
<1>3. HasParents(S)
  BY <1>2, SnapshotAssumption DEF HasParents, Trees, IsTree, Places
<1> QED BY <1>1, <1>3, AboveIsLeast

\* What a removal, the making of directories and a new file leave is a tree.
LEMMA ErasedIs ==
    ASSUME NEW w \in Trees, NEW p \in Places
    PROVE  /\ Erased(w, p) \in Trees
           /\ \A q \in Paths : Erased(w, p)[q] = IF q \in Below(p) THEN Absent ELSE w[q]
<1> DEFINE v == Erased(w, p)
<1>1. v \in [Paths -> Values] /\ \A q \in Paths : v[q] = IF q \in Below(p) THEN Absent ELSE w[q]
  BY DEF Erased, Trees, Values
<1>2. ASSUME NEW q \in Paths, v[q] # Absent PROVE Parent[q] = Root \/ v[Parent[q]] = Dir
  <2>1. q \notin Below(p) /\ w[q] # Absent
    BY <1>1, <1>2
  <2>2. CASE Parent[q] = Root
    BY <2>2
  <2>3. CASE Parent[q] # Root
    <3>1. Parent[q] \in Paths /\ w[Parent[q]] = Dir
      BY <2>1, <2>3, SnapshotAssumption DEF Trees, IsTree
    <3>2. Parent[q] \notin Below(p)
      <4> SUFFICES ASSUME Parent[q] \in Below(p) PROVE FALSE
        OBVIOUS
      <4>1. q \in Below(Parent[q])
        BY AboveIsAll DEF Below
      <4> QED BY <2>1, <4>1, <3>1, BelowIsTransitive
    <3> QED BY <1>1, <3>1, <3>2
  <2> QED BY <2>2, <2>3
<1> QED BY <1>1, <1>2 DEF Trees, IsTree

\* A path and all above it made directories.
LEMMA MadeDirsAre ==
    ASSUME NEW w \in Trees, NEW p \in Places
    PROVE  /\ MakeDirs(w, p) \in Trees
           /\ \A q \in Paths : MakeDirs(w, p)[q] =
                 IF q = p \/ (p # Root /\ q \in Above[p]) THEN Dir ELSE w[q]
<1> DEFINE v == MakeDirs(w, p)
           over(q) == q = p \/ (p # Root /\ q \in Above[p])
<1>1. v \in [Paths -> Values] /\ \A q \in Paths : v[q] = IF over(q) THEN Dir ELSE w[q]
  BY DEF MakeDirs, Trees, Values
<1>2. ASSUME NEW q \in Paths, v[q] # Absent PROVE Parent[q] = Root \/ v[Parent[q]] = Dir
  <2>1. Parent[q] = Root \/ Parent[q] \in Paths
    BY SnapshotAssumption
  <2>2. CASE over(q)
    <3>1. p \in Paths /\ Root \notin Paths
      BY <2>2, AboveIsAll, SnapshotAssumption DEF Places
    <3>2. Parent[q] \in Above[p]
      BY <2>2, <3>1, AboveIsAll DEF HasParents
    <3> QED BY <1>1, <2>1, <3>1, <3>2
  <2>3. CASE ~over(q)
    <3>1. w[q] # Absent
      BY <1>1, <1>2, <2>3
    <3>2. Parent[q] = Root \/ w[Parent[q]] = Dir
      BY <3>1 DEF Trees, IsTree
    <3> QED BY <1>1, <2>1, <3>2
  <2> QED BY <2>2, <2>3
<1>3. v \in Trees
  BY <1>1, <1>2 DEF Trees, IsTree
<1> QED BY <1>1, <1>3

\* A file put where no directory is, with the directories above it.
LEMMA PutFileIs ==
    ASSUME NEW w \in Trees, NEW p \in Paths, NEW c \in Contents, w[p] # Dir
    PROVE  /\ PutFile(w, p, c) \in Trees
           /\ \A q \in Paths : PutFile(w, p, c)[q] =
                 IF q = p THEN c
                 ELSE IF q = Parent[p] \/ (Parent[p] # Root /\ q \in Above[Parent[p]])
                 THEN Dir ELSE w[q]
<1> DEFINE d == Parent[p]
           m == MakeDirs(w, d)
           v == PutFile(w, p, c)
           over(q) == q = d \/ (d # Root /\ q \in Above[d])
<1>1. d \in Places /\ d \in Above[p] /\ (d # Root => d \in Paths /\ Above[d] \subseteq Above[p])
  BY AboveIsAll, AboveIsTransitive
<1>2. m \in Trees /\ \A q \in Paths : m[q] = IF over(q) THEN Dir ELSE w[q]
  BY <1>1, MadeDirsAre
<1>3. \A q \in Paths : over(q) => q # p
  BY <1>1, TreeAssumption
<1>4. v \in [Paths -> Values] /\ \A q \in Paths : v[q] = IF q = p THEN c ELSE m[q]
  BY <1>2 DEF PutFile, Trees, Values
<1>5. c # Absent /\ c # Dir
  BY SnapshotAssumption
<1>6. ASSUME NEW q \in Paths, v[q] # Absent PROVE Parent[q] = Root \/ v[Parent[q]] = Dir
  <2>1. Parent[q] = Root \/ Parent[q] \in Paths
    BY SnapshotAssumption
  <2>2. CASE q = p
    <3>1. d = Root \/ (m[d] = Dir /\ d # p)
      BY <1>1, <1>2, <1>3
    <3> QED BY <2>2, <3>1, <1>1, <1>4
  <2>3. CASE q # p
    <3>1. m[q] # Absent
      BY <1>4, <1>6, <2>3
    <3>2. Parent[q] = Root \/ m[Parent[q]] = Dir
      BY <3>1, <1>2 DEF Trees, IsTree
    <3>3. Parent[q] # p
      <4> SUFFICES ASSUME Parent[q] = p PROVE FALSE
        OBVIOUS
      <4>1. m[p] = Dir /\ ~over(p)
        BY <3>2, <1>3, SnapshotAssumption
      <4> QED BY <4>1, <1>2
    <3> QED BY <3>2, <3>3, <2>1, <1>4
  <2> QED BY <2>2, <2>3
<1>7. v \in Trees
  BY <1>4, <1>6 DEF Trees, IsTree
<1> QED BY <1>2, <1>4, <1>7

\* A change leaves a tree.
LEMMA ChangedIsATree ==
    ASSUME NEW w \in Trees, NEW p \in Paths, NEW v \in Values, CanChange(w, p, v)
    PROVE  Changed(w, p, v) \in Trees
<1>1. p \in Places /\ Absent # Dir
  BY SnapshotAssumption DEF Places
<1>2. CASE v = Absent
  <2>1. Changed(w, p, v) = Erased(w, p)
    BY <1>1, <1>2 DEF Changed
  <2> QED BY <1>1, <2>1, ErasedIs
<1>3. CASE v = Dir
  <2>1. Changed(w, p, v) = MakeDirs(w, p)
    BY <1>1, <1>3 DEF Changed
  <2> QED BY <1>1, <2>1, MadeDirsAre
<1>4. CASE v # Absent /\ v # Dir
  <2>1. Changed(w, p, v) = PutFile(w, p, v) /\ w[p] # Dir /\ v \in Contents
    BY <1>4 DEF Changed, CanChange, Values
  <2> QED BY <2>1, PutFileIs
<1> QED BY <1>2, <1>3, <1>4

-----------------------------------------------------------------------------
(* What a restore does to the tree.                                        *)

\* The paths of a manifest are places, each with an entry.
LEMMA EntryPathsAre ==
    ASSUME NEW M \in Seq(Entries)
    PROVE  /\ EntryPaths(M) \subseteq Places
           /\ \A i \in DOMAIN M : M[i] \in Entries /\ M[i].path \in EntryPaths(M)
           /\ \A p \in EntryPaths(M) : \E i \in DOMAIN M : M[i].path = p
BY DEF EntryPaths, Entries, Places

\* What lies below a path that the manifest has, and was there for the run, is in
\* the manifest; so the entry of the path itself is what it was for the run.
LEMMA EntrySaysWhatWas ==
    ASSUME NEW M \in Seq(Entries), Unique(M), NEW r \in Runs, Sealed(r, M),
           base \in [Runs -> Trees], NEW i \in DOMAIN M,
           NEW q \in Below(M[i].path), Own(r, q), base[r][q] # Absent
    PROVE  /\ M[i].path = q => \/ M[i].was = base[r][q]
                                \/ (M[i].was = Lost /\ IsFile(base[r][q]))
           /\ M[i].path \notin {q, Root} => M[i].was = Dir
<1> DEFINE d == M[i].path
<1>1. d \in EntryPaths(M) /\ d \in Places /\ q \in Paths
  BY EntryPathsAre DEF Below
<1>2. CASE d = q
  <2>1. Keeps(M, q, base[r][q])
    BY <1>1 DEF Sealed
  <2>2. PICK j \in DOMAIN M :
           /\ M[j].path = q
           /\ M[j].was = base[r][q] \/ (M[j].was = Lost /\ IsFile(base[r][q]))
    BY <2>1 DEF Keeps
  <2>3. i = j
    BY <2>2, <1>2 DEF Unique
  <2> QED BY <2>2, <2>3, <1>2
<1>3. CASE d # q /\ d # Root
  <2>1. d \in Above[q] /\ d \in Paths
    BY <1>1, <1>3 DEF Below, Places
  <2>2. base[r][d] = Dir
    BY <2>1, <1>3, <1>1, DirectoriesAbove
  <2>3. Own(r, d)
    BY <2>1, <1>1, <1>3, AboveIsTransitive DEF Own
  <2>4. d \in Below(d)
    BY <2>1 DEF Below
  <2>5. Keeps(M, d, Dir) /\ ~IsFile(Dir)
    BY <1>1, <2>2, <2>3, <2>4, SnapshotAssumption DEF Sealed, IsFile
  <2> QED BY <2>5, <1>3 DEF Keeps, Unique
<1>4. CASE d = Root /\ d # q
  BY <1>4
<1> QED BY <1>2, <1>3, <1>4

\* All above a path is its parent and what is above that.
LEMMA AboveTheParent ==
    ASSUME NEW p \in Paths, NEW q \in Above[p]
    PROVE  q = Parent[p] \/ (Parent[p] # Root /\ q \in Above[Parent[p]])
<1> DEFINE d == Parent[p]
           S == {x \in Places : x = d \/ (d # Root /\ x \in Above[d])}
<1>1. d \in S
  BY AboveIsAll
<1>2. HasParents(S)
  <2> SUFFICES ASSUME NEW x \in S, x # Root PROVE Parent[x] \in S
    BY DEF HasParents
  <2>1. d # Root /\ d \in Paths /\ x \in Paths
    BY AboveIsAll DEF Places
  <2>2. Parent[x] \in Above[d]
    BY <2>1, AboveIsAll DEF HasParents
  <2> QED BY <2>1, <2>2, AboveIsAll
<1> QED BY <1>1, <1>2, AboveIsLeast

\* Where directories can be made, only what is absent becomes one.
LEMMA MadeOfNothing ==
    ASSUME NEW w \in Trees, NEW p \in Paths, CanMakeDirs(w, Parent[p]),
           NEW q \in Above[p], q # Root
    PROVE  w[q] \in {Absent, Dir}
<1>1. q \in Paths
  BY AboveIsTransitive
<1>2. ~IsFile(w[q])
  BY <1>1, AboveTheParent DEF CanMakeDirs
<1> QED BY <1>1, <1>2 DEF IsFile, Trees, Values

\* The directory in the way of a file goes with what lies in it.
LEMMA OutOfTheWayIs ==
    ASSUME NEW w \in Trees, NEW p \in Paths
    PROVE  /\ OutOfTheWay(w, p) \in Trees /\ OutOfTheWay(w, p)[p] # Dir
           /\ \A q \in Paths : \/ OutOfTheWay(w, p)[q] = w[q]
                               \/ OutOfTheWay(w, p)[q] = Absent /\ q \in Below(p)
           /\ OutOfTheWay(w, p)[p] # w[p] => w[p] = Dir
<1>1. p \in Below(p) /\ p \in Places /\ Absent # Dir
  BY SnapshotAssumption DEF Below, Places
<1> QED BY <1>1, ErasedIs DEF OutOfTheWay

\* What putting back one entry makes of a path: it stays; it goes, being in the
\* way of the entry or below it; it becomes a directory; or it is the copy.
Becomes(v, was, e, copy, p) ==
    \/ v = was
    \/ v = Absent /\ p \in Below(e.path)
       /\ (e.was = Absent \/ (e.was # Dir /\ p # e.path))
    \/ v = Dir /\ was = Absent /\ e.path # Root /\ (p = e.path \/ p \in Above[e.path])
    \/ v = Dir /\ p = e.path /\ e.was = Dir /\ IsFile(was)
    \/ v = copy /\ p = e.path /\ e.was \notin {Absent, Dir}

\* Putting one entry back leaves a tree, and does no more than that.
LEMMA PutBackIs ==
    ASSUME NEW w \in Trees, NEW e \in Entries, NEW copy, CanPutBack(w, e, copy)
    PROVE  /\ PutBack(w, e, copy) \in Trees
           /\ \A p \in Paths : Becomes(PutBack(w, e, copy)[p], w[p], e, copy, p)
           /\ e.was \notin {Absent, Dir} =>
                 IsFile(copy) /\ PutBack(w, e, copy)[e.path] = copy
<1> DEFINE x == PutBack(w, e, copy)
<1>1. e.path \in Places /\ (e.was # Dir => e.path \in Paths)
      /\ (e.path # Root => e.path \in Paths)
      /\ e.was \in Values \cup {Lost}
      /\ Absent # Dir /\ Lost \notin {Absent, Dir} /\ ~IsFile(Absent) /\ ~IsFile(Dir)
      /\ ~IsFile(Lost)
  BY SnapshotAssumption DEF Entries, Places, Values, IsFile
<1>2. CASE e.was = Absent
  <2>1. x = Erased(w, e.path)
    BY <1>1, <1>2 DEF PutBack
  <2> QED BY <2>1, <1>1, <1>2, ErasedIs DEF Becomes
<1>3. CASE e.was = Dir /\ e.path = Root
  <2>1. x = w
    BY <1>1, <1>3 DEF PutBack
  <2> QED BY <2>1, <1>1, <1>3 DEF Becomes
<1>4. CASE e.was = Dir /\ e.path # Root /\ IsFile(w[e.path])
  <2> DEFINE w2 == Erased(w, e.path)
  <2>1. x = MakeDirs(w2, e.path)
    BY <1>1, <1>4 DEF PutBack
  <2>2. e.path \in Paths /\ w2 \in Trees
        /\ \A q \in Paths : w2[q] = IF q \in Below(e.path) THEN Absent ELSE w[q]
    BY <1>1, <1>4, ErasedIs
  <2>3. x \in Trees /\ \A q \in Paths :
            x[q] = IF q = e.path \/ q \in Above[e.path] THEN Dir ELSE w2[q]
    BY <2>1, <2>2, <1>1, <1>4, MadeDirsAre
  <2>4. ASSUME NEW q \in Paths PROVE Becomes(x[q], w[q], e, copy, q)
    <3>1. CASE q = e.path
      BY <3>1, <2>3, <1>4 DEF Becomes
    <3>2. CASE q \in Above[e.path]
      <4>1. w[q] = Dir
        BY <3>2, <2>2, <1>1, <1>4, DirectoriesAbove, SnapshotAssumption
      <4> QED BY <4>1, <3>2, <2>3 DEF Becomes
    <3>3. CASE q # e.path /\ q \notin Above[e.path] /\ q \in Below(e.path)
      <4>1. e.path \in Above[q]
        BY <3>3 DEF Below
      <4>2. w[q] = Absent
        BY <4>1, <1>1, <1>4, DirectoriesAbove
      <4> QED BY <4>2, <3>3, <2>2, <2>3 DEF Becomes
    <3>4. CASE q # e.path /\ q \notin Above[e.path] /\ q \notin Below(e.path)
      BY <3>4, <2>2, <2>3 DEF Becomes
    <3> QED BY <3>1, <3>2, <3>3, <3>4
  <2> QED BY <2>3, <2>4, <1>1, <1>4
<1>5. CASE e.was = Dir /\ e.path # Root /\ ~IsFile(w[e.path])
  <2>1. x = MakeDirs(w, e.path) /\ CanMakeDirs(w, Parent[e.path])
    BY <1>1, <1>5 DEF PutBack, CanPutBack
  <2>2. e.path \in Paths
    BY <1>1, <1>5
  <2>3. x \in Trees /\ \A q \in Paths :
            x[q] = IF q = e.path \/ q \in Above[e.path] THEN Dir ELSE w[q]
    BY <2>1, <2>2, <1>1, <1>5, MadeDirsAre
  <2>4. ASSUME NEW q \in Paths PROVE Becomes(x[q], w[q], e, copy, q)
    <3>1. q # Root
      BY SnapshotAssumption
    <3>2. w[e.path] \in {Absent, Dir}
      BY <2>2, <1>5 DEF Trees, Values, IsFile
    <3>3. q \in Above[e.path] => w[q] \in {Absent, Dir}
      BY <2>1, <2>2, <3>1, MadeOfNothing
    <3> QED BY <2>3, <3>2, <3>3, <1>5 DEF Becomes
  <2> QED BY <2>3, <2>4, <1>1, <1>5
<1>6. CASE e.was # Absent /\ e.was # Dir
  <2> DEFINE w2 == OutOfTheWay(w, e.path)
  <2>1. x = PutFile(w2, e.path, copy)
    BY <1>6 DEF PutBack
  <2>2. copy \in Contents /\ CanMakeDirs(w, Parent[e.path])
    BY <1>6 DEF CanPutBack, IsFile
  <2>3. e.path \in Paths
    BY <1>1, <1>6
  <2>4. w2 \in Trees /\ w2[e.path] # Dir
        /\ \A q \in Paths : w2[q] = w[q] \/ (w2[q] = Absent /\ q \in Below(e.path))
    BY <2>3, OutOfTheWayIs
  <2>5. x \in Trees /\ x[e.path] = copy
        /\ \A q \in Paths : q # e.path => x[q] = w2[q] \/ (x[q] = Dir /\ q \in Above[e.path])
    <3>1. \A q \in Paths :
            q = Parent[e.path] \/ (Parent[e.path] # Root /\ q \in Above[Parent[e.path]])
              => q \in Above[e.path]
      BY <2>3, AboveIsAll, AboveIsTransitive
    <3> QED BY <3>1, <2>1, <2>2, <2>3, <2>4, PutFileIs
  <2>6. ASSUME NEW q \in Paths PROVE Becomes(x[q], w[q], e, copy, q)
    <3>1. q # Root
      BY SnapshotAssumption
    <3>2. CASE q = e.path
      BY <3>2, <2>5, <1>6 DEF Becomes
    <3>3. CASE q # e.path /\ x[q] = w2[q]
      BY <3>3, <2>3, <2>4, <1>6 DEF Becomes
    <3>4. CASE q # e.path /\ x[q] = Dir /\ q \in Above[e.path]
      <4>1. w[q] \in {Absent, Dir}
        BY <2>2, <2>3, <3>1, <3>4, MadeOfNothing
      <4>2. e.path # Root
        BY <2>3, SnapshotAssumption
      <4> QED BY <4>1, <4>2, <3>4 DEF Becomes
    <3> QED BY <3>2, <3>3, <3>4, <2>5
  <2> QED BY <2>2, <2>5, <2>6 DEF IsFile
<1> QED BY <1>2, <1>3, <1>4, <1>5, <1>6

\* What an entry whose copy is missing makes of a path: it stays; it goes, being
\* the directory in the way or below it; or it is a directory made above.
MadeWay(v, was, e, p) ==
    \/ v = was
    \/ v = Absent /\ p \in Below(e.path) /\ e.was \notin {Absent, Dir}
       /\ (p = e.path => was = Dir)
    \/ v = Dir /\ was = Absent /\ e.path # Root /\ p \in Above[e.path]

\* It leaves a tree, too.
LEMMA PlaceMadeIs ==
    ASSUME NEW w \in Trees, NEW e \in Entries
    PROVE  /\ PlaceMade(w, e) \in Trees
           /\ \A p \in Paths : MadeWay(PlaceMade(w, e)[p], w[p], e, p)
<1> DEFINE x == PlaceMade(w, e)
<1>1. CASE ~(e.was \notin {Absent, Dir} /\ CanMakeDirs(w, Parent[e.path]))
  BY <1>1 DEF PlaceMade, MadeWay
<1>2. CASE e.was \notin {Absent, Dir} /\ CanMakeDirs(w, Parent[e.path])
  <2> DEFINE w2 == OutOfTheWay(w, e.path)
             d == Parent[e.path]
  <2>1. e.path \in Paths /\ e.path # Root /\ d \in Places
    BY <1>2, SnapshotAssumption, AboveIsAll DEF Entries
  <2>2. /\ w2 \in Trees /\ w2[e.path] # Dir
        /\ \A q \in Paths : w2[q] = w[q] \/ (w2[q] = Absent /\ q \in Below(e.path))
        /\ w2[e.path] # w[e.path] => w[e.path] = Dir
    BY <2>1, OutOfTheWayIs
  <2>3. x = MakeDirs(w2, d)
    BY <1>2 DEF PlaceMade
  <2>4. x \in Trees /\ \A q \in Paths :
            x[q] = IF q = d \/ (d # Root /\ q \in Above[d]) THEN Dir ELSE w2[q]
    BY <2>1, <2>2, <2>3, MadeDirsAre
  <2>5. ASSUME NEW q \in Paths PROVE MadeWay(x[q], w[q], e, q)
    <3>1. CASE q = d \/ (d # Root /\ q \in Above[d])
      <4>1. q \in Above[e.path] /\ q # Root
        BY <2>1, <3>1, AboveIsAll, AboveIsTransitive, SnapshotAssumption
      <4>2. w[q] \in {Absent, Dir}
        BY <1>2, <2>1, <4>1, MadeOfNothing
      <4> QED BY <2>1, <2>4, <3>1, <4>1, <4>2 DEF MadeWay
    <3>2. CASE ~(q = d \/ (d # Root /\ q \in Above[d]))
      <4>1. x[q] = w2[q]
        BY <2>4, <3>2
      <4>2. /\ w2[q] = w[q] \/ (w2[q] = Absent /\ q \in Below(e.path))
            /\ q = e.path /\ w2[q] # w[q] => w[q] = Dir
        <5> HIDE DEF w2
        <5> QED BY <2>2
      <4> HIDE DEF w2, x
      <4> QED BY <1>2, <4>1, <4>2 DEF MadeWay
    <3> QED BY <3>1, <3>2
  <2> QED BY <2>4, <2>5
<1> QED BY <1>1, <1>2

-----------------------------------------------------------------------------
(* The snapshots on disk.                                                  *)

Snaps == [run : Runs, entries : Seq(Entries)]

SnapsOf(s, r) == {i \in DOMAIN s : s[i].run = r}

EntriesIn(s, r) ==
    IF SnapsOf(s, r) = {} THEN <<>> ELSE s[CHOOSE i \in SnapsOf(s, r) : TRUE].entries

OneEach(s) == \A i, j \in DOMAIN s : s[i].run = s[j].run => i = j

\* The snapshot at i is its run's only one.
LEMMA TheSnapshotIs ==
    ASSUME NEW s, OneEach(s), NEW i \in DOMAIN s
    PROVE  SnapsOf(s, s[i].run) = {i} /\ EntriesIn(s, s[i].run) = s[i].entries
<1>1. SnapsOf(s, s[i].run) = {i}
  BY DEF SnapsOf, OneEach
<1> QED BY <1>1 DEF EntriesIn

\* What a run has on disk is a manifest.
LEMMA EntriesTyped ==
    ASSUME NEW s \in Seq(Snaps), NEW r
    PROVE  EntriesIn(s, r) \in Seq(Entries)
<1>1. CASE SnapsOf(s, r) = {}
  BY <1>1 DEF EntriesIn
<1>2. CASE SnapsOf(s, r) # {}
  <2> DEFINE k == CHOOSE i \in SnapsOf(s, r) : TRUE
  <2>1. k \in DOMAIN s
    BY <1>2 DEF SnapsOf
  <2>2. s[k] \in Snaps
    BY <2>1
  <2> QED BY <2>2, <1>2 DEF EntriesIn, Snaps
<1> QED BY <1>1, <1>2

\* Some of the snapshots are left, each with its entries.
LEMMA SomeAreLeft ==
    ASSUME NEW s \in Seq(Snaps), OneEach(s), NEW t \in Seq(Snaps),
           NEW f \in [DOMAIN t -> DOMAIN s],
           \A j, k \in DOMAIN t : f[j] = f[k] => j = k,
           \A j \in DOMAIN t : t[j] = s[f[j]]
    PROVE  /\ OneEach(t)
           /\ \A r : SnapsOf(t, r) # {} =>
                 SnapsOf(s, r) # {} /\ EntriesIn(t, r) = EntriesIn(s, r)
<1>1. OneEach(t)
  BY DEF OneEach
<1>2. ASSUME NEW r, SnapsOf(t, r) # {}
      PROVE  SnapsOf(s, r) # {} /\ EntriesIn(t, r) = EntriesIn(s, r)
  <2>1. PICK j \in DOMAIN t : t[j].run = r
    BY <1>2 DEF SnapsOf
  <2>2. f[j] \in DOMAIN s /\ s[f[j]] = t[j]
    OBVIOUS
  <2>3. EntriesIn(t, r) = t[j].entries /\ EntriesIn(s, r) = s[f[j]].entries
    BY <1>1, <2>1, <2>2, TheSnapshotIs
  <2> QED BY <2>1, <2>2, <2>3 DEF SnapsOf
<1> QED BY <1>1, <1>2

\* Pruning leaves some of the snapshots, the newest among them.
LEMMA PrunedIs ==
    ASSUME NEW s \in Seq(Snaps), OneEach(s), s # <<>>, NEW t, t = Pruned(s)
    PROVE  /\ t \in Seq(Snaps) /\ OneEach(t)
           /\ \A r : SnapsOf(t, r) # {} =>
                 SnapsOf(s, r) # {} /\ EntriesIn(t, r) = EntriesIn(s, r)
           /\ SnapsOf(t, s[Len(s)].run) # {}
<1>1. CASE Len(s) <= MaxStored
  <2>1. t = s /\ Len(s) \in DOMAIN s
    BY <1>1, SnapshotAssumption DEF Pruned
  <2> QED BY <2>1 DEF SnapsOf
<1>2. CASE ~(Len(s) <= MaxStored)
  <2> DEFINE m == Len(s) - MaxStored
             f == [j \in 1 .. MaxStored |-> j + m]
  <2>1. MaxStored \in Nat \ {0} /\ Len(s) \in Nat /\ m \in Nat
    BY <1>2, SnapshotAssumption
  <2>2. t = SubSeq(s, m + 1, Len(s))
    BY <1>2 DEF Pruned
  <2>3. t \in Seq(Snaps) /\ Len(t) = MaxStored /\ \A j \in 1 .. MaxStored : t[j] = s[j + m]
    BY <2>1, <2>2
  <2>4. DOMAIN t = 1 .. MaxStored /\ DOMAIN s = 1 .. Len(s)
    BY <2>3
  <2>5. f \in [DOMAIN t -> DOMAIN s] /\ (\A j, k \in DOMAIN t : f[j] = f[k] => j = k)
        /\ \A j \in DOMAIN t : t[j] = s[f[j]]
    BY <2>1, <2>3, <2>4
  <2>6. MaxStored \in DOMAIN t /\ t[MaxStored] = s[Len(s)]
    BY <2>1, <2>3, <2>4
  <2> HIDE DEF f
  <2>7. SnapsOf(t, s[Len(s)].run) # {}
    BY <2>6 DEF SnapsOf
  <2>8. /\ OneEach(t)
        /\ \A r : SnapsOf(t, r) # {} =>
              SnapsOf(s, r) # {} /\ EntriesIn(t, r) = EntriesIn(s, r)
    <3>1. /\ t \in Seq(Snaps) /\ f \in [DOMAIN t -> DOMAIN s]
          /\ \A j, k \in DOMAIN t : f[j] = f[k] => j = k
          /\ \A j \in DOMAIN t : t[j] = s[f[j]]
      BY <2>3, <2>5
    <3> QED BY ONLY <3>1, s \in Seq(Snaps), OneEach(s), SomeAreLeft
  <2> QED BY <2>3, <2>7, <2>8
<1> QED BY <1>1, <1>2

\* A run's snapshot removed: the others are left.
LEMMA WithoutIs ==
    ASSUME snaps \in Seq(Snaps), OneEach(snaps), NEW r, NEW t, t = Without(r)
    PROVE  /\ t \in Seq(Snaps) /\ OneEach(t) /\ SnapsOf(t, r) = {}
           /\ \A q : SnapsOf(t, q) # {} =>
                 SnapsOf(snaps, q) # {} /\ EntriesIn(t, q) = EntriesIn(snaps, q)
<1>1. CASE SnapOf(r) = {}
  BY <1>1 DEF Without, SnapOf, SnapsOf
<1>2. CASE SnapOf(r) # {}
  <2> DEFINE k == CHOOSE i \in SnapOf(r) : TRUE
             f == [j \in 1 .. Len(snaps) - 1 |-> IF j < k THEN j ELSE j + 1]
  <2>1. k \in DOMAIN snaps /\ snaps[k].run = r
    BY <1>2 DEF SnapOf
  <2>2. k \in 1 .. Len(snaps) /\ Len(snaps) \in Nat /\ DOMAIN snaps = 1 .. Len(snaps)
    BY <2>1
  <2>3. t = SubSeq(snaps, 1, k - 1) \o SubSeq(snaps, k + 1, Len(snaps))
    BY <1>2 DEF Without, RemoveAt
  <2> HIDE DEF k
  <2> DEFINE u == SubSeq(snaps, 1, k - 1)
             v == SubSeq(snaps, k + 1, Len(snaps))
  <2>4. /\ u \in Seq(Snaps) /\ Len(u) = k - 1 /\ \A j \in 1 .. k - 1 : u[j] = snaps[j]
        /\ v \in Seq(Snaps) /\ Len(v) = Len(snaps) - k
        /\ \A j \in 1 .. Len(snaps) - k : v[j] = snaps[j + k]
    <3>1. k \in Int /\ Len(snaps) \in Nat /\ 1 <= k /\ k <= Len(snaps)
          /\ \A i \in 1 .. Len(snaps) : snaps[i] \in Snaps
      BY <2>2
    <3> HIDE DEF f
    <3>2. u \in Seq(Snaps) /\ Len(u) = k - 1 /\ \A j \in 1 .. k - 1 : u[j] = snaps[j]
      <4>1. /\ 1 \in Int /\ k - 1 \in Int /\ \A i \in 1 .. k - 1 : snaps[i] \in Snaps
        BY <3>1
      <4>2. /\ u \in Seq(Snaps)
            /\ Len(u) = IF 1 <= k - 1 THEN (k - 1) - 1 + 1 ELSE 0
            /\ \A j \in 1 .. (k - 1) - 1 + 1 : u[j] = snaps[1 + j - 1]
        BY <4>1, SubSeqProperties
      <4> HIDE DEF u
      <4> QED BY <3>1, <4>2
    <3>3. v \in Seq(Snaps) /\ Len(v) = Len(snaps) - k
          /\ \A j \in 1 .. Len(snaps) - k : v[j] = snaps[j + k]
      <4>1. /\ k + 1 \in Int /\ Len(snaps) \in Int
            /\ \A i \in k + 1 .. Len(snaps) : snaps[i] \in Snaps
        BY <3>1
      <4>2. /\ v \in Seq(Snaps)
            /\ Len(v) = IF k + 1 <= Len(snaps) THEN Len(snaps) - (k + 1) + 1 ELSE 0
            /\ \A j \in 1 .. Len(snaps) - (k + 1) + 1 : v[j] = snaps[(k + 1) + j - 1]
        BY <4>1, SubSeqProperties
      <4> HIDE DEF v
      <4>3. \A j \in 1 .. Len(snaps) - k : (k + 1) + j - 1 = j + k
        BY <3>1
      <4> QED BY <3>1, <4>2, <4>3
    <3> QED BY <3>2, <3>3
  <2> HIDE DEF u, v
  <2>5. t \in Seq(Snaps) /\ DOMAIN t = 1 .. Len(snaps) - 1
        /\ \A j \in DOMAIN t : t[j] = IF j < k THEN u[j] ELSE v[j - k + 1]
    <3>1. t = u \o v
      BY <2>3 DEF u, v
    <3>2. t \in Seq(Snaps) /\ Len(t) = Len(u) + Len(v)
          /\ \A j \in 1 .. Len(u) + Len(v) : t[j] = IF j <= Len(u) THEN u[j] ELSE v[j - Len(u)]
      <4>1. u \in Seq(Snaps) /\ v \in Seq(Snaps)
        BY <2>4
      <4>2. u \o v \in Seq(Snaps) /\ Len(u \o v) = Len(u) + Len(v)
            /\ \A j \in 1 .. Len(u) + Len(v) :
                  (u \o v)[j] = IF j <= Len(u) THEN u[j] ELSE v[j - Len(u)]
        BY <4>1, ConcatProperties
      <4> QED BY <3>1, <4>2
    <3> HIDE DEF f
    <3>3. Len(u) + Len(v) = Len(snaps) - 1 /\ k \in Int /\ Len(u) = k - 1
      BY <2>2, <2>4
    <3>4. Len(t) = Len(snaps) - 1 /\ DOMAIN t = 1 .. Len(snaps) - 1
      BY <3>2, <3>3
    <3>5. ASSUME NEW j \in 1 .. Len(snaps) - 1
          PROVE  t[j] = IF j < k THEN u[j] ELSE v[j - k + 1]
      <4>1. t[j] = IF j <= Len(u) THEN u[j] ELSE v[j - Len(u)]
        BY <3>2, <3>3
      <4>2. (j <= Len(u) <=> j < k) /\ j - Len(u) = j - k + 1
        BY <3>3
      <4> QED BY <4>1, <4>2
    <3> QED BY <3>2, <3>4, <3>5
  <2>6. \A j \in DOMAIN t : f[j] \in DOMAIN snaps /\ f[j] # k /\ t[j] = snaps[f[j]]
    <3> SUFFICES ASSUME NEW j \in DOMAIN t
                 PROVE  f[j] \in DOMAIN snaps /\ f[j] # k /\ t[j] = snaps[f[j]]
      OBVIOUS
    <3>1. CASE j < k
      BY <3>1, <2>2, <2>4, <2>5
    <3>2. CASE ~(j < k)
      <4>1. j - k + 1 \in 1 .. Len(snaps) - k /\ j - k + 1 + k = j + 1
        BY <3>2, <2>2, <2>5
      <4>2. f[j] = j + 1 /\ j + 1 \in DOMAIN snaps /\ j + 1 # k
        BY <3>2, <2>2, <2>5
      <4>3. t[j] = v[j - k + 1] /\ v[j - k + 1] = snaps[j - k + 1 + k]
        BY <4>1, <3>2, <2>4, <2>5
      <4> QED BY <4>1, <4>2, <4>3
    <3> QED BY <3>1, <3>2
  <2>7. \A j, l \in DOMAIN t : f[j] = f[l] => j = l
    BY <2>2, <2>5
  <2>8. f \in [DOMAIN t -> DOMAIN snaps]
    BY <2>5, <2>6
  <2> HIDE DEF f
  <2>9. SnapsOf(t, r) = {}
    <3> SUFFICES ASSUME NEW j \in DOMAIN t, t[j].run = r PROVE FALSE
      BY DEF SnapsOf
    <3>1. snaps[f[j]].run = snaps[k].run /\ f[j] \in DOMAIN snaps /\ f[j] # k
      BY <2>1, <2>6
    <3> QED BY <3>1, <2>1 DEF OneEach
  <2>10. \A j \in DOMAIN t : t[j] = snaps[f[j]]
    BY <2>6
  <2>11. OneEach(t) /\ \A q : SnapsOf(t, q) # {} =>
                 SnapsOf(snaps, q) # {} /\ EntriesIn(t, q) = EntriesIn(snaps, q)
    <3>1. t \in Seq(Snaps)
      BY <2>5
    <3> QED BY <3>1, <2>7, <2>8, <2>10, SomeAreLeft
  <2> QED BY <2>5, <2>9, <2>11
<1> QED BY <1>1, <1>2

\* A run's manifest saved: it is the run's, and the others are as they were.
LEMMA SavedIs ==
    ASSUME snaps \in Seq(Snaps), OneEach(snaps), NEW r \in Runs,
           NEW M \in Seq(Entries), NEW t, t = Saved(r, M)
    PROVE  /\ t \in Seq(Snaps) /\ OneEach(t) /\ t # <<>>
           /\ SnapsOf(t, r) # {} /\ EntriesIn(t, r) = M
           /\ \A q \in Runs : q # r =>
                 (SnapsOf(t, q) = {} <=> SnapsOf(snaps, q) = {})
                 /\ EntriesIn(t, q) = EntriesIn(snaps, q)
           /\ SnapsOf(snaps, r) = {} => t[Len(t)].run = r
<1> DEFINE new == [run |-> r, entries |-> M]
<1>1. new \in Snaps /\ new.run = r /\ new.entries = M
  BY DEF Snaps
<1>2. CASE SnapOf(r) = {}
  <2>1. t = Append(snaps, new)
    BY <1>2 DEF Saved
  <2>2. t \in Seq(Snaps) /\ Len(t) = Len(snaps) + 1 /\ Len(snaps) \in Nat
        /\ DOMAIN t = 1 .. Len(snaps) + 1 /\ DOMAIN snaps = 1 .. Len(snaps)
        /\ t[Len(snaps) + 1] = new /\ \A i \in DOMAIN snaps : t[i] = snaps[i]
    BY <1>1, <2>1
  <2>3. \A i \in DOMAIN snaps : snaps[i].run # r
    BY <1>2 DEF SnapOf
  <2>4. OneEach(t)
    BY <1>1, <2>2, <2>3 DEF OneEach
  <2>5. SnapsOf(t, r) # {} /\ EntriesIn(t, r) = M
    <3>1. Len(snaps) + 1 \in DOMAIN t
      BY <2>2
    <3>2. EntriesIn(t, t[Len(snaps) + 1].run) = t[Len(snaps) + 1].entries
      BY <3>1, <2>4, TheSnapshotIs
    <3> QED BY <1>1, <2>2, <3>1, <3>2 DEF SnapsOf
  <2>6. ASSUME NEW q \in Runs, q # r PROVE SnapsOf(t, q) = SnapsOf(snaps, q)
    BY <1>1, <2>2, <2>6 DEF SnapsOf
  <2>7. ASSUME NEW q \in Runs, q # r PROVE EntriesIn(t, q) = EntriesIn(snaps, q)
    <3>1. CASE SnapsOf(snaps, q) = {}
      BY <3>1, <2>6, <2>7 DEF EntriesIn
    <3>2. CASE SnapsOf(snaps, q) # {}
      <4>1. PICK i \in DOMAIN snaps : snaps[i].run = q
        BY <3>2 DEF SnapsOf
      <4>2. i \in DOMAIN t /\ t[i] = snaps[i]
        BY <2>2, <4>1
      <4> QED BY <4>1, <4>2, <2>4, TheSnapshotIs
    <3> QED BY <3>1, <3>2
  <2> QED BY <1>1, <2>2, <2>4, <2>5, <2>6, <2>7
<1>3. CASE SnapOf(r) # {}
  <2>1. t = [i \in DOMAIN snaps |-> IF snaps[i].run = r THEN new ELSE snaps[i]]
    BY <1>3 DEF Saved
  <2>2. DOMAIN snaps = 1 .. Len(snaps) /\ Len(snaps) \in Nat
        /\ \A i \in DOMAIN snaps : snaps[i] \in Snaps
    OBVIOUS
  <2>3. t \in Seq(Snaps) /\ DOMAIN t = DOMAIN snaps /\ Len(t) = Len(snaps)
        /\ \A i \in DOMAIN t : t[i].run = snaps[i].run
              /\ t[i] = IF snaps[i].run = r THEN new ELSE snaps[i]
    BY <1>1, <2>1, <2>2
  <2>4. OneEach(t)
    BY <2>3 DEF OneEach
  <2>5. PICK k \in DOMAIN snaps : snaps[k].run = r
    BY <1>3 DEF SnapOf
  <2>6. SnapsOf(t, r) # {} /\ EntriesIn(t, r) = M
    <3>1. EntriesIn(t, t[k].run) = t[k].entries
      BY <2>3, <2>4, <2>5, TheSnapshotIs
    <3> QED BY <1>1, <2>3, <2>5, <3>1 DEF SnapsOf
  <2>7. ASSUME NEW q \in Runs PROVE SnapsOf(t, q) = SnapsOf(snaps, q)
    BY <2>3 DEF SnapsOf
  <2>8. ASSUME NEW q \in Runs, q # r PROVE EntriesIn(t, q) = EntriesIn(snaps, q)
    <3>1. CASE SnapsOf(snaps, q) = {}
      BY <3>1, <2>7 DEF EntriesIn
    <3>2. CASE SnapsOf(snaps, q) # {}
      <4>1. PICK i \in DOMAIN snaps : snaps[i].run = q
        BY <3>2 DEF SnapsOf
      <4>2. i \in DOMAIN t /\ t[i] = snaps[i]
        BY <2>3, <4>1, <2>8
      <4> QED BY <4>1, <4>2, <2>4, TheSnapshotIs
    <3> QED BY <3>1, <3>2
  <2>9. t # <<>> /\ SnapsOf(snaps, r) # {}
    BY <2>3, <2>5 DEF SnapsOf
  <2> QED BY <2>3, <2>4, <2>6, <2>7, <2>8, <2>9
<1> QED BY <1>2, <1>3

-----------------------------------------------------------------------------
(* Capturing.                                                              *)

\* An order of a finite set of places is a sequence that has each of them once.
LEMMA OrderIs ==
    ASSUME NEW S \in SUBSET Places, NEW s \in ParentsFirst(S)
    PROVE  /\ s \in Seq(S)
           /\ \A i, j \in DOMAIN s : s[i] = s[j] => i = j
           /\ \A p \in S : \E i \in DOMAIN s : s[i] = p
<1> DEFINE n == Cardinality(S)
<1>1. IsFiniteSet(Places)
  BY SnapshotAssumption, FS_AddElement, FS_Singleton, FS_Union DEF Places
<1>2. IsFiniteSet(S) /\ n \in Nat
  BY <1>1, FS_Subset, FS_CardinalityType
<1>3. s \in [1 .. n -> S] /\ \A i, j \in 1 .. n : i # j => s[i] # s[j]
  BY DEF ParentsFirst, SetToSeqs
<1>4. s \in Injection(1 .. n, S)
  BY <1>3 DEF Injection, IsInjective
<1>5. Cardinality(1 .. n) = n
  BY <1>2, FS_Interval
<1> HIDE DEF n
<1>6. s \in Surjection(1 .. n, S)
  BY <1>2, <1>4, <1>5, FS_Injection DEF n
<1> QED BY <1>2, <1>3, <1>6 DEF Surjection

\* What a capture adds to a manifest: the entries of what it brings, each once,
\* and none that is in it already.
LEMMA CaptureAdds ==
    ASSUME ws \in Trees, NEW M \in Seq(Entries), Unique(M), NEW scope \in SUBSET Places,
           NEW N \in Captures(ws, M, scope)
    PROVE  /\ N \in Seq(Entries) /\ Unique(N)
           /\ \A p, v : Keeps(M, p, v) => Keeps(N, p, v)
           /\ EntryPaths(M) \subseteq EntryPaths(N)
           /\ \A p \in EntryPaths(N) :
                 p \in EntryPaths(M) \/ \E s \in scope : p \in CapturedPaths(ws, M, s)
           /\ \A s \in scope : \A p \in CapturedPaths(ws, M, s) :
                 \E i \in DOMAIN N : N[i] = EntryOf(ws, p)
<1> DEFINE new == UNION {CapturedPaths(ws, M, p) : p \in scope}
<1>1. new \in SUBSET Places
  BY DEF CapturedPaths, Below, Places
<1>2. PICK order \in ParentsFirst(new) :
          N = M \o [i \in DOMAIN order |-> EntryOf(ws, order[i])]
  BY DEF Captures
<1>3. /\ order \in Seq(new)
      /\ \A i, j \in DOMAIN order : order[i] = order[j] => i = j
      /\ \A p \in new : \E i \in DOMAIN order : order[i] = p
  BY <1>1, <1>2, OrderIs
<1>4. \A p \in new : p \notin EntryPaths(M) /\ p \in Places
  BY DEF CapturedPaths, Below, Places
<1>5. \A p \in Places : EntryOf(ws, p) \in Entries /\ EntryOf(ws, p).path = p
  BY DEF EntryOf, Entries, Places, Trees
<1> HIDE DEF new
<1> DEFINE X == [i \in DOMAIN order |-> EntryOf(ws, order[i])]
<1>6. X \in Seq(Entries) /\ Len(X) = Len(order) /\ Len(order) \in Nat
      /\ DOMAIN order = 1 .. Len(order)
      /\ \A i \in 1 .. Len(order) : order[i] \in new /\ X[i] = EntryOf(ws, order[i])
                                    /\ X[i].path = order[i]
  <2>1. Len(order) \in Nat /\ DOMAIN order = 1 .. Len(order)
        /\ \A i \in 1 .. Len(order) : order[i] \in new
    BY <1>3
  <2>2. \A i \in 1 .. Len(order) : X[i] \in Entries /\ X[i].path = order[i]
    BY <2>1, <1>4, <1>5
  <2> QED BY <2>1, <2>2
<1> HIDE DEF X
<1>7. /\ N \in Seq(Entries) /\ Len(M) \in Nat /\ DOMAIN M = 1 .. Len(M)
      /\ DOMAIN N = 1 .. Len(M) + Len(order)
      /\ \A i \in DOMAIN N : N[i] = IF i <= Len(M) THEN M[i] ELSE X[i - Len(M)]
  <2>1. N = M \o X
    BY <1>2 DEF X
  <2>2. /\ M \o X \in Seq(Entries) /\ Len(M \o X) = Len(M) + Len(X)
        /\ \A i \in 1 .. Len(M) + Len(X) :
              (M \o X)[i] = IF i <= Len(M) THEN M[i] ELSE X[i - Len(M)]
    <3>1. X \in Seq(Entries)
      BY <1>6
    <3> QED BY <3>1, ConcatProperties
  <2>3. DOMAIN N = 1 .. Len(M) + Len(order)
    BY <2>1, <2>2, <1>6
  <2> QED BY <2>1, <2>2, <2>3, <1>6
<1>8. \A i \in DOMAIN M : i \in DOMAIN N /\ N[i] = M[i] /\ M[i].path \in EntryPaths(M)
  BY <1>6, <1>7 DEF EntryPaths
<1>9. \A i \in DOMAIN N : i \notin DOMAIN M =>
          i - Len(M) \in DOMAIN order /\ N[i] = X[i - Len(M)]
          /\ N[i].path = order[i - Len(M)] /\ order[i - Len(M)] \in new
  BY <1>6, <1>7
<1>10. Unique(N)
  <2> SUFFICES ASSUME NEW i \in DOMAIN N, NEW j \in DOMAIN N, N[i].path = N[j].path
               PROVE  i = j
    BY DEF Unique
  <2>1. CASE i \in DOMAIN M /\ j \in DOMAIN M
    BY <2>1, <1>8 DEF Unique
  <2>2. CASE i \in DOMAIN M /\ j \notin DOMAIN M
    BY <2>2, <1>4, <1>8, <1>9
  <2>3. CASE i \notin DOMAIN M /\ j \in DOMAIN M
    BY <2>3, <1>4, <1>8, <1>9
  <2>4. CASE i \notin DOMAIN M /\ j \notin DOMAIN M
    <3>1. i - Len(M) = j - Len(M)
      BY <2>4, <1>3, <1>9
    <3> QED BY <3>1, <1>7
  <2> QED BY <2>1, <2>2, <2>3, <2>4
<1>11. \A p, v : Keeps(M, p, v) => Keeps(N, p, v)
  BY <1>8 DEF Keeps
<1>12. EntryPaths(M) \subseteq EntryPaths(N)
  BY <1>8 DEF EntryPaths
<1>13. ASSUME NEW p \in EntryPaths(N), p \notin EntryPaths(M)
       PROVE  \E s \in scope : p \in CapturedPaths(ws, M, s)
  <2>1. PICK i \in DOMAIN N : N[i].path = p
    BY <1>13 DEF EntryPaths
  <2>2. i \notin DOMAIN M
    BY <2>1, <1>8, <1>13
  <2> QED BY <2>1, <2>2, <1>9 DEF new
<1>14. ASSUME NEW s \in scope, NEW p \in CapturedPaths(ws, M, s)
       PROVE  \E i \in DOMAIN N : N[i] = EntryOf(ws, p)
  <2>1. p \in new
    BY DEF new
  <2>2. PICK k \in DOMAIN order : order[k] = p
    BY <2>1, <1>3
  <2>3. k \in 1 .. Len(order) /\ X[k] = EntryOf(ws, p)
    BY <2>2, <1>6
  <2>4. k + Len(M) \in DOMAIN N /\ ~(k + Len(M) <= Len(M)) /\ k + Len(M) - Len(M) = k
    BY <2>3, <1>6, <1>7
  <2> QED BY <2>3, <2>4, <1>7
<1> QED BY <1>7, <1>10, <1>11, <1>12, <1>13, <1>14

\* A capture records the paths of its scope, and seals what it adds: of a path
\* that was captured before, what lies below it is in the manifest already; and
\* what is not as the run found it is, too.
LEMMA CaptureSeals ==
    ASSUME ws \in Trees, base \in [Runs -> Trees], NEW r \in Runs,
           NEW M \in Seq(Entries), Unique(M), Sealed(r, M), Accounted(r, M, ws),
           NEW scope \in SUBSET Places, NEW N \in Captures(ws, M, scope)
    PROVE  scope \subseteq EntryPaths(N) /\ Sealed(r, N) /\ Accounted(r, N, ws)
<1>1. /\ N \in Seq(Entries) /\ Unique(N)
      /\ \A p, v : Keeps(M, p, v) => Keeps(N, p, v)
      /\ EntryPaths(M) \subseteq EntryPaths(N)
      /\ \A p \in EntryPaths(N) :
            p \in EntryPaths(M) \/ \E s \in scope : p \in CapturedPaths(ws, M, s)
      /\ \A s \in scope : \A p \in CapturedPaths(ws, M, s) :
            \E i \in DOMAIN N : N[i] = EntryOf(ws, p)
  BY CaptureAdds
<1>2. \A p \in Places : EntryOf(ws, p).path = p
                        /\ (p \in Paths => EntryOf(ws, p).was = ws[p])
  BY SnapshotAssumption DEF EntryOf
<1>3. ASSUME NEW s \in scope PROVE s \in EntryPaths(N)
  <2>1. CASE s \in EntryPaths(M)
    BY <2>1, <1>1
  <2>2. CASE s \notin EntryPaths(M)
    <3>1. s = Root \/ s \in Paths
      BY DEF Places
    <3>2. ASSUME s \in Paths, NEW z \in Above[s], z \in Below(s) \cup {s} PROVE FALSE
      <4>1. z = s \/ (z # Root /\ s \in Above[z] /\ z \in Paths)
        BY <3>2, SnapshotAssumption DEF Below
      <4>2. s \in Above[s]
        BY <4>1, <3>2, AboveIsTransitive
      <4> QED BY <4>2, <3>2, TreeAssumption
    <3>3. s \in CapturedPaths(ws, M, s)
      BY <2>2, <3>1, <3>2 DEF CapturedPaths
    <3>4. PICK i \in DOMAIN N : N[i] = EntryOf(ws, s)
      BY <3>3, <1>1
    <3> QED BY <3>4, <1>2 DEF EntryPaths
  <2> QED BY <2>1, <2>2
<1>4. ASSUME NEW d \in EntryPaths(N), NEW q \in Below(d), Own(r, q), base[r][q] # Absent
      PROVE  Keeps(N, q, base[r][q])
  <2>0. q \in Paths /\ d \in Places
    BY <1>1, EntryPathsAre DEF Below
  <2>1. CASE d \in EntryPaths(M)
    BY <2>1, <1>1, <1>4 DEF Sealed
  <2>2. CASE ws[q] # base[r][q]
    BY <2>0, <2>2, <1>1, <1>4 DEF Accounted
  <2>3. ASSUME d \notin EntryPaths(M), ws[q] = base[r][q] PROVE Keeps(N, q, base[r][q])
    <3>1. PICK s \in scope : d \in CapturedPaths(ws, M, s)
      BY <2>3, <1>1
    <3>2. d = s \/ d \in Below(s)
      BY <3>1 DEF CapturedPaths
    <3>3. q \in Below(s)
      BY <3>2, BelowIsTransitive DEF Places
    <3>4. CASE ({q} \cup Above[q]) \cap EntryPaths(M) # {}
      <4>1. PICK z \in {q} \cup Above[q] : z \in EntryPaths(M)
        BY <3>4
      <4>2. q \in Below(z)
        BY <2>0, <4>1 DEF Below
      <4> QED BY <4>1, <4>2, <1>1, <1>4 DEF Sealed
    <3>5. CASE ({q} \cup Above[q]) \cap EntryPaths(M) = {}
      <4>1. q \in CapturedPaths(ws, M, s)
        BY <3>3, <3>5, <2>0, <2>3, <1>4, SnapshotAssumption DEF CapturedPaths
      <4>2. PICK i \in DOMAIN N : N[i] = EntryOf(ws, q)
        BY <4>1, <1>1
      <4>3. N[i].path = q /\ N[i].was = base[r][q]
        BY <4>2, <1>2, <2>0, <2>3 DEF Places
      <4> QED BY <4>3 DEF Keeps
    <3> QED BY <3>4, <3>5
  <2> QED BY <2>1, <2>2, <2>3
<1>5. Sealed(r, N)
  BY <1>4 DEF Sealed
<1>6. \A p \in Paths : Covered(M, p) => Covered(N, p)
  BY <1>1 DEF Covered, EntryPaths
<1>7. Accounted(r, N, ws)
  BY <1>1, <1>6 DEF Accounted
<1> QED BY <1>3, <1>5, <1>7

-----------------------------------------------------------------------------
(* The steps.                                                              *)

\* What holds of a run's manifest in one state.
Holds(r, M) == Unique(M) /\ Sealed(r, M) /\ Accounted(r, M, ws)

\* The invariant in terms of the snapshots.
LEMMA InTermsOfSnaps ==
    ASSUME SnapshotInv
    PROVE  /\ snaps \in Seq(Snaps) /\ OneEach(snaps)
           /\ \A r : SnapOf(r) = SnapsOf(snaps, r) /\ EntriesOf(r) = EntriesIn(snaps, r)
                     /\ EntriesOf(r) \in Seq(Entries)
           /\ \A r \in Runs : SnapOf(r) # {} => r \in begun
           /\ \A r \in begun : Holds(r, EntriesOf(r))
           /\ \A r : SnapOf(r) = {} => EntriesOf(r) = <<>>
           /\ None.run = Absent /\ Absent \notin Runs
           /\ \A r \in Runs : pending[r] = None \/ pending[r] \in PendingChanges
           /\ restoring = None \/ restoring \in Restores
<1>1. snaps \in Seq(Snaps) /\ OneEach(snaps)
  BY DEF SnapshotInv, SnapshotTypeOK, OneSnapshotEach, OneEach, Snaps
<1>2. \A r : SnapOf(r) = SnapsOf(snaps, r) /\ EntriesOf(r) = EntriesIn(snaps, r)
  BY DEF SnapOf, SnapsOf, EntriesOf, EntriesIn
<1>3. \A r : EntriesOf(r) \in Seq(Entries)
  BY <1>1, <1>2, EntriesTyped
<1>4. \A r \in Runs : SnapOf(r) # {} => r \in begun
  BY DEF SnapshotInv, OnlyOfTheBegun, SnapOf
<1>5. \A r \in begun : Holds(r, EntriesOf(r))
  BY DEF SnapshotInv, SnapshotsHold, Holds
<1>6. \A r : SnapOf(r) = {} => EntriesOf(r) = <<>>
  BY DEF EntriesOf
<1>7. None.run = Absent /\ Absent \notin Runs
  BY SnapshotAssumption DEF None
<1>8. /\ \A r \in Runs : pending[r] = None \/ pending[r] \in PendingChanges
      /\ restoring = None \/ restoring \in Restores
  BY DEF SnapshotInv, SnapshotTypeOK
<1> QED BY <1>1, <1>2, <1>3, <1>4, <1>5, <1>6, <1>7, <1>8

\* A manifest stays sealed while what is foreign grows.
LEMMA StaysSealed ==
    ASSUME NEW r, NEW M, Sealed(r, M), base'[r] = base[r],
           foreign[r] \subseteq foreign'[r]
    PROVE  Sealed(r, M)' /\ \A p : Own(r, p)' => Own(r, p)
<1>1. \A p : Own(r, p)' => Own(r, p)
  BY DEF Own
<1> QED BY <1>1 DEF Sealed

\* A manifest stays true of a run when what changes is foreign to it.
LEMMA StaysRecorded ==
    ASSUME NEW r, NEW M, Accounted(r, M, ws), base'[r] = base[r],
           foreign[r] \subseteq foreign'[r],
           \A p \in Paths : Own(r, p)' => ws'[p] = ws[p]
    PROVE  Accounted(r, M, ws)'
<1>1. \A p : Own(r, p)' => Own(r, p)
  BY DEF Own
<1> QED BY <1>1 DEF Accounted

\* A run whose snapshot went has nothing left to record.
LEMMA NothingToRecord ==
    ASSUME NEW r, \A p \in Paths : Own(r, p)' => ws'[p] = base'[r][p]
    PROVE  Unique(<<>>) /\ Sealed(r, <<>>)' /\ Accounted(r, <<>>, ws)'
BY DEF Unique, Sealed, Accounted, EntryPaths

\* The invariant from its parts for each run; the snapshots change only as a
\* whole, so what is said of them is said once.
LEMMA SnapshotsGoOn ==
    ASSUME SnapshotTypeOK', OnlyOfTheBegun', RestoreHolds', NEW t, snaps' = t, OneEach(t),
           NEW now, now = begun',
           \A r \in now : Unique(EntriesIn(t, r)) /\ Sealed(r, EntriesIn(t, r))'
                          /\ Accounted(r, EntriesIn(t, r), ws)',
           \A r \in Runs : pending'[r] # None /\ SnapsOf(t, r) # {} =>
                               pending'[r].scope \subseteq EntryPaths(EntriesIn(t, r))
    PROVE  SnapshotInv'
<1>1. \A r : SnapOf(r)' = SnapsOf(t, r) /\ EntriesOf(r)' = EntriesIn(t, r)
  BY DEF SnapOf, SnapsOf, EntriesOf, EntriesIn
<1>2. OneSnapshotEach'
  BY DEF OneSnapshotEach, OneEach
<1>3. SnapshotsHold'
  <2> SUFFICES ASSUME NEW r \in begun', NEW M, M = EntriesOf(r)'
               PROVE  (Unique(M) /\ Sealed(r, M) /\ Accounted(r, M, ws))'
    BY DEF SnapshotsHold
  <2> QED BY <1>1
<1>4. ScopesAreCaptured'
  BY <1>1 DEF ScopesAreCaptured, EntryPaths
<1> QED BY <1>2, <1>3, <1>4 DEF SnapshotInv

\* A run that has begun, with the manifest it had, when what changes is foreign
\* to it.
LEMMA RunGoesOn ==
    ASSUME SnapshotInv, NEW r \in begun, NEW M, M = EntriesOf(r), base'[r] = base[r],
           foreign[r] \subseteq foreign'[r],
           \A p \in Paths : Own(r, p)' => ws'[p] = ws[p]
    PROVE  Unique(M) /\ Sealed(r, M)' /\ Accounted(r, M, ws)'
<1>1. Unique(M) /\ Sealed(r, M) /\ Accounted(r, M, ws)
  BY InTermsOfSnaps DEF Holds
<1> QED BY <1>1, StaysSealed, StaysRecorded

\* A restore that is going, when what changes is foreign to its run.
LEMMA RestoreGoesOn ==
    ASSUME SnapshotInv, restoring' \in {None, restoring},
           restoring # None =>
              /\ base'[restoring.run] = base[restoring.run]
              /\ foreign[restoring.run] \subseteq foreign'[restoring.run]
              /\ \A p \in Paths : Own(restoring.run, p)' => ws'[p] = ws[p]
    PROVE  RestoreHolds'
<1>1. CASE restoring' = None
  BY <1>1 DEF RestoreHolds, None
<1>2. CASE restoring' # None
  <2>1. restoring' = restoring /\ restoring # None
    BY <1>2
  <2> SUFFICES ASSUME NEW x, x = restoring
               PROVE  /\ Unique(x.entries) /\ Sealed(x.run, x.entries)'
                      /\ \A p \in Paths :
                            Own(x.run, p)' /\ IsFile(base'[x.run][p]) =>
                               \/ ws'[p] = base'[x.run][p]
                               \/ \E i \in DOMAIN x.entries :
                                     i >= x.next /\ x.entries[i].path = p
    BY <2>1 DEF RestoreHolds
  <2>2. /\ Unique(x.entries) /\ Sealed(x.run, x.entries)
        /\ \A p \in Paths :
              Own(x.run, p) /\ IsFile(base[x.run][p]) =>
                 \/ ws[p] = base[x.run][p]
                 \/ \E i \in DOMAIN x.entries : i >= x.next /\ x.entries[i].path = p
    BY <2>1 DEF SnapshotInv, RestoreHolds
  <2>3. Sealed(x.run, x.entries)' /\ \A p : Own(x.run, p)' => Own(x.run, p)
    BY <2>1, <2>2, StaysSealed
  <2> QED BY <2>1, <2>2, <2>3
<1> QED BY <1>1, <1>2

\* A run that begins finds the workspace as it is, and has no snapshot.
LEMMA BeginKeepsSnapshots ==
    ASSUME SnapshotInv, NEW r \in Runs, Begin(r)
    PROVE  SnapshotInv'
<1>1. /\ r \notin begun /\ begun' = begun \cup {r} /\ going' = going \cup {r}
      /\ base' = [base EXCEPT ![r] = ws] /\ foreign' = [foreign EXCEPT ![r] = {}]
      /\ ws' = ws /\ snaps' = snaps /\ pending' = pending /\ changes' = changes
      /\ restoring' = restoring
  BY DEF Begin
<1>2. SnapshotTypeOK'
  BY <1>1 DEF SnapshotInv, SnapshotTypeOK
<1>3. OnlyOfTheBegun'
  BY <1>1 DEF SnapshotInv, OnlyOfTheBegun
<1>4. begun \subseteq Runs /\ base'[r] = ws /\ \A q \in begun : q # r /\ base'[q] = base[q]
                                                               /\ foreign'[q] = foreign[q]
  BY <1>1 DEF SnapshotInv, SnapshotTypeOK
<1>5. RestoreHolds'
  <2>1. restoring # None => restoring.run \in begun
    BY DEF SnapshotInv, OnlyOfTheBegun
  <2> QED BY <1>1, <1>4, <2>1, RestoreGoesOn
<1> SUFFICES ASSUME NEW t, t = snaps', NEW now, now = begun' PROVE SnapshotInv'
  OBVIOUS
<1>6. OneEach(t) /\ t = snaps
  BY <1>1, InTermsOfSnaps
<1>7. ASSUME NEW q \in now
      PROVE  /\ Unique(EntriesIn(t, q)) /\ Sealed(q, EntriesIn(t, q))'
             /\ Accounted(q, EntriesIn(t, q), ws)'
  <2>1. CASE q = r
    <3>1. EntriesIn(t, q) = <<>>
      BY <2>1, <1>1, <1>6, InTermsOfSnaps
    <3>2. \A p \in Paths : ws'[p] = base'[q][p]
      BY <2>1, <1>1, <1>4
    <3> QED BY <3>1, <3>2, NothingToRecord
  <2>2. CASE q # r
    <3>1. q \in begun
      BY <2>2, <1>1
    <3> QED BY <3>1, <1>1, <1>4, <1>6, RunGoesOn, InTermsOfSnaps
  <2> QED BY <2>1, <2>2
<1>8. \A q \in Runs : pending'[q] # None /\ SnapsOf(t, q) # {} =>
                         pending'[q].scope \subseteq EntryPaths(EntriesIn(t, q))
  BY <1>1, <1>6, InTermsOfSnaps DEF SnapshotInv, ScopesAreCaptured
<1> QED BY <1>2, <1>3, <1>5, <1>6, <1>7, <1>8, SnapshotsGoOn

\* What a removal of snapshots makes foreign.
LEMMA LateIs ==
    ASSUME SnapshotTypeOK, NEW t, foreign' = LateAfter(t, ws)
    PROVE  /\ foreign' \in [Runs -> SUBSET Paths]
           /\ \A q \in Runs :
                 /\ foreign[q] \subseteq foreign'[q]
                 /\ SnapOf(q) # {} /\ SnapsOf(t, q) = {} =>
                       \A p \in Paths : ws[p] # base[q][p] => p \in foreign'[q]
<1>1. foreign \in [Runs -> SUBSET Paths]
  BY DEF SnapshotTypeOK
<1>2. \A q \in Runs : SnapsOf(t, q) = {} <=> \A i \in DOMAIN t : t[i].run # q
  BY DEF SnapsOf
<1> QED BY <1>1, <1>2 DEF LateAfter

\* What a change makes foreign.
LEMMA ForeignIs ==
    ASSUME SnapshotTypeOK, NEW r, NEW scope, NEW w, foreign' = ForeignAfter(r, scope, w)
    PROVE  /\ foreign' \in [Runs -> SUBSET Paths]
           /\ \A q \in Runs :
                 /\ foreign[q] \subseteq foreign'[q]
                 /\ \A p \in Paths : w[p] # ws[p] /\ p \notin foreign'[q] =>
                       q = r /\ \E s \in scope : p \in Below(s)
<1>1. foreign \in [Runs -> SUBSET Paths]
  BY DEF SnapshotTypeOK
<1> QED BY <1>1 DEF ForeignAfter, Touched

\* Of the snapshots t, r's has the entries M and the others are as they are.
Left(t, r, M) ==
    \A q \in Runs : SnapsOf(t, q) # {} =>
        \/ q = r /\ EntriesIn(t, q) = M
        \/ q # r /\ SnapOf(q) # {} /\ EntriesIn(t, q) = EntriesOf(q)

TheTree == {Root}

\* What a restore changes is foreign to all runs but its own.
LEMMA ForeignToOthers ==
    ASSUME SnapshotTypeOK, NEW r \in Runs, NEW w \in Trees,
           foreign' = ForeignAfter(r, TheTree, w)
    PROVE  /\ foreign' \in [Runs -> SUBSET Paths]
           /\ \A q \in Runs :
                 /\ foreign[q] \subseteq foreign'[q]
                 /\ \A p \in Paths : w[p] # ws[p] /\ p \notin foreign'[q] => q = r
<1>1. foreign \in [Runs -> SUBSET Paths]
  BY DEF SnapshotTypeOK
<1> QED BY <1>1 DEF ForeignAfter, Touched

\* The snapshots after a step that may have taken some away and made their
\* differences foreign, without a change of the workspace: those that are left
\* are true, r's with the entries M.
LEMMA RemovalGoesOn ==
    ASSUME SnapshotInv, NEW t, snaps' = t, OneEach(t), NEW r \in begun,
           NEW M, NEW now, now = begun', now = begun,
           ws' = ws, base' = base, foreign' = LateAfter(t, ws),
           Left(t, r, M),
           Holds(r, M) \/ SnapsOf(t, r) = {}
    PROVE  \A q \in now : Unique(EntriesIn(t, q)) /\ Sealed(q, EntriesIn(t, q))'
                          /\ Accounted(q, EntriesIn(t, q), ws)'
<1> SUFFICES ASSUME NEW q \in now
             PROVE  Unique(EntriesIn(t, q)) /\ Sealed(q, EntriesIn(t, q))'
                    /\ Accounted(q, EntriesIn(t, q), ws)'
  OBVIOUS
<1>1. q \in Runs /\ q \in begun
  BY DEF SnapshotInv, SnapshotTypeOK
<1>2. foreign[q] \subseteq foreign'[q]
      /\ (SnapOf(q) # {} /\ SnapsOf(t, q) = {} =>
             \A p \in Paths : ws[p] # base[q][p] => p \in foreign'[q])
  BY <1>1, LateIs DEF SnapshotInv
<1>3. CASE SnapsOf(t, q) = {} /\ SnapOf(q) # {}
  <2>1. EntriesIn(t, q) = <<>>
    BY <1>3 DEF EntriesIn
  <2>2. \A p \in Paths : Own(q, p)' => ws'[p] = base'[q][p]
    BY <1>2, <1>3 DEF Own
  <2> QED BY <2>1, <2>2, NothingToRecord
<1>4. CASE SnapsOf(t, q) = {} /\ SnapOf(q) = {}
  <2>1. EntriesIn(t, q) = EntriesOf(q)
    BY <1>4 DEF EntriesIn, EntriesOf
  <2> QED BY <2>1, <1>1, <1>2, RunGoesOn
<1>5. CASE SnapsOf(t, q) # {} /\ q = r
  <2>1. EntriesIn(t, q) = M /\ Unique(M) /\ Sealed(q, M) /\ Accounted(q, M, ws)
    BY <1>1, <1>5 DEF Holds, Left
  <2> QED BY <2>1, <1>2, StaysSealed, StaysRecorded
<1>6. CASE SnapsOf(t, q) # {} /\ q # r
  <2>1. EntriesIn(t, q) = EntriesOf(q)
    BY <1>1, <1>6 DEF Left
  <2> QED BY <2>1, <1>1, <1>2, RunGoesOn
<1> QED BY <1>3, <1>4, <1>5, <1>6

\* The snapshots that a capture leaves: r's, if any, with the entries M.
LEMMA CaptureLeaves ==
    ASSUME SnapshotInv, NEW r \in begun, r \in Runs, NEW scope \in SUBSET Places, NEW t,
           scope = {} => t = snaps,
           scope # {} => \E entries \in Captures(ws, EntriesOf(r), scope) :
                            t = Pruned(Saved(r, entries))
    PROVE  /\ t \in Seq(Snaps) /\ OneEach(t)
           /\ \E M : Holds(r, M) /\ scope \subseteq EntryPaths(M) /\ Left(t, r, M)
<1>1. /\ snaps \in Seq(Snaps) /\ OneEach(snaps)
      /\ \A q : SnapOf(q) = SnapsOf(snaps, q) /\ EntriesOf(q) = EntriesIn(snaps, q)
      /\ EntriesOf(r) \in Seq(Entries) /\ Holds(r, EntriesOf(r))
  BY InTermsOfSnaps
<1>2. CASE scope = {}
  <2>1. t = snaps /\ scope \subseteq EntryPaths(EntriesOf(r))
    BY <1>2
  <2> QED BY <1>1, <2>1 DEF Left
<1>3. CASE scope # {}
  <2>1. PICK N \in Captures(ws, EntriesOf(r), scope) : t = Pruned(Saved(r, N))
    BY <1>3
  <2>2. ws \in Trees /\ base \in [Runs -> Trees]
    BY DEF SnapshotInv, SnapshotTypeOK
  <2>3. N \in Seq(Entries) /\ Unique(N)
    BY <2>2, <1>1, CaptureAdds DEF Holds
  <2>4. scope \subseteq EntryPaths(N) /\ Holds(r, N)
    BY <2>2, <2>3, <1>1, CaptureSeals DEF Holds
  <2> DEFINE u == Saved(r, N)
  <2>5. /\ u \in Seq(Snaps) /\ OneEach(u) /\ u # <<>>
        /\ SnapsOf(u, r) # {} /\ EntriesIn(u, r) = N
        /\ \A q \in Runs : q # r =>
              (SnapsOf(u, q) = {} <=> SnapsOf(snaps, q) = {})
              /\ EntriesIn(u, q) = EntriesIn(snaps, q)
    BY <1>1, <2>3, SavedIs
  <2> HIDE DEF u
  <2>6. /\ t \in Seq(Snaps) /\ OneEach(t)
        /\ \A q : SnapsOf(t, q) # {} =>
              SnapsOf(u, q) # {} /\ EntriesIn(t, q) = EntriesIn(u, q)
    BY <2>1, <2>5, PrunedIs DEF u
  <2>7. Left(t, r, N)
    BY <1>1, <2>5, <2>6 DEF Left
  <2> QED BY <2>3, <2>4, <2>6, <2>7
<1> QED BY <1>2, <1>3

\* A capture keeps the invariant, whichever snapshots it prunes.
LEMMA CaptureKeepsSnapshots ==
    ASSUME SnapshotInv, NEW r \in Runs, NEW scope \in SUBSET Places, NEW path \in Paths,
           NEW value \in Values, CaptureFor(r, scope, path, value)
    PROVE  SnapshotInv'
<1> DEFINE c == [run |-> r, scope |-> scope, path |-> path, value |-> value]
<1> SUFFICES ASSUME NEW t, t = snaps', NEW now, now = begun' PROVE SnapshotInv'
  OBVIOUS
<1>1. /\ r \in going /\ pending' = [pending EXCEPT ![r] = c] /\ changes' = changes + 1
      /\ scope = {} => t = snaps
      /\ scope # {} => \E entries \in Captures(ws, EntriesOf(r), scope) :
                          t = Pruned(Saved(r, entries))
      /\ foreign' = LateAfter(t, ws)
      /\ ws' = ws /\ going' = going /\ begun' = begun /\ restoring' = restoring
      /\ base' = base
  BY DEF CaptureFor
<1>2. c \in PendingChanges /\ c.scope = scope
  BY DEF PendingChanges
<1>3. r \in begun
  BY <1>1 DEF SnapshotInv, OnlyOfTheBegun
<1>4. /\ t \in Seq(Snaps) /\ OneEach(t)
      /\ \E M : Holds(r, M) /\ scope \subseteq EntryPaths(M) /\ Left(t, r, M)
  <2> HIDE DEF c
  <2>1. /\ scope = {} => t = snaps
        /\ scope # {} => \E entries \in Captures(ws, EntriesOf(r), scope) :
                            t = Pruned(Saved(r, entries))
    BY <1>1
  <2> QED BY <2>1, <1>3, CaptureLeaves
<1>5. PICK M : Holds(r, M) /\ scope \subseteq EntryPaths(M) /\ Left(t, r, M)
  BY <1>4
<1> HIDE DEF c
<1>6. pending \in [Runs -> {None} \cup PendingChanges]
  BY DEF SnapshotInv, SnapshotTypeOK
<1>7. SnapshotTypeOK'
  <2>1. foreign' \in [Runs -> SUBSET Paths]
    BY <1>1, LateIs DEF SnapshotInv
  <2>2. snaps' \in Seq([run : Runs, entries : Seq(Entries)])
    BY <1>4 DEF Snaps
  <2> QED BY <2>1, <2>2, <1>1, <1>2 DEF SnapshotInv, SnapshotTypeOK
<1>8. OnlyOfTheBegun'
  <2>1. \A i \in DOMAIN t : t[i].run \in begun
    <3> SUFFICES ASSUME NEW i \in DOMAIN t PROVE t[i].run \in begun
      OBVIOUS
    <3>1. t[i] \in Snaps
      BY <1>4
    <3>2. t[i].run \in Runs /\ SnapsOf(t, t[i].run) # {}
      BY <3>1 DEF Snaps, SnapsOf
    <3> QED BY <3>2, <1>3, <1>5, InTermsOfSnaps DEF Left
  <2>2. \A q \in Runs : pending'[q] # None => q \in begun
    BY <1>1, <1>3, <1>6 DEF SnapshotInv, OnlyOfTheBegun
  <2> QED BY <2>1, <2>2, <1>1 DEF SnapshotInv, OnlyOfTheBegun
<1>9. \A q \in Runs : foreign[q] \subseteq foreign'[q]
  BY <1>1, LateIs DEF SnapshotInv
<1>10. RestoreHolds'
  <2>1. restoring # None => restoring.run \in Runs
    BY InTermsOfSnaps DEF Restores
  <2> QED BY <2>1, <1>1, <1>9, RestoreGoesOn
<1>11. \A q \in now : /\ Unique(EntriesIn(t, q)) /\ Sealed(q, EntriesIn(t, q))'
                      /\ Accounted(q, EntriesIn(t, q), ws)'
  <2>1. /\ snaps' = t /\ OneEach(t) /\ now = begun' /\ now = begun
        /\ ws' = ws /\ base' = base /\ foreign' = LateAfter(t, ws)
    BY <1>1, <1>4
  <2> QED BY <2>1, <1>3, <1>5, RemovalGoesOn
<1>12. ASSUME NEW q \in Runs, pending'[q] # None, SnapsOf(t, q) # {}
       PROVE  pending'[q].scope \subseteq EntryPaths(EntriesIn(t, q))
  <2>1. CASE q = r
    BY <2>1, <1>1, <1>2, <1>5, <1>6, <1>12 DEF Left
  <2>2. CASE q # r
    <3>1. pending'[q] = pending[q]
      BY <2>2, <1>1, <1>6
    <3> QED BY <3>1, <2>2, <1>5, <1>12 DEF SnapshotInv, ScopesAreCaptured, Left
  <2> QED BY <2>1, <2>2
<1> QED BY <1>4, <1>7, <1>8, <1>10, <1>11, <1>12, SnapshotsGoOn

\* The three tools that capture.
LEMMA ToolsKeepSnapshots ==
    ASSUME SnapshotInv, NEW r \in Runs,
           \/ \E p \in Paths, c \in Written : Write(r, p, c) \/ Edit(r, p, c)
           \/ \E command \in Commands : Bash(r, command)
    PROVE  SnapshotInv'
<1>1. CASE \E p \in Paths, c \in Written : Write(r, p, c) \/ Edit(r, p, c)
  <2>1. PICK p \in Paths, c \in Written : CaptureFor(r, {p}, p, c)
    BY <1>1 DEF Write, Edit
  <2>2. {p} \in SUBSET Places /\ c \in Values
    BY SnapshotAssumption DEF Places, Values
  <2> QED BY <2>1, <2>2, CaptureKeepsSnapshots
<1>2. CASE \E command \in Commands : Bash(r, command)
  <2>0. PICK command \in Commands : Bash(r, command)
    BY <1>2
  <2>1. PICK effect \in Effects(command) :
            CaptureFor(r, SnapshotPlan(command), effect[1], effect[2])
    BY <2>0 DEF Bash
  <2>2. SnapshotPlan(command) \in SUBSET Places /\ effect[1] \in Paths /\ effect[2] \in Values
    BY CommandAssumption
  <2> QED BY <2>1, <2>2, CaptureKeepsSnapshots
<1> QED BY <1>1, <1>2

\* What dies with the process of the runs is not there; in a first capture the
\* empty manifest is.
LEMMA CrashesKeepSnapshots ==
    ASSUME SnapshotInv, Crash \/ \E r \in Runs : CrashInCapture(r)
    PROVE  SnapshotInv'
<1> SUFFICES ASSUME NEW t, t = snaps', NEW now, now = begun' PROVE SnapshotInv'
  OBVIOUS
<1>1. /\ going' = {} /\ pending' = [r \in Runs |-> None]
      /\ ws' = ws /\ begun' = begun /\ changes' = changes /\ restoring' = restoring
      /\ base' = base /\ foreign' = foreign
  BY DEF Crash, CrashInCapture
<1>2. /\ snaps \in Seq(Snaps) /\ OneEach(snaps)
      /\ \A q : SnapOf(q) = SnapsOf(snaps, q) /\ EntriesOf(q) = EntriesIn(snaps, q)
  BY InTermsOfSnaps
<1>3. /\ t \in Seq(Snaps) /\ OneEach(t)
      /\ \A q \in Runs : EntriesIn(t, q) = EntriesOf(q)
      /\ \A q \in Runs : SnapsOf(t, q) # {} => q \in begun
  <2>1. CASE Crash
    BY <2>1, <1>2, InTermsOfSnaps DEF Crash
  <2>2. CASE \E r \in Runs : CrashInCapture(r)
    <3>1. PICK r \in Runs : CrashInCapture(r)
      BY <2>2
    <3>2. t = Saved(r, <<>>) /\ SnapOf(r) = {} /\ r \in begun /\ EntriesOf(r) = <<>>
      BY <3>1, InTermsOfSnaps DEF CrashInCapture, SnapshotInv, OnlyOfTheBegun
    <3> DEFINE M == <<>>
    <3>3. M \in Seq(Entries) /\ t = Saved(r, M) /\ EntriesOf(r) = M
      BY <3>2
    <3> HIDE DEF M
    <3>4. /\ t \in Seq(Snaps) /\ OneEach(t) /\ EntriesIn(t, r) = M
          /\ \A q \in Runs : q # r =>
                (SnapsOf(t, q) = {} <=> SnapsOf(snaps, q) = {})
                /\ EntriesIn(t, q) = EntriesIn(snaps, q)
      BY <1>2, <3>2, <3>3, SavedIs
    <3> QED BY <1>2, <3>2, <3>3, <3>4, InTermsOfSnaps
  <2> QED BY <2>1, <2>2
<1>4. SnapshotTypeOK'
  <2>1. snaps' \in Seq([run : Runs, entries : Seq(Entries)])
    BY <1>3 DEF Snaps
  <2> QED BY <2>1, <1>1 DEF SnapshotInv, SnapshotTypeOK
<1>5. OnlyOfTheBegun'
  <2>1. ASSUME NEW i \in DOMAIN t PROVE t[i].run \in begun
    <3>1. t[i] \in Snaps
      BY <1>3
    <3> QED BY <3>1, <1>3 DEF Snaps, SnapsOf
  <2> QED BY <2>1, <1>1 DEF SnapshotInv, OnlyOfTheBegun
<1>6. RestoreHolds'
  BY <1>1, RestoreGoesOn
<1>7. ASSUME NEW q \in now
      PROVE  /\ Unique(EntriesIn(t, q)) /\ Sealed(q, EntriesIn(t, q))'
             /\ Accounted(q, EntriesIn(t, q), ws)'
  <2>1. q \in Runs /\ q \in begun /\ EntriesIn(t, q) = EntriesOf(q)
    BY <1>1, <1>3 DEF SnapshotInv, SnapshotTypeOK
  <2> QED BY <2>1, <1>1, RunGoesOn
<1>8. \A q \in Runs : pending'[q] = None
  BY <1>1
<1> QED BY <1>3, <1>4, <1>5, <1>6, <1>7, <1>8, SnapshotsGoOn

\* A step that changes the workspace and no snapshot, when what it makes of the
\* paths that a run counts as its own is in the run's manifest.
LEMMA WorkspaceGoesOn ==
    ASSUME SnapshotInv, SnapshotTypeOK', RestoreHolds', snaps' = snaps, begun' = begun,
           going' = going, base' = base, restoring' # None => restoring'.run \in begun,
           \A q \in Runs : pending'[q] \in {None, pending[q]},
           \A q \in Runs : foreign[q] \subseteq foreign'[q],
           \A q \in begun : \A p \in Paths :
              Own(q, p)' /\ ws'[p] # ws[p] /\ ws'[p] # base[q][p] =>
                 IF base[q][p] # Absent THEN Keeps(EntriesOf(q), p, base[q][p])
                 ELSE ws'[p] = Dir \/ Covered(EntriesOf(q), p)
    PROVE  SnapshotInv'
<1> SUFFICES ASSUME NEW t, t = snaps', NEW now, now = begun' PROVE SnapshotInv'
  OBVIOUS
<1>1. OneEach(t) /\ now = begun
      /\ \A q : SnapOf(q) = SnapsOf(t, q) /\ EntriesOf(q) = EntriesIn(t, q)
  BY InTermsOfSnaps
<1>2. OnlyOfTheBegun'
  BY DEF SnapshotInv, OnlyOfTheBegun
<1>3. ASSUME NEW q \in now
      PROVE  /\ Unique(EntriesIn(t, q)) /\ Sealed(q, EntriesIn(t, q))'
             /\ Accounted(q, EntriesIn(t, q), ws)'
  <2> SUFFICES ASSUME NEW M, M = EntriesOf(q)
               PROVE  Unique(M) /\ Sealed(q, M)' /\ Accounted(q, M, ws)'
    BY <1>1
  <2>1. q \in begun /\ q \in Runs
    BY <1>1 DEF SnapshotInv, SnapshotTypeOK
  <2>2. Unique(M) /\ Sealed(q, M) /\ Accounted(q, M, ws)
    BY <2>1, InTermsOfSnaps DEF Holds
  <2>3. Sealed(q, M)' /\ \A p : Own(q, p)' => Own(q, p)
    BY <2>1, <2>2, StaysSealed
  <2>4. Accounted(q, M, ws)'
    BY <2>1, <2>2, <2>3 DEF Accounted
  <2> QED BY <2>2, <2>3, <2>4
<1>4. ASSUME NEW q \in Runs, pending'[q] # None, SnapsOf(t, q) # {}
      PROVE  pending'[q].scope \subseteq EntryPaths(EntriesIn(t, q))
  BY <1>1, <1>4 DEF SnapshotInv, ScopesAreCaptured
<1> QED BY <1>1, <1>2, <1>3, <1>4, SnapshotsGoOn

\* A change that a run captured is in its manifest; to the other runs, and where the
\* snapshot went in between, it is foreign.
LEMMA ChangeKeepsSnapshots ==
    ASSUME SnapshotInv, NEW r \in Runs, Change(r)
    PROVE  SnapshotInv'
<1> DEFINE c == pending[r]
           scope == LiveScope(r, c.scope)
<1>1. /\ c \in PendingChanges /\ pending' = [pending EXCEPT ![r] = None]
      /\ snaps' = snaps /\ going' = going /\ begun' = begun /\ changes' = changes
      /\ restoring' = restoring /\ base' = base
      /\ \/ /\ CanChange(ws, c.path, c.value)
            /\ ws' = Changed(ws, c.path, c.value)
            /\ foreign' = ForeignAfter(r, scope, ws')
         \/ ws' = ws /\ foreign' = foreign
  BY InTermsOfSnaps DEF Change
<1>2. c.path \in Paths /\ c.value \in Values /\ ws \in Trees
  BY <1>1 DEF PendingChanges, SnapshotInv, SnapshotTypeOK
<1>3. ws' \in Trees
  BY <1>1, <1>2, ChangedIsATree
<1>4. /\ foreign' \in [Runs -> SUBSET Paths]
      /\ \A q \in Runs :
            /\ foreign[q] \subseteq foreign'[q]
            /\ \A p \in Paths : ws'[p] # ws[p] /\ p \notin foreign'[q] =>
                  q = r /\ \E s \in scope : p \in Below(s)
  <2> HIDE DEF c, scope
  <2>1. CASE ws' = ws /\ foreign' = foreign
    BY <2>1 DEF SnapshotInv, SnapshotTypeOK
  <2>2. CASE foreign' = ForeignAfter(r, scope, ws')
    <3> SUFFICES ASSUME NEW w, w = ws'
                 PROVE  /\ foreign' \in [Runs -> SUBSET Paths]
                        /\ \A q \in Runs :
                              /\ foreign[q] \subseteq foreign'[q]
                              /\ \A p \in Paths : w[p] # ws[p] /\ p \notin foreign'[q] =>
                                    q = r /\ \E s \in scope : p \in Below(s)
      OBVIOUS
    <3>1. foreign' = ForeignAfter(r, scope, w) /\ SnapshotTypeOK
      BY <2>2 DEF SnapshotInv
    <3> QED BY <3>1, ForeignIs
  <2> QED BY <1>1, <2>1, <2>2
<1>5. \A s \in scope : /\ SnapOf(r) # {} /\ restoring.run # r /\ r \in begun
                       /\ s \in EntryPaths(EntriesOf(r))
  BY <1>1, InTermsOfSnaps DEF Change, LiveScope, SnapshotInv, ScopesAreCaptured
<1> HIDE DEF scope
<1>6. \A q \in Runs : pending'[q] \in {None, pending[q]}
  BY <1>1 DEF SnapshotInv, SnapshotTypeOK
<1> HIDE DEF c
<1>7. SnapshotTypeOK'
  BY <1>1, <1>3, <1>4 DEF SnapshotInv, SnapshotTypeOK
<1>8. RestoreHolds'
  <2>1. ASSUME restoring # None, NEW p \in Paths, Own(restoring.run, p)'
        PROVE  ws'[p] = ws[p]
    <3>1. restoring.run \in Runs /\ p \notin foreign'[restoring.run]
      BY <2>1, <1>1, InTermsOfSnaps DEF Restores, Own
    <3> QED BY <3>1, <1>4, <1>5
  <2>2. restoring # None => restoring.run \in Runs
    BY InTermsOfSnaps DEF Restores
  <2> QED BY <2>1, <2>2, <1>1, <1>4, RestoreGoesOn
<1>9. ASSUME NEW q \in begun, NEW p \in Paths, Own(q, p)', ws'[p] # ws[p],
             ws'[p] # base[q][p]
      PROVE  IF base[q][p] # Absent THEN Keeps(EntriesOf(q), p, base[q][p])
             ELSE ws'[p] = Dir \/ Covered(EntriesOf(q), p)
  <2>1. q \in Runs /\ p \notin foreign'[q]
    BY <1>9 DEF Own, SnapshotInv, SnapshotTypeOK
  <2>2. PICK s \in scope : q = r /\ p \in Below(s)
    BY <2>1, <1>4, <1>9
  <2>3. s \in EntryPaths(EntriesOf(q))
    BY <2>2, <1>5
  <2>4. Own(q, p) /\ Sealed(q, EntriesOf(q))
    BY <2>1, <1>4, <1>9, InTermsOfSnaps DEF Own, Holds
  <2>5. Covered(EntriesOf(q), p)
    BY <2>2, <2>3 DEF Covered, EntryPaths
  <2> QED BY <2>2, <2>3, <2>4, <2>5 DEF Sealed
<1>10. restoring' # None => restoring'.run \in begun
  BY <1>1 DEF SnapshotInv, OnlyOfTheBegun
<1>11. \A q \in Runs : foreign[q] \subseteq foreign'[q]
  BY <1>4
<1> QED BY <1>1, <1>6, <1>7, <1>8, <1>9, <1>10, <1>11, WorkspaceGoesOn

\* What the start of a restore removes was not there for its run.
LEMMA UnexpectedIs ==
    ASSUME NEW w \in Trees, NEW M \in Seq(Entries)
    PROVE  /\ RemoveUnexpected(w, M) \in Trees
           /\ \A p \in Paths : RemoveUnexpected(w, M)[p] # w[p] =>
                 /\ RemoveUnexpected(w, M)[p] = Absent
                 /\ p \notin EntryPaths(M)
                 /\ \E d \in EntryPaths(M) : p \in Below(d)
<1> DEFINE v == RemoveUnexpected(w, M)
<1>1. v \in [Paths -> Values]
      /\ \A p \in Paths : v[p] = IF p \in Unexpected(w, M) THEN Absent ELSE w[p]
  BY DEF RemoveUnexpected, Trees, Values
<1>2. ASSUME NEW p \in Paths, p \in Unexpected(w, M)
      PROVE  p \notin EntryPaths(M) /\ \E d \in EntryPaths(M) : p \in Below(d)
  <2>1. p \in Below(p) /\ EntryPaths(M) \cap Below(p) = {}
    BY <1>2 DEF Unexpected, Below
  <2>2. PICK i \in DOMAIN M : M[i].path \in Above[p]
    BY <1>2 DEF Unexpected
  <2>3. p \in Below(M[i].path) /\ M[i].path \in EntryPaths(M)
    BY <2>2 DEF Below, EntryPaths
  <2> QED BY <2>1, <2>3
<1>3. ASSUME NEW p \in Paths, v[p] # Absent, Parent[p] # Root
      PROVE  v[Parent[p]] = Dir
  <2> DEFINE d == Parent[p]
  <2>1. d \in Paths /\ d \in Above[p] /\ Above[d] \subseteq Above[p] /\ p \in Below(d)
    BY <1>3, AboveIsAll, AboveIsTransitive DEF Places, Below
  <2>2. w[p] # Absent /\ p \notin Unexpected(w, M) /\ w[d] = Dir
    BY <1>1, <1>3 DEF Trees, IsTree
  <2>3. d \notin Unexpected(w, M)
    <3> SUFFICES ASSUME d \in Unexpected(w, M) PROVE p \in Unexpected(w, M)
      BY <2>2
    <3>1. Below(p) \subseteq Below(d)
      BY <2>1, BelowIsTransitive DEF Places
    <3> QED BY <2>1, <2>2, <3>1 DEF Unexpected
  <2> QED BY <1>1, <2>1, <2>2, <2>3
<1>4. v \in Trees
  BY <1>1, <1>3 DEF Trees, IsTree
<1> QED BY <1>1, <1>2, <1>4

\* The start of a restore: what it removes is nothing that its run found.
LEMMA StartKeepsSnapshots ==
    ASSUME SnapshotInv, StartRestore
    PROVE  SnapshotInv'
<1> DEFINE s == Last(snaps)
<1> SUFFICES ASSUME NEW r, r = s.run, NEW M, M = s.entries, NEW w, w = ws'
             PROVE  SnapshotInv'
  OBVIOUS
<1>1. /\ restoring' = [run |-> r, entries |-> M, next |-> 1]
      /\ w = RemoveUnexpected(ws, M) /\ foreign' = ForeignAfter(r, TheTree, w)
      /\ snaps' = snaps /\ going' = going /\ begun' = begun /\ pending' = pending
      /\ changes' = changes /\ base' = base
  BY DEF StartRestore, TheTree
<1>2. s \in Snaps /\ EntriesIn(snaps, s.run) = s.entries /\ SnapsOf(snaps, s.run) # {}
  <2>1. Len(snaps) \in DOMAIN snaps /\ s = snaps[Len(snaps)] /\ snaps \in Seq(Snaps)
        /\ OneEach(snaps)
    BY InTermsOfSnaps DEF StartRestore, Last
  <2>2. EntriesIn(snaps, snaps[Len(snaps)].run) = snaps[Len(snaps)].entries
        /\ SnapsOf(snaps, snaps[Len(snaps)].run) # {}
    BY <2>1, TheSnapshotIs DEF SnapsOf
  <2> QED BY <2>1, <2>2
<1> HIDE DEF s
<1>3. r \in Runs /\ M \in Seq(Entries) /\ M = EntriesOf(r) /\ r \in begun
  BY <1>2, InTermsOfSnaps DEF Snaps
<1>4. Unique(M) /\ Sealed(r, M) /\ Accounted(r, M, ws)
  BY <1>3, InTermsOfSnaps DEF Holds
<1>5. SnapshotTypeOK /\ ws \in Trees
  BY DEF SnapshotInv, SnapshotTypeOK
<1>6. w \in Trees /\ \A p \in Paths : w[p] # ws[p] =>
         w[p] = Absent /\ p \notin EntryPaths(M) /\ \E d \in EntryPaths(M) : p \in Below(d)
  BY <1>1, <1>3, <1>5, UnexpectedIs
<1>7. /\ foreign' \in [Runs -> SUBSET Paths]
      /\ \A q \in Runs : /\ foreign[q] \subseteq foreign'[q]
                         /\ \A p \in Paths : w[p] # ws[p] /\ p \notin foreign'[q] => q = r
  <2>1. /\ SnapshotTypeOK /\ foreign' = ForeignAfter(r, TheTree, w)
        /\ w \in Trees /\ r \in Runs
    BY <1>1, <1>3, <1>5, <1>6
  <2> QED BY <2>1, ForeignToOthers
<1>8. SnapshotTypeOK'
  <2>1. restoring' \in Restores
    BY <1>1, <1>3 DEF Restores
  <2> QED BY <2>1, <1>1, <1>6, <1>7 DEF SnapshotInv, SnapshotTypeOK
<1>9. Sealed(r, M)' /\ \A p : Own(r, p)' => Own(r, p)
  BY <1>1, <1>3, <1>4, <1>7, StaysSealed
<1>10. ASSUME NEW p \in Paths, Own(r, p)', w[p] # ws[p] PROVE base[r][p] = Absent
  <2>1. Own(r, p)
    BY <1>9, <1>10
  <2>2. ~Keeps(M, p, base[r][p])
    BY <1>6, <1>10 DEF Keeps, EntryPaths
  <2> QED BY <2>1, <2>2, <1>4, <1>6, <1>10 DEF Sealed
<1>11. RestoreHolds'
  <2>1. ASSUME NEW p \in Paths, Own(r, p)', IsFile(base[r][p])
        PROVE  w[p] = base[r][p] \/ \E i \in DOMAIN M : i >= 1 /\ M[i].path = p
    <3>1. IsFile(base[r][p]) => base[r][p] # Absent
      BY SnapshotAssumption DEF IsFile
    <3>2. w[p] = ws[p] /\ Own(r, p)
      BY <2>1, <3>1, <1>9, <1>10
    <3>3. CASE w[p] # base[r][p]
      <4>1. Keeps(M, p, base[r][p])
        BY <3>1, <3>2, <3>3, <2>1, <1>4 DEF Accounted
      <4>2. \A i \in DOMAIN M : i >= 1
        BY <1>3
      <4> QED BY <4>1, <4>2 DEF Keeps
    <3> QED BY <3>3
  <2> SUFFICES ASSUME NEW x, x = restoring'
               PROVE  /\ Unique(x.entries) /\ Sealed(x.run, x.entries)'
                      /\ \A p \in Paths :
                            Own(x.run, p)' /\ IsFile(base'[x.run][p]) =>
                               \/ ws'[p] = base'[x.run][p]
                               \/ \E i \in DOMAIN x.entries :
                                     i >= x.next /\ x.entries[i].path = p
    BY DEF RestoreHolds
  <2>2. x.run = r /\ x.entries = M /\ x.next = 1
    BY <1>1
  <2> QED BY <2>1, <2>2, <1>1, <1>4, <1>9
<1>12. ASSUME NEW q \in begun, NEW p \in Paths, Own(q, p)', ws'[p] # ws[p],
              ws'[p] # base[q][p]
       PROVE  IF base[q][p] # Absent THEN Keeps(EntriesOf(q), p, base[q][p])
              ELSE ws'[p] = Dir \/ Covered(EntriesOf(q), p)
  <2>1. q \in Runs /\ p \notin foreign'[q]
    BY <1>12 DEF Own, SnapshotInv, SnapshotTypeOK
  <2>2. q = r
    BY <2>1, <1>7, <1>12
  <2> QED BY <2>2, <1>6, <1>10, <1>12
<1>13. restoring'.run \in begun
  BY <1>1, <1>3
<1>14. pending \in [Runs -> {None} \cup PendingChanges]
  BY <1>5 DEF SnapshotTypeOK
<1> QED BY <1>1, <1>7, <1>8, <1>11, <1>12, <1>13, <1>14, WorkspaceGoesOn

\* What putting back one entry does to a path that the run counts as its own:
\* what the run found there is put back or stays, and the rest is the run's.
LEMMA EntryPutsBack ==
    ASSUME SnapshotInv, restoring # None, NEW r, r = restoring.run,
           NEW M, M = restoring.entries, NEW k, k = restoring.next, k <= Len(M),
           NEW e, e = M[k], NEW copy, copy = CopyOf(r, k, e.path),
           CanPutBack(ws, e, copy), NEW p \in Paths, Own(r, p),
           NEW v, v = PutBack(ws, e, copy)[p]
    PROVE  /\ v # ws[p] /\ base[r][p] # Absent =>
                 v = base[r][p] \/ (v = Dir /\ ws[p] = Absent)
           /\ v # ws[p] /\ base[r][p] = Absent =>
                 v \in {Absent, Dir} \/ Covered(EntriesOf(r), p)
           /\ IsFile(base[r][p]) /\ e.path = p => v = base[r][p]
<1>1. /\ r \in Runs /\ r \in begun /\ M \in Seq(Entries) /\ k \in DOMAIN M
      /\ Unique(M) /\ Sealed(r, M) /\ ws \in Trees /\ base \in [Runs -> Trees]
  <2>1. restoring \in Restores
    BY InTermsOfSnaps
  <2> QED BY <2>1 DEF SnapshotInv, SnapshotTypeOK, OnlyOfTheBegun, RestoreHolds, Restores
<1>2. e \in Entries
  BY <1>1
<1>3. /\ Becomes(v, ws[p], e, copy, p)
      /\ e.was \notin {Absent, Dir} =>
            IsFile(copy) /\ PutBack(ws, e, copy)[e.path] = copy
  BY <1>1, <1>2, PutBackIs
<1>4. /\ ~IsFile(Absent) /\ ~IsFile(Dir) /\ ~IsFile(Lost)
      /\ Absent # Dir /\ Lost \notin {Absent, Dir}
  BY SnapshotAssumption DEF IsFile
<1>5. ASSUME base[r][p] # Absent, p \in Below(e.path)
      PROVE  /\ e.path = p => \/ e.was = base[r][p]
                              \/ (e.was = Lost /\ IsFile(base[r][p]))
             /\ e.path # p => e.was = Dir
  <2>1. /\ M[k].path = p => \/ M[k].was = base[r][p]
                            \/ (M[k].was = Lost /\ IsFile(base[r][p]))
        /\ M[k].path \notin {p, Root} => M[k].was = Dir
    BY <1>1, <1>5, EntrySaysWhatWas
  <2>2. e.path = Root => e.was = Dir
    BY <1>2, SnapshotAssumption DEF Entries
  <2> QED BY <2>1, <2>2
<1>6. e.path = p => p \in Below(e.path)
  BY DEF Below
<1>7. ASSUME e.path = p, e.was \notin {Absent, Dir}
      PROVE  /\ Covered(EntriesOf(r), p)
             /\ base[r][p] # Absent => copy = base[r][p]
  <2>1. IsFile(copy)
    BY <1>3, <1>7
  <2>2. k \in DOMAIN EntriesOf(r) /\ EntriesOf(r)[k].path = p /\ copy = EntriesOf(r)[k].was
    BY <2>1, <1>4, <1>7 DEF CopyOf
  <2>3. Unique(EntriesOf(r)) /\ Sealed(r, EntriesOf(r))
    BY <1>1, InTermsOfSnaps DEF Holds
  <2>4. EntriesOf(r) \in Seq(Entries) /\ p \in EntryPaths(EntriesOf(r))
    <3>1. EntriesOf(r) \in Seq(Entries)
      BY <1>1, InTermsOfSnaps
    <3> QED BY <3>1, <2>2, EntryPathsAre
  <2>5. ASSUME base[r][p] # Absent PROVE copy = base[r][p]
    <3>1. Keeps(EntriesOf(r), p, base[r][p])
      BY <2>3, <2>4, <2>5, <1>6, <1>7 DEF Sealed
    <3> QED BY <3>1, <2>1, <2>2, <2>3, <1>4 DEF Keeps, Unique
  <2> QED BY <2>2, <2>5 DEF Covered
<1>8. ASSUME v # ws[p], base[r][p] # Absent
      PROVE  v = base[r][p] \/ (v = Dir /\ ws[p] = Absent)
  BY <1>3, <1>4, <1>5, <1>6, <1>7, <1>8 DEF Becomes
<1>9. ASSUME v # ws[p], base[r][p] = Absent, v \notin {Absent, Dir}
      PROVE  Covered(EntriesOf(r), p)
  BY <1>3, <1>7, <1>9 DEF Becomes
<1>10. ASSUME IsFile(base[r][p]), e.path = p PROVE v = base[r][p]
  <2>1. e.was \notin {Absent, Dir}
    BY <1>4, <1>5, <1>6, <1>10
  <2> QED BY <2>1, <1>3, <1>4, <1>7, <1>10
<1> QED BY <1>8, <1>9, <1>10

\* An entry whose copy is missing takes nothing of what its run found and has not
\* changed.
LEMMA EntryMakesWay ==
    ASSUME SnapshotInv, restoring # None, NEW r, r = restoring.run,
           NEW M, M = restoring.entries, NEW k \in DOMAIN M,
           NEW e, e = M[k], NEW p \in Paths, Own(r, p),
           NEW v, v = PlaceMade(ws, e)[p], v # ws[p]
    PROVE  /\ base[r][p] # Absent => ws[p] # base[r][p]
           /\ base[r][p] = Absent => v \in {Absent, Dir}
<1>1. /\ r \in Runs /\ M \in Seq(Entries) /\ Unique(M) /\ Sealed(r, M)
      /\ ws \in Trees /\ base \in [Runs -> Trees]
  <2>1. restoring \in Restores
    BY InTermsOfSnaps
  <2> QED BY <2>1 DEF SnapshotInv, SnapshotTypeOK, OnlyOfTheBegun, RestoreHolds, Restores
<1>2. e \in Entries
  BY <1>1
<1>3. MadeWay(v, ws[p], e, p)
  BY <1>1, <1>2, PlaceMadeIs
<1>4. /\ ~IsFile(Absent) /\ ~IsFile(Dir) /\ Absent # Dir
  BY SnapshotAssumption DEF IsFile
<1>5. ASSUME base[r][p] # Absent, p \in Below(e.path), e.was \notin {Absent, Dir},
             p = e.path => ws[p] = Dir
      PROVE  ws[p] # base[r][p]
  <2>1. /\ M[k].path = p => \/ M[k].was = base[r][p]
                            \/ (M[k].was = Lost /\ IsFile(base[r][p]))
        /\ M[k].path \notin {p, Root} => M[k].was = Dir
    BY <1>1, <1>5, EntrySaysWhatWas
  <2>2. e.path = Root => e.was = Dir
    BY <1>2, SnapshotAssumption DEF Entries
  <2>3. e.path = p
    BY <2>1, <2>2, <1>5
  <2> QED BY <2>1, <2>3, <1>4, <1>5
<1>6. ASSUME base[r][p] # Absent PROVE ws[p] # base[r][p]
  BY <1>3, <1>5, <1>6 DEF MadeWay
<1> QED BY <1>3, <1>6 DEF MadeWay

\* An entry put back: what its run found of it is back, and nothing else is lost.
LEMMA EntryKeepsSnapshots ==
    ASSUME SnapshotInv, RestoreEntry
    PROVE  SnapshotInv'
<1> SUFFICES ASSUME NEW r, r = restoring.run, NEW M, M = restoring.entries,
                    NEW k, k = restoring.next, NEW w, w = ws'
             PROVE  SnapshotInv'
  OBVIOUS
<1> DEFINE e == M[k]
           copy == CopyOf(r, k, e.path)
<1>1. /\ restoring # None /\ k <= Len(M)
      /\ \/ /\ CanPutBack(ws, e, copy)
            /\ w = PutBack(ws, e, copy)
            /\ restoring' = [restoring EXCEPT !.next = k + 1]
         \/ restoring' = None /\ w = PlaceMade(ws, e)
      /\ foreign' = ForeignAfter(r, TheTree, w)
      /\ snaps' = snaps /\ going' = going /\ begun' = begun /\ pending' = pending
      /\ changes' = changes /\ base' = base
  BY DEF RestoreEntry, TheTree
<1>2. /\ restoring = [run |-> r, entries |-> M, next |-> k] /\ r \in Runs /\ r \in begun
      /\ M \in Seq(Entries) /\ k \in Nat \ {0} /\ k \in DOMAIN M
      /\ ws \in Trees /\ SnapshotTypeOK /\ pending \in [Runs -> {None} \cup PendingChanges]
  <2>1. restoring \in Restores
    BY <1>1, InTermsOfSnaps
  <2> QED BY <1>1, <2>1 DEF SnapshotInv, SnapshotTypeOK, OnlyOfTheBegun, Restores
<1>3. w \in Trees
  BY <1>1, <1>2, PutBackIs, PlaceMadeIs
<1>4. /\ foreign' \in [Runs -> SUBSET Paths]
      /\ \A q \in Runs :
            /\ foreign[q] \subseteq foreign'[q]
            /\ \A p \in Paths : w[p] # ws[p] /\ p \notin foreign'[q] => q = r
  <2>1. /\ SnapshotTypeOK /\ foreign' = ForeignAfter(r, TheTree, w)
        /\ w \in Trees /\ r \in Runs
    BY <1>1, <1>2, <1>3
  <2> HIDE DEF e, copy
  <2> QED BY <2>1, ForeignToOthers
<1>5. Unique(M) /\ Sealed(r, M) /\ Accounted(r, EntriesOf(r), ws)
  BY <1>1, <1>2, InTermsOfSnaps DEF SnapshotInv, RestoreHolds, Holds
<1>6. Sealed(r, M)' /\ \A p : Own(r, p)' => Own(r, p)
  BY <1>1, <1>2, <1>4, <1>5, StaysSealed
<1>7. CASE restoring' = None /\ w = PlaceMade(ws, e)
  <2>1. SnapshotTypeOK'
    BY <1>1, <1>3, <1>4, <1>7 DEF SnapshotInv, SnapshotTypeOK
  <2>2. RestoreHolds'
    BY <1>7 DEF RestoreHolds, None
  <2>3. ASSUME NEW q \in begun, NEW p \in Paths, Own(q, p)', ws'[p] # ws[p],
               ws'[p] # base[q][p]
        PROVE  IF base[q][p] # Absent THEN Keeps(EntriesOf(q), p, base[q][p])
               ELSE ws'[p] = Dir \/ Covered(EntriesOf(q), p)
    <3>1. q \in Runs /\ p \notin foreign'[q]
      BY <2>3, <1>2 DEF Own, SnapshotTypeOK
    <3>2. q = r
      BY <3>1, <1>4, <2>3
    <3>3. Own(r, p)
      BY <3>2, <1>6, <2>3
    <3>4. /\ base[r][p] # Absent => ws[p] # base[r][p]
          /\ base[r][p] = Absent => w[p] \in {Absent, Dir}
      BY <1>1, <1>2, <1>7, <2>3, <3>3, EntryMakesWay
    <3> QED BY <3>2, <3>3, <3>4, <1>5, <2>3 DEF Accounted
  <2>4. \A q \in Runs : foreign[q] \subseteq foreign'[q]
    BY <1>4
  <2> QED BY <1>1, <1>2, <1>7, <2>1, <2>2, <2>3, <2>4, WorkspaceGoesOn
<1>8. CASE CanPutBack(ws, e, copy) /\ w = PutBack(ws, e, copy)
           /\ restoring' = [restoring EXCEPT !.next = k + 1]
  <2>3. restoring' = [run |-> r, entries |-> M, next |-> k + 1] /\ restoring' \in Restores
    BY <1>2, <1>8 DEF Restores
  <2>4. SnapshotTypeOK'
    BY <1>1, <1>3, <1>4, <2>3 DEF SnapshotInv, SnapshotTypeOK
  <2>5. \A p \in Paths :
            Own(r, p) /\ IsFile(base[r][p]) =>
               ws[p] = base[r][p] \/ \E i \in DOMAIN M : i >= k /\ M[i].path = p
    BY <1>1, <1>2 DEF SnapshotInv, RestoreHolds
  <2>7. ASSUME NEW p \in Paths, Own(r, p)
        PROVE  /\ w[p] # ws[p] /\ base[r][p] # Absent =>
                     w[p] = base[r][p] \/ (w[p] = Dir /\ ws[p] = Absent)
               /\ w[p] # ws[p] /\ base[r][p] = Absent =>
                     w[p] \in {Absent, Dir} \/ Covered(EntriesOf(r), p)
               /\ IsFile(base[r][p]) /\ M[k].path = p => w[p] = base[r][p]
    BY <1>1, <1>2, <1>8, <2>7, EntryPutsBack
  <2>8. ASSUME NEW p \in Paths, Own(r, p)', IsFile(base[r][p])
        PROVE  w[p] = base[r][p] \/ \E i \in DOMAIN M : i >= k + 1 /\ M[i].path = p
    <3>1. Own(r, p) /\ base[r][p] # Absent
      BY <1>6, <2>8, SnapshotAssumption DEF IsFile
    <3>2. CASE ws[p] = base[r][p]
      BY <3>1, <3>2, <2>7
    <3>3. CASE ws[p] # base[r][p]
      <4>1. PICK i \in DOMAIN M : i >= k /\ M[i].path = p
        BY <3>1, <3>3, <2>5, <2>8
      <4>2. i = k \/ i >= k + 1
        BY <4>1, <1>2
      <4> QED BY <4>1, <4>2, <3>1, <2>7, <2>8
    <3> QED BY <3>2, <3>3
  <2>9. RestoreHolds'
    <3> SUFFICES ASSUME NEW x, x = restoring'
                 PROVE  /\ Unique(x.entries) /\ Sealed(x.run, x.entries)'
                        /\ \A p \in Paths :
                              Own(x.run, p)' /\ IsFile(base'[x.run][p]) =>
                                 \/ ws'[p] = base'[x.run][p]
                                 \/ \E i \in DOMAIN x.entries :
                                       i >= x.next /\ x.entries[i].path = p
      BY DEF RestoreHolds
    <3>1. x.run = r /\ x.entries = M /\ x.next = k + 1
      BY <2>3
    <3> QED BY <3>1, <1>5, <1>6, <2>8, <1>1
  <2>10. ASSUME NEW q \in begun, NEW p \in Paths, Own(q, p)', ws'[p] # ws[p],
                ws'[p] # base[q][p]
         PROVE  IF base[q][p] # Absent THEN Keeps(EntriesOf(q), p, base[q][p])
                ELSE ws'[p] = Dir \/ Covered(EntriesOf(q), p)
    <3>1. q \in Runs /\ p \notin foreign'[q]
      BY <2>10, <1>2 DEF Own, SnapshotTypeOK
    <3>2. q = r
      BY <3>1, <1>4, <2>10
    <3>3. Own(r, p)
      BY <3>2, <1>6, <2>10
    <3>4. CASE base[r][p] # Absent
      <4>1. ws[p] # base[r][p]
        BY <3>2, <3>3, <3>4, <2>7, <2>10
      <4> QED BY <4>1, <3>2, <3>3, <3>4, <1>5 DEF Accounted
    <3>5. CASE base[r][p] = Absent
      BY <3>2, <3>3, <3>5, <2>7, <2>10
    <3> QED BY <3>2, <3>4, <3>5
  <2>11. restoring'.run \in begun
    BY <1>2, <2>3
  <2>12. \A q \in Runs : foreign[q] \subseteq foreign'[q]
    BY <1>4
  <2> QED BY <1>1, <1>2, <2>4, <2>9, <2>10, <2>11, <2>12, WorkspaceGoesOn
<1> QED BY <1>1, <1>7, <1>8

\* The manifest while its copies go.
CopiesGone(M) ==
    [i \in DOMAIN M |-> IF IsFile(M[i].was) THEN [M[i] EXCEPT !.was = Lost] ELSE M[i]]

\* The manifest keeps its paths, and says which copies are gone.
LEMMA CopiesGoneIs ==
    ASSUME NEW M \in Seq(Entries), NEW N, N = CopiesGone(M)
    PROVE  /\ N \in Seq(Entries) /\ (Unique(M) => Unique(N)) /\ EntryPaths(N) = EntryPaths(M)
           /\ \A p, v : Keeps(M, p, v) => Keeps(N, p, v)
           /\ \A p : Covered(M, p) => Covered(N, p)
<1>1. Dir \notin Contents
  BY SnapshotAssumption
<1>2. ASSUME NEW i \in DOMAIN M
      PROVE  /\ N[i] \in Entries /\ N[i].path = M[i].path
             /\ N[i].was = M[i].was \/ (N[i].was = Lost /\ IsFile(M[i].was))
  <2>1. M[i] \in Entries
    OBVIOUS
  <2>2. CASE IsFile(M[i].was)
    <3>1. M[i] = [path |-> M[i].path, was |-> M[i].was] /\ M[i].path \in Paths
      BY <2>1, <2>2, <1>1 DEF Entries, IsFile
    <3>2. N[i] = [path |-> M[i].path, was |-> Lost]
      BY <2>2, <3>1 DEF CopiesGone
    <3> QED BY <2>2, <3>1, <3>2 DEF Entries
  <2>3. CASE ~IsFile(M[i].was)
    BY <2>1, <2>3 DEF CopiesGone
  <2> QED BY <2>2, <2>3
<1>3. DOMAIN N = DOMAIN M
  BY DEF CopiesGone
<1>4. N \in Seq(Entries)
  <2>1. N = [i \in DOMAIN M |-> N[i]]
    BY <1>3 DEF CopiesGone
  <2>2. Len(M) \in Nat /\ DOMAIN M = 1 .. Len(M)
    OBVIOUS
  <2> QED BY <2>1, <2>2, <1>2
<1>5. Unique(M) => Unique(N)
  BY <1>2, <1>3 DEF Unique
<1>6. EntryPaths(N) = EntryPaths(M)
  BY <1>2, <1>3 DEF EntryPaths
<1>7. ASSUME NEW p, NEW v, Keeps(M, p, v) PROVE Keeps(N, p, v)
  <2>1. PICK i \in DOMAIN M :
           M[i].path = p /\ (M[i].was = v \/ (M[i].was = Lost /\ IsFile(v)))
    BY <1>7 DEF Keeps
  <2>2. N[i].path = p /\ (N[i].was = v \/ (N[i].was = Lost /\ IsFile(v)))
    <3>1. ~IsFile(Lost)
      BY SnapshotAssumption DEF IsFile
    <3> QED BY <1>2, <2>1, <3>1
  <2> QED BY <2>2, <1>3 DEF Keeps
<1>8. \A p : Covered(M, p) => Covered(N, p)
  BY <1>2, <1>3 DEF Covered
<1> QED BY <1>4, <1>5, <1>6, <1>7, <1>8

\* A restore that is done takes its snapshot away; one that dies leaves it, with
\* the copies that are not gone.
LEMMA EndsKeepSnapshots ==
    ASSUME SnapshotInv, FinishRestore \/ CrashInRestore \/ CrashInRemoval
    PROVE  SnapshotInv'
<1> SUFFICES ASSUME NEW t, t = snaps', NEW now, now = begun', NEW r, r = restoring.run
             PROVE  SnapshotInv'
  OBVIOUS
<1>1. /\ restoring # None /\ restoring' = None
      /\ ws' = ws /\ going' = going /\ begun' = begun /\ pending' = pending
      /\ changes' = changes /\ base' = base
  BY DEF FinishRestore, CrashInRestore, CrashInRemoval
<1>2. r \in Runs /\ r \in begun /\ SnapshotTypeOK
  <2>1. restoring \in Restores
    BY <1>1, InTermsOfSnaps
  <2> QED BY <1>1, <2>1 DEF SnapshotInv, OnlyOfTheBegun, Restores
<1>3. /\ snaps \in Seq(Snaps) /\ OneEach(snaps)
      /\ \A q : SnapOf(q) = SnapsOf(snaps, q) /\ EntriesOf(q) = EntriesIn(snaps, q)
      /\ \A q \in begun : Holds(q, EntriesOf(q))
      /\ EntriesOf(r) \in Seq(Entries)
  BY InTermsOfSnaps
<1>4. /\ t \in Seq(Snaps) /\ OneEach(t) /\ foreign' \in [Runs -> SUBSET Paths]
      /\ \A q \in Runs : SnapsOf(t, q) # {} => SnapOf(q) # {}
      /\ \A q \in Runs : SnapsOf(t, q) # {} =>
            EntryPaths(EntriesIn(t, q)) = EntryPaths(EntriesOf(q))
      /\ \A q \in now : /\ Unique(EntriesIn(t, q)) /\ Sealed(q, EntriesIn(t, q))'
                        /\ Accounted(q, EntriesIn(t, q), ws)'
  <2>1. CASE FinishRestore
    <3>1. t = Without(r) /\ foreign' = LateAfter(t, ws)
      BY <2>1 DEF FinishRestore
    <3>2. /\ t \in Seq(Snaps) /\ OneEach(t) /\ SnapsOf(t, r) = {}
          /\ \A q : SnapsOf(t, q) # {} =>
                SnapsOf(snaps, q) # {} /\ EntriesIn(t, q) = EntriesIn(snaps, q)
      BY <1>3, <3>1, WithoutIs
    <3>3. Left(t, r, EntriesOf(r))
      BY <1>3, <3>2 DEF Left
    <3>4. now = begun /\ now = begun' /\ snaps' = t
      BY <1>1
    <3>5. \A q \in now : /\ Unique(EntriesIn(t, q)) /\ Sealed(q, EntriesIn(t, q))'
                         /\ Accounted(q, EntriesIn(t, q), ws)'
      BY <1>1, <1>2, <3>1, <3>2, <3>3, <3>4, RemovalGoesOn
    <3>6. foreign' \in [Runs -> SUBSET Paths]
      BY <1>2, <3>1, LateIs
    <3> QED BY <1>3, <3>2, <3>5, <3>6
  <2>2. CASE CrashInRestore
    <3>1. t = snaps /\ foreign' = foreign /\ now = begun
      BY <2>2, <1>1 DEF CrashInRestore
    <3>2. ASSUME NEW q \in now
          PROVE  /\ Unique(EntriesIn(t, q)) /\ Sealed(q, EntriesIn(t, q))'
                 /\ Accounted(q, EntriesIn(t, q), ws)'
      BY <1>1, <1>3, <3>1, RunGoesOn
    <3> QED BY <1>2, <1>3, <3>1, <3>2 DEF SnapshotTypeOK
  <2>3. CASE CrashInRemoval
    <3>0. PICK M, N : M = EntriesOf(r) /\ N = CopiesGone(M)
      OBVIOUS
    <3>1. t = Saved(r, N) /\ SnapOf(r) # {} /\ foreign' = foreign /\ now = begun
      BY <2>3, <3>0, <1>1 DEF CrashInRemoval, CopiesGone
    <3>2. /\ N \in Seq(Entries) /\ (Unique(M) => Unique(N)) /\ EntryPaths(N) = EntryPaths(M)
          /\ \A p, v : Keeps(M, p, v) => Keeps(N, p, v)
          /\ \A p : Covered(M, p) => Covered(N, p)
      BY <1>3, <3>0, CopiesGoneIs
    <3>3. /\ t \in Seq(Snaps) /\ OneEach(t)
          /\ SnapsOf(t, r) # {} /\ EntriesIn(t, r) = N
          /\ \A q \in Runs : q # r =>
                (SnapsOf(t, q) = {} <=> SnapsOf(snaps, q) = {})
                /\ EntriesIn(t, q) = EntriesIn(snaps, q)
      <4>1. /\ snaps \in Seq(Snaps) /\ OneEach(snaps) /\ r \in Runs
            /\ N \in Seq(Entries) /\ t = Saved(r, N)
        BY <1>2, <1>3, <3>1, <3>2
      <4> QED BY <4>1, SavedIs
    <3>5. ASSUME NEW q \in now
          PROVE  /\ Unique(EntriesIn(t, q)) /\ Sealed(q, EntriesIn(t, q))'
                 /\ Accounted(q, EntriesIn(t, q), ws)'
      <4>1. q \in Runs /\ q \in begun /\ base'[q] = base[q] /\ foreign'[q] = foreign[q]
        BY <1>1, <1>2, <3>1 DEF SnapshotTypeOK
      <4>2. CASE q # r
        <5>1. EntriesIn(t, q) = EntriesOf(q)
          BY <4>1, <4>2, <1>3, <3>3
        <5> QED BY <4>1, <5>1, <1>1, RunGoesOn
      <4>3. CASE q = r
        <5>1. Unique(M) /\ Sealed(q, M) /\ Accounted(q, M, ws)
          BY <4>1, <4>3, <1>3, <3>0 DEF Holds
        <5>2. Unique(N) /\ Sealed(q, N) /\ Accounted(q, N, ws)
          BY <5>1, <3>2 DEF Sealed, Accounted
        <5>3. Sealed(q, N)' /\ Accounted(q, N, ws)'
          BY <5>2, <4>1, <1>1, StaysSealed, StaysRecorded
        <5> QED BY <5>2, <5>3, <4>3, <3>3
      <4> QED BY <4>2, <4>3
    <3> QED BY <1>2, <1>3, <3>0, <3>1, <3>2, <3>3, <3>5 DEF SnapshotTypeOK
  <2> QED BY <2>1, <2>2, <2>3
<1>5. SnapshotTypeOK'
  <2>1. snaps' \in Seq([run : Runs, entries : Seq(Entries)])
    BY <1>4 DEF Snaps
  <2> QED BY <2>1, <1>1, <1>4 DEF SnapshotInv, SnapshotTypeOK
<1>6. OnlyOfTheBegun'
  <2>1. ASSUME NEW i \in DOMAIN t PROVE t[i].run \in begun
    <3>1. t[i] \in Snaps
      BY <1>4
    <3>2. t[i].run \in Runs /\ SnapsOf(t, t[i].run) # {}
      BY <3>1 DEF Snaps, SnapsOf
    <3> QED BY <3>2, <1>4, InTermsOfSnaps
  <2> QED BY <2>1, <1>1 DEF SnapshotInv, OnlyOfTheBegun
<1>7. RestoreHolds'
  BY <1>1 DEF RestoreHolds, None
<1>8. ASSUME NEW q \in Runs, pending'[q] # None, SnapsOf(t, q) # {}
      PROVE  pending'[q].scope \subseteq EntryPaths(EntriesIn(t, q))
  BY <1>1, <1>4, <1>8 DEF SnapshotInv, ScopesAreCaptured
<1> QED BY <1>4, <1>5, <1>6, <1>7, <1>8, SnapshotsGoOn

-----------------------------------------------------------------------------
(* The theorems.                                                           *)

\* The invariant holds initially and every step keeps it.
THEOREM SnapshotInvariance == SnapshotSpec => []SnapshotInv
<1>1. SnapshotInit => SnapshotInv
  <2> SUFFICES ASSUME SnapshotInit PROVE SnapshotInv
    OBVIOUS
  <2>1. ws \in Trees
    BY TreeAssumption, SnapshotAssumption DEF SnapshotInit, Trees, Values
  <2>2. SnapshotTypeOK
    BY <2>1, SnapshotAssumption DEF SnapshotInit, SnapshotTypeOK
  <2>3. OneSnapshotEach /\ OnlyOfTheBegun /\ SnapshotsHold /\ ScopesAreCaptured
        /\ RestoreHolds
    BY DEF SnapshotInit, OneSnapshotEach, OnlyOfTheBegun, SnapshotsHold,
           ScopesAreCaptured, RestoreHolds
  <2> QED BY <2>2, <2>3 DEF SnapshotInv
<1>2. SnapshotInv /\ [SnapshotNext]_snapshotVars => SnapshotInv'
  <2> SUFFICES ASSUME SnapshotInv, [SnapshotNext]_snapshotVars PROVE SnapshotInv'
    OBVIOUS
  <2>1. ASSUME NEW r \in Runs, Begin(r) PROVE SnapshotInv'
    BY <2>1, BeginKeepsSnapshots
  <2>2. ASSUME NEW r \in Runs, Change(r) PROVE SnapshotInv'
    BY <2>2, ChangeKeepsSnapshots
  <2>3. ASSUME NEW r \in Runs, CrashInCapture(r) PROVE SnapshotInv'
    BY <2>3, CrashesKeepSnapshots
  <2>4. ASSUME NEW r \in Runs,
               \/ \E p \in Paths, c \in Written : Write(r, p, c) \/ Edit(r, p, c)
               \/ \E command \in Commands : Bash(r, command)
        PROVE  SnapshotInv'
    BY <2>4, ToolsKeepSnapshots
  <2>5. CASE Crash
    BY <2>5, CrashesKeepSnapshots
  <2>6. CASE StartRestore
    BY <2>6, StartKeepsSnapshots
  <2>7. CASE RestoreEntry
    BY <2>7, EntryKeepsSnapshots
  <2>8. CASE FinishRestore \/ CrashInRestore \/ CrashInRemoval
    BY <2>8, EndsKeepSnapshots
  <2>9. CASE UNCHANGED snapshotVars
    <3>1. /\ ws' = ws /\ snaps' = snaps /\ going' = going /\ begun' = begun
          /\ pending' = pending /\ changes' = changes /\ restoring' = restoring
          /\ base' = base /\ foreign' = foreign
      BY <2>9 DEF snapshotVars
    <3>2. SnapshotTypeOK'
      BY <3>1 DEF SnapshotInv, SnapshotTypeOK
    <3>3. RestoreHolds'
      BY <3>1, RestoreGoesOn
    <3>4. restoring' # None => restoring'.run \in begun
      BY <3>1 DEF SnapshotInv, OnlyOfTheBegun
    <3> QED BY <3>1, <3>2, <3>3, <3>4, WorkspaceGoesOn
  <2> QED BY <2>1, <2>2, <2>3, <2>4, <2>5, <2>6, <2>7, <2>8, <2>9 DEF SnapshotNext
<1> QED BY <1>1, <1>2, PTL DEF SnapshotSpec

\* The variables have their types, and the workspace is a tree throughout.
THEOREM SnapshotTypeCorrect == SnapshotSpec => []SnapshotTypeOK
<1>1. SnapshotInv => SnapshotTypeOK
  BY DEF SnapshotInv
<1> QED BY <1>1, SnapshotInvariance, PTL

\* While a run has a snapshot, whatever it changed of what it found is in it as it
\* was found: of a file the copy, or the sign that the copy is gone.
THEOREM OriginalsAlwaysKept == SnapshotSpec => []OriginalsAreKept
<1>1. ASSUME SnapshotInv, NEW r \in Runs, SnapOf(r) # {}, NEW p \in Paths, Own(r, p),
             ws[p] # base[r][p]
      PROVE  /\ Covered(EntriesOf(r), p) \/ (ws[p] = Dir /\ base[r][p] = Absent)
             /\ IsFile(base[r][p]) =>
                   \E i \in DOMAIN EntriesOf(r) :
                       /\ EntriesOf(r)[i].path = p
                       /\ EntriesOf(r)[i].was \in {base[r][p], Lost}
  <2>1. Accounted(r, EntriesOf(r), ws)
    BY <1>1, InTermsOfSnaps DEF Holds
  <2>2. CASE base[r][p] # Absent
    <3>1. Keeps(EntriesOf(r), p, base[r][p])
      BY <2>1, <2>2, <1>1 DEF Accounted
    <3> QED BY <3>1 DEF Keeps, Covered
  <2>3. CASE base[r][p] = Absent
    BY <2>1, <2>3, <1>1, SnapshotAssumption DEF Accounted, IsFile
  <2> QED BY <2>2, <2>3
<1>2. SnapshotInv => OriginalsAreKept
  BY <1>1 DEF OriginalsAreKept
<1> QED BY <1>2, SnapshotInvariance, PTL

\* When a restore is done, also one taken up again after it was cut short, every
\* file that its run found is as the run found it.
THEOREM RestoreAlwaysUndoes == SnapshotSpec => RestoreUndoesRun
<1>1. ASSUME SnapshotInv, FinishRestore, NEW p \in Paths,
             Own(restoring.run, p), IsFile(base[restoring.run][p])
      PROVE  ws[p] = base[restoring.run][p]
  <2>1. /\ restoring \in Restores /\ restoring.next > Len(restoring.entries)
        /\ \/ ws[p] = base[restoring.run][p]
           \/ \E i \in DOMAIN restoring.entries :
                 i >= restoring.next /\ restoring.entries[i].path = p
    BY <1>1, InTermsOfSnaps DEF FinishRestore, SnapshotInv, RestoreHolds
  <2>2. \A i \in DOMAIN restoring.entries : ~(i >= restoring.next)
    BY <2>1 DEF Restores
  <2> QED BY <2>1, <2>2
<1>2. SnapshotInv =>
        [FinishRestore =>
          \A p \in Paths :
              LET r == restoring.run IN
              Own(r, p) /\ IsFile(base[r][p]) => ws[p] = base[r][p]]_snapshotVars
  BY <1>1
<1> QED BY <1>2, SnapshotInvariance, PTL DEF RestoreUndoesRun

\* A restore changes nothing but what its manifest has, what lies below that, and
\* the directories above it that are missing.
THEOREM RestoreAlwaysLeavesTheRest == SnapshotSpec => RestoreLeavesTheRest
<1>1. ASSUME SnapshotInv, StartRestore, NEW p \in Paths, ws'[p] # ws[p]
      PROVE  restoring = None /\ Covered(restoring'.entries, p)
  <2>1. PICK M : M = Last(snaps).entries
    OBVIOUS
  <2>2. restoring = None /\ restoring'.entries = M /\ ws' = RemoveUnexpected(ws, M)
    BY <1>1, <2>1 DEF StartRestore
  <2>3. M \in Seq(Entries) /\ ws \in Trees
    <3>1. Len(snaps) \in DOMAIN snaps /\ M = snaps[Len(snaps)].entries /\ snaps \in Seq(Snaps)
      BY <1>1, <2>1, InTermsOfSnaps DEF StartRestore, Last
    <3>2. snaps[Len(snaps)] \in Snaps
      BY <3>1
    <3> QED BY <1>1, <3>1, <3>2 DEF Snaps, SnapshotInv, SnapshotTypeOK
  <2>4. PICK d \in EntryPaths(M) : p \in Below(d)
    BY <1>1, <2>2, <2>3, UnexpectedIs
  <2> QED BY <2>2, <2>4 DEF Covered, EntryPaths
<1>2. ASSUME SnapshotInv, RestoreEntry, NEW p \in Paths, ws'[p] # ws[p]
      PROVE  /\ restoring # None
             /\ \/ Covered(restoring.entries, p)
                \/ ws'[p] = Dir
                   /\ \E q \in EntryPaths(restoring.entries) \ {Root} : p \in Above[q]
  <2>1. PICK M, k : M = restoring.entries /\ k = restoring.next
    OBVIOUS
  <2>2. /\ restoring # None /\ M \in Seq(Entries) /\ k \in DOMAIN M /\ ws \in Trees
    <3>1. restoring # None /\ restoring \in Restores
      BY <1>2, InTermsOfSnaps DEF RestoreEntry
    <3> QED BY <1>2, <2>1, <3>1 DEF RestoreEntry, Restores, SnapshotInv, SnapshotTypeOK
  <2>3. PICK e, copy : e = M[k] /\ copy = CopyOf(restoring.run, k, e.path)
    OBVIOUS
  <2>4. \/ CanPutBack(ws, e, copy) /\ ws' = PutBack(ws, e, copy)
        \/ ws' = PlaceMade(ws, e)
    BY <1>2, <2>1, <2>3 DEF RestoreEntry
  <2>5. e \in Entries /\ e.path \in EntryPaths(M)
    BY <2>2, <2>3, EntryPathsAre
  <2>6. Becomes(ws'[p], ws[p], e, copy, p) \/ MadeWay(ws'[p], ws[p], e, p)
    BY <2>2, <2>4, <2>5, PutBackIs, PlaceMadeIs
  <2>7. CASE p = e.path \/ p \in Below(e.path)
    BY <2>7, <2>1, <2>2, <2>5 DEF Covered, EntryPaths
  <2>8. CASE ~(p = e.path \/ p \in Below(e.path))
    BY <2>8, <2>1, <2>2, <2>5, <2>6, <1>2 DEF Becomes, MadeWay
  <2> QED BY <2>7, <2>8
<1>3. SnapshotInv =>
        [StartRestore \/ RestoreEntry =>
          LET entries == IF restoring = None THEN restoring'.entries
                         ELSE restoring.entries
          IN \A p \in Paths :
              \/ ws'[p] = ws[p]
              \/ Covered(entries, p)
              \/ ws'[p] = Dir
                 /\ \E q \in EntryPaths(entries) \ {Root} : p \in Above[q]]_snapshotVars
  BY <1>1, <1>2
<1> QED BY <1>3, SnapshotInvariance, PTL DEF RestoreLeavesTheRest

=============================================================================
