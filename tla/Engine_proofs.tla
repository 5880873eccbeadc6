---------------------------- MODULE Engine_proofs ----------------------------
(* The intake screen and the engine ask an event the same questions, and a    *)
(* published deadline is dated as published and never moved by waiting, for   *)
(* any published questions, forms, calendars and days.                        *)
EXTENDS EventIntake, Deadlines, FiniteSetTheorems, WellFoundedInduction, TLAPS

-----------------------------------------------------------------------------
(* A non-empty set of numbers has a least.                                    *)
LEMMA LeastNumber ==
    ASSUME NEW S \in SUBSET Nat, S # {}
    PROVE  \E n \in S : \A m \in S : n <= m
<1>. DEFINE R == OpToRel(<, Nat)
<1>1. PICK n \in S : \A m \in S : <<m, n>> \notin R
  BY NatLessThanWellFounded, WFMin, Zenon
<1>2. \A m \in S : ~(m < n)
  BY <1>1 DEF OpToRel
<1>. QED BY <1>2

(* The questions asked of these answers: exactly those every clause of which  *)
(* holds of an asked question's answer.                                       *)
Settles(rs, answers, asked) ==
    /\ asked \subseteq DOMAIN rs.def
    /\ \A f \in DOMAIN rs.def :
         f \in asked <=>
            \A term \in rs.def[f].askedWhen :
                term.field \in asked /\ TermHolds(rs, term, AnswerOf(answers, term.field))

(* What is asked has been asked for a reason.                                 *)
Founded(rs, answers, asked) ==
    \A f \in asked : \A term \in rs.def[f].askedWhen :
        term.field \in asked /\ TermHolds(rs, term, AnswerOf(answers, term.field))

-----------------------------------------------------------------------------
(* The passes: from what is asked so far to what is asked in the end.         *)
Pass(rs, answers, asked) == asked \cup NewlyAsked(rs, answers, asked)

Passes(rs, answers, from) ==
    from = [asked \in SUBSET DOMAIN rs.def |->
               IF NewlyAsked(rs, answers, asked) = {} THEN asked
               ELSE from[asked \cup NewlyAsked(rs, answers, asked)]]

LEMMA NewlyAskedAreNew ==
    ASSUME NEW rs, NEW answers, NEW asked \in SUBSET DOMAIN rs.def
    PROVE  /\ NewlyAsked(rs, answers, asked) \in SUBSET DOMAIN rs.def
           /\ NewlyAsked(rs, answers, asked) \cap asked = {}
           /\ Pass(rs, answers, asked) \in SUBSET DOMAIN rs.def
BY DEF NewlyAsked, Pass

(* The sets that passes reach from asked.                                     *)
ReachedBy(rs, answers, asked) ==
    {S \in SUBSET DOMAIN rs.def :
        \A U \in SUBSET SUBSET DOMAIN rs.def :
            asked \in U /\ (\A T \in U : Pass(rs, answers, T) \in U) => S \in U}

LEMMA ReachIsClosed ==
    ASSUME NEW rs, NEW answers, NEW asked \in SUBSET DOMAIN rs.def
    PROVE  /\ asked \in ReachedBy(rs, answers, asked)
           /\ \A T \in ReachedBy(rs, answers, asked) :
                Pass(rs, answers, T) \in ReachedBy(rs, answers, asked)
<1>1. asked \in ReachedBy(rs, answers, asked)
  BY DEF ReachedBy
<1>2. ASSUME NEW T \in ReachedBy(rs, answers, asked)
      PROVE  Pass(rs, answers, T) \in ReachedBy(rs, answers, asked)
  <2>1. T \in SUBSET DOMAIN rs.def
    BY DEF ReachedBy
  <2>2. Pass(rs, answers, T) \in SUBSET DOMAIN rs.def
    BY <2>1, NewlyAskedAreNew, Zenon
  <2>3. ASSUME NEW U \in SUBSET SUBSET DOMAIN rs.def, asked \in U,
               \A V \in U : Pass(rs, answers, V) \in U
        PROVE  Pass(rs, answers, T) \in U
    BY <2>3, Zenon DEF ReachedBy
  <2>. QED BY <2>2, <2>3, Zenon DEF ReachedBy
<1>. QED BY <1>1, <1>2

LEMMA ReachIsLeast ==
    ASSUME NEW rs, NEW answers, NEW asked \in SUBSET DOMAIN rs.def,
           NEW U \in SUBSET SUBSET DOMAIN rs.def,
           asked \in U, \A T \in U : Pass(rs, answers, T) \in U
    PROVE  ReachedBy(rs, answers, asked) \subseteq U
BY Zenon DEF ReachedBy

(* Reached are the set itself and what is reached from its first pass.        *)
LEMMA ReachUnfolds ==
    ASSUME NEW rs, NEW answers, NEW asked \in SUBSET DOMAIN rs.def
    PROVE  ReachedBy(rs, answers, asked) =
             {asked} \cup ReachedBy(rs, answers, Pass(rs, answers, asked))
<1>. DEFINE A == ReachedBy(rs, answers, asked)
            first == Pass(rs, answers, asked)
            B == ReachedBy(rs, answers, first)
<1>1. first \in SUBSET DOMAIN rs.def
  BY NewlyAskedAreNew, Zenon
<1>2. A \in SUBSET SUBSET DOMAIN rs.def /\ B \in SUBSET SUBSET DOMAIN rs.def
  BY DEF ReachedBy
<1>3. A \subseteq {asked} \cup B
  <2>1. {asked} \cup B \in SUBSET SUBSET DOMAIN rs.def
    BY <1>2
  <2>2. first \in B /\ \A T \in B : Pass(rs, answers, T) \in B
    BY <1>1, ReachIsClosed, Zenon
  <2>3. \A T \in {asked} \cup B : Pass(rs, answers, T) \in {asked} \cup B
    BY <2>2
  <2>4. asked \in {asked} \cup B
    OBVIOUS
  <2>. HIDE DEF A, B
  <2>. QED BY <2>1, <2>3, <2>4, ReachIsLeast, Zenon DEF A
<1>4. asked \in A /\ first \in A /\ \A T \in A : Pass(rs, answers, T) \in A
  BY ReachIsClosed, Zenon
<1>5. B \subseteq A
  BY <1>1, <1>2, <1>4, ReachIsLeast, Zenon
<1>. QED BY <1>3, <1>4, <1>5

(* So there is a function that passes until nothing is new.                   *)
LEMMA PassesExist ==
    ASSUME NEW rs, NEW answers
    PROVE  \E from : Passes(rs, answers, from)
<1>. DEFINE from == [asked \in SUBSET DOMAIN rs.def |-> UNION ReachedBy(rs, answers, asked)]
<1>1. ASSUME NEW asked \in SUBSET DOMAIN rs.def, NewlyAsked(rs, answers, asked) = {}
      PROVE  UNION ReachedBy(rs, answers, asked) = asked
  <2>1. Pass(rs, answers, asked) = asked
    BY <1>1 DEF Pass
  <2>2. {asked} \in SUBSET SUBSET DOMAIN rs.def
    OBVIOUS
  <2>3. ReachedBy(rs, answers, asked) \subseteq {asked}
    BY <2>1, <2>2, ReachIsLeast
  <2>4. asked \in ReachedBy(rs, answers, asked)
    BY ReachIsClosed, Zenon
  <2>. QED BY <2>3, <2>4
<1>2. ASSUME NEW asked \in SUBSET DOMAIN rs.def
      PROVE  UNION ReachedBy(rs, answers, asked) =
               UNION ReachedBy(rs, answers, asked \cup NewlyAsked(rs, answers, asked))
  <2>. DEFINE first == Pass(rs, answers, asked)
  <2>1. first \in SUBSET DOMAIN rs.def /\ asked \subseteq first
    BY NewlyAskedAreNew DEF Pass
  <2>2. first \in ReachedBy(rs, answers, first)
    BY <2>1, ReachIsClosed, Zenon
  <2>3. ReachedBy(rs, answers, asked) = {asked} \cup ReachedBy(rs, answers, first)
    BY ReachUnfolds, Zenon
  <2>4. UNION ReachedBy(rs, answers, asked) = UNION ReachedBy(rs, answers, first)
    <3>. HIDE DEF first
    <3>. QED BY <2>1, <2>2, <2>3
  <2>. QED BY <2>4 DEF Pass
<1>3. from = [asked \in SUBSET DOMAIN rs.def |->
                IF NewlyAsked(rs, answers, asked) = {} THEN asked
                ELSE from[asked \cup NewlyAsked(rs, answers, asked)]]
  <2>1. \A asked \in SUBSET DOMAIN rs.def :
          asked \cup NewlyAsked(rs, answers, asked) \in SUBSET DOMAIN rs.def
    BY NewlyAskedAreNew DEF Pass
  <2>. QED BY <1>1, <1>2, <2>1
<1>. QED BY <1>3 DEF Passes

LEMMA AskedIsWherePassesEnd ==
    ASSUME NEW rs, NEW answers
    PROVE  \E from : Passes(rs, answers, from) /\ AskedFieldNames(rs, answers) = from[{}]
<1>. DEFINE from == CHOOSE g : Passes(rs, answers, g)
<1>1. Passes(rs, answers, from)
  BY PassesExist, Zenon
<1>2. AskedFieldNames(rs, answers) = from[{}]
  BY Zenon DEF AskedFieldNames, Passes
<1>. QED BY <1>1, <1>2

-----------------------------------------------------------------------------
(* Every pass asks with reason, and the last one leaves nothing to ask.       *)
LEMMA PassesAreFounded ==
    ASSUME NEW rs, NEW answers, NEW asked \in SUBSET DOMAIN rs.def, Founded(rs, answers, asked)
    PROVE  Founded(rs, answers, Pass(rs, answers, asked))
BY DEF Founded, Pass, NewlyAsked

LEMMA NothingNewSettles ==
    ASSUME NEW rs, NEW answers, NEW asked \in SUBSET DOMAIN rs.def,
           Founded(rs, answers, asked), NewlyAsked(rs, answers, asked) = {}
    PROVE  Settles(rs, answers, asked)
BY DEF Founded, Settles, NewlyAsked

LEMMA PassesSettle ==
    ASSUME NEW rs, NEW answers, NEW from, IsFiniteSet(DOMAIN rs.def), Passes(rs, answers, from)
    PROVE  Settles(rs, answers, from[{}])
<1>. DEFINE D == DOMAIN rs.def
            Bad == {a \in SUBSET D : Founded(rs, answers, a) /\ ~Settles(rs, answers, from[a])}
            Left(a) == Cardinality(D \ a)
<1>1. \A a \in SUBSET D : IsFiniteSet(D \ a) /\ Left(a) \in Nat
  BY FS_Subset, FS_CardinalityType
<1>2. SUFFICES ASSUME Bad # {} PROVE FALSE
  <2>1. {} \in SUBSET D /\ Founded(rs, answers, {})
    BY DEF Founded
  <2>. QED BY <1>2, <2>1
<1>3. PICK a \in Bad : \A b \in Bad : Left(a) <= Left(b)
  <2>. DEFINE Sizes == {Left(b) : b \in Bad}
  <2>1. Sizes \in SUBSET Nat /\ Sizes # {}
    BY <1>1, <1>2
  <2>2. PICK n \in Sizes : \A m \in Sizes : n <= m
    <3>. HIDE DEF Sizes
    <3>. QED BY <2>1, LeastNumber, Zenon
  <2>. QED BY <2>2
<1>. DEFINE b == Pass(rs, answers, a)
<1>4. a \in SUBSET D /\ Founded(rs, answers, a) /\ ~Settles(rs, answers, from[a])
  OBVIOUS
<1>5. from[a] = IF NewlyAsked(rs, answers, a) = {} THEN a ELSE from[b]
  BY <1>4 DEF Passes, Pass
<1>6. NewlyAsked(rs, answers, a) # {}
  BY <1>4, <1>5, NothingNewSettles, Zenon
<1>7. b \in SUBSET D /\ Founded(rs, answers, b)
  BY <1>4, NewlyAskedAreNew, PassesAreFounded, Zenon
<1>8. b \in Bad
  BY <1>4, <1>5, <1>6, <1>7
<1>9. D \ b \subseteq D \ a /\ D \ b # D \ a
  BY <1>4, <1>6, NewlyAskedAreNew DEF Pass
<1>10. Left(b) < Left(a)
  <2>1. D \ b \in SUBSET (D \ a)
    BY <1>9
  <2>2. IsFiniteSet(D \ a) /\ Left(a) \in Nat /\ Left(b) \in Nat
    BY <1>1, <1>4, <1>7
  <2>3. Left(b) <= Left(a) /\ (Left(a) = Left(b) => D \ a = D \ b)
    BY <2>1, <2>2, FS_Subset, Zenon
  <2>4. Left(a) # Left(b)
    BY <1>9, <2>3
  <2>. DEFINE m == Left(a)  n == Left(b)
  <2>5. m \in Nat /\ n \in Nat /\ n <= m /\ m # n
    BY <2>2, <2>3, <2>4
  <2>6. n < m
    <3>. HIDE DEF m, n
    <3>. QED BY <2>5
  <2>. QED BY <2>6
<1>11. Left(a) <= Left(b)
  <2>. HIDE DEF Bad, Left, b
  <2>. QED BY <1>3, <1>8
<1>. DEFINE m == Left(a)  n == Left(b)
<1>12. m \in Nat /\ n \in Nat /\ n < m /\ m <= n
  BY <1>1, <1>4, <1>7, <1>10, <1>11
<1>. HIDE DEF m, n
<1>. QED BY <1>12

(* Where the intake screen stops, every question is settled.                  *)
LEMMA AskedFieldsSettle ==
    ASSUME NEW rs, NEW answers, IsFiniteSet(DOMAIN rs.def)
    PROVE  Settles(rs, answers, AskedFieldNames(rs, answers))
BY AskedIsWherePassesEnd, PassesSettle, Zenon

-----------------------------------------------------------------------------
(* Questions a reader accepts are settled in one way only.                    *)
LEMMA OneSettlement ==
    ASSUME NEW rs, ScopingIsRead(rs), NEW answers, NEW row,
           \A f \in DOMAIN rs.def : AnswerOf(answers, f) = AnswerOf(row, f),
           NEW A, Settles(rs, answers, A), NEW B, Settles(rs, row, B)
    PROVE  A = B
<1>. DEFINE D == DOMAIN rs.def
            differ == {f \in D : (f \in A) # (f \in B)}
<1>1. SUFFICES ASSUME differ # {} PROVE FALSE
  <2>1. A \subseteq D /\ B \subseteq D
    BY DEF Settles
  <2>. QED BY <1>1, <2>1
<1>2. PICK f \in differ : \A c \in rs.def[f].askedWhen : c.field \notin differ
  <2>1. differ \in (SUBSET D) \ {{}}
    BY <1>1
  <2>2. ~ScopingIsCyclic(rs)
    BY DEF ScopingIsRead
  <2>. HIDE DEF differ
  <2>. QED BY <2>1, <2>2, Zenon DEF ScopingIsCyclic
<1>3. \A c \in rs.def[f].askedWhen : c.field \in D /\ (c.field \in A <=> c.field \in B)
  BY <1>2 DEF ScopingIsRead, ClauseIsUsable
<1>4. f \in A <=> f \in B
  <2>1. f \in D
    OBVIOUS
  <2>2. f \in A <=> \A c \in rs.def[f].askedWhen :
                        c.field \in A /\ TermHolds(rs, c, AnswerOf(answers, c.field))
    BY <2>1, Zenon DEF Settles
  <2>3. f \in B <=> \A c \in rs.def[f].askedWhen :
                        c.field \in B /\ TermHolds(rs, c, AnswerOf(row, c.field))
    BY <2>1, Zenon DEF Settles
  <2>4. \A c \in rs.def[f].askedWhen :
            TermHolds(rs, c, AnswerOf(answers, c.field)) = TermHolds(rs, c, AnswerOf(row, c.field))
    BY <1>3
  <2>. QED BY <1>3, <2>2, <2>3, <2>4
<1>. QED BY <1>2, <1>4

-----------------------------------------------------------------------------
(* The questions as a reader has them.                                        *)
QuestionsRead(rs) ==
    /\ Null # TRUE /\ ScopingIsRead(rs) /\ IsFiniteSet(DOMAIN rs.def)
    /\ \A f \in DOMAIN rs.def : \A c \in rs.def[f].askedWhen : IsClause(rs, c)

(* A clause reads the same to the screen and to the engine, and never holds   *)
(* of a question that is not asked.                                           *)
LEMMA ClausesReadAlike ==
    ASSUME NEW rs, QuestionsRead(rs), NEW c, IsClause(rs, c)
    PROVE  /\ ~ClauseHolds(rs, c, Null)
           /\ \A value : TermHolds(rs, c, value) <=> ClauseHolds(rs, c, value)
<1>1. CASE c.kind = "member" /\ IsList(rs, c.field)
  BY <1>1 DEF ClauseHolds, TermHolds
<1>2. CASE c.kind = "in" /\ Null \notin c.values
  BY <1>2 DEF ClauseHolds, TermHolds
<1>3. CASE c.kind = "compare" /\ c.value # Null
  BY <1>3 DEF ClauseHolds, TermHolds, Compared
<1>4. CASE c.kind = "at_least"
  BY <1>4 DEF ClauseHolds, TermHolds
<1>5. CASE c.kind = "truthy"
  BY <1>5 DEF ClauseHolds, TermHolds, QuestionsRead
<1>. QED BY <1>1, <1>2, <1>3, <1>4, <1>5 DEF IsClause

(* What the engine's resolver has to satisfy.                                 *)
Resolves(rs, row, inScope) ==
    inScope = [field \in DOMAIN rs.def |->
                  \A clause \in rs.def[field].askedWhen :
                      ClauseHolds(rs, clause,
                          IF inScope[clause.field] THEN row[clause.field] ELSE Null)]

LEMMA ScopeIsResolved ==
    ASSUME NEW rs, QuestionsRead(rs), NEW row, DOMAIN rs.def \subseteq DOMAIN row
    PROVE  \E inScope : /\ Resolves(rs, row, inScope)
                        /\ ScopeOf(rs, row) = {field \in DOMAIN rs.def : inScope[field]}
<1>. DEFINE D == DOMAIN rs.def
            A == AskedFieldNames(rs, row)
            byPasses == [f \in D |-> f \in A]
<1>1. Settles(rs, row, A)
  BY AskedFieldsSettle, Zenon DEF QuestionsRead
<1>2. ASSUME NEW f \in D
      PROVE  f \in A <=> \A clause \in rs.def[f].askedWhen :
                            ClauseHolds(rs, clause,
                                IF byPasses[clause.field] THEN row[clause.field] ELSE Null)
  <2>1. \A c \in rs.def[f].askedWhen : IsClause(rs, c) /\ c.field \in D
    BY DEF QuestionsRead, IsClause
  <2>2. \A c \in rs.def[f].askedWhen : AnswerOf(row, c.field) = row[c.field]
    BY <2>1 DEF AnswerOf
  <2>3. \A c \in rs.def[f].askedWhen :
          (c.field \in A /\ TermHolds(rs, c, row[c.field]))
            <=> ClauseHolds(rs, c, IF c.field \in A THEN row[c.field] ELSE Null)
    BY <2>1, ClausesReadAlike
  <2>4. \A c \in rs.def[f].askedWhen : byPasses[c.field] = (c.field \in A)
    BY <2>1
  <2>5. f \in A <=> \A c \in rs.def[f].askedWhen :
                        c.field \in A /\ TermHolds(rs, c, AnswerOf(row, c.field))
    BY <1>1, Zenon DEF Settles
  <2>. HIDE DEF byPasses
  <2>. QED BY <2>2, <2>3, <2>4, <2>5
<1>3. Resolves(rs, row, byPasses)
  <2>. DEFINE all == [field \in D |->
                        \A clause \in rs.def[field].askedWhen :
                            ClauseHolds(rs, clause,
                                IF byPasses[clause.field] THEN row[clause.field] ELSE Null)]
  <2>1. ASSUME NEW f \in D PROVE byPasses[f] = all[f]
    <3>1. byPasses[f] = (f \in A)
      OBVIOUS
    <3>. HIDE DEF byPasses
    <3>2. all[f] = \A clause \in rs.def[f].askedWhen :
                     ClauseHolds(rs, clause,
                         IF byPasses[clause.field] THEN row[clause.field] ELSE Null)
      OBVIOUS
    <3>3. f \in A <=> \A clause \in rs.def[f].askedWhen :
                        ClauseHolds(rs, clause,
                            IF byPasses[clause.field] THEN row[clause.field] ELSE Null)
      BY <1>2, Zenon
    <3>. DEFINE holds == \A clause \in rs.def[f].askedWhen :
                            ClauseHolds(rs, clause,
                                IF byPasses[clause.field] THEN row[clause.field] ELSE Null)
    <3>4. holds \in BOOLEAN /\ (f \in A <=> holds) /\ all[f] = holds
      BY <3>2, <3>3, Zenon
    <3>. HIDE DEF all, holds
    <3>. QED BY <3>1, <3>4
  <2>. QED BY <2>1 DEF Resolves
<1>. DEFINE inScope == CHOOSE g : Resolves(rs, row, g)
<1>4. Resolves(rs, row, inScope)
  BY <1>3, Zenon
<1>5. ScopeOf(rs, row) = {field \in DOMAIN rs.def : inScope[field]}
  BY Zenon DEF ScopeOf, Resolves
<1>. QED BY <1>4, <1>5

LEMMA ScopeSettles ==
    ASSUME NEW rs, QuestionsRead(rs), NEW row, DOMAIN rs.def \subseteq DOMAIN row
    PROVE  Settles(rs, row, ScopeOf(rs, row))
<1>. DEFINE D == DOMAIN rs.def
            S == ScopeOf(rs, row)
<1>1. PICK inScope : Resolves(rs, row, inScope) /\ S = {field \in D : inScope[field]}
  BY ScopeIsResolved, Zenon
<1>2. ASSUME NEW f \in D
      PROVE  f \in S <=> \A c \in rs.def[f].askedWhen :
                            c.field \in S /\ TermHolds(rs, c, AnswerOf(row, c.field))
  <2>1. \A c \in rs.def[f].askedWhen : IsClause(rs, c) /\ c.field \in D
    BY DEF QuestionsRead, IsClause
  <2>2. \A c \in rs.def[f].askedWhen : AnswerOf(row, c.field) = row[c.field]
    BY <2>1 DEF AnswerOf
  <2>3. f \in S <=> \A c \in rs.def[f].askedWhen :
                        ClauseHolds(rs, c, IF inScope[c.field] THEN row[c.field] ELSE Null)
    BY <1>1 DEF Resolves
  <2>4. \A c \in rs.def[f].askedWhen : c.field \in S <=> inScope[c.field]
    BY <1>1, <2>1
  <2>5. \A c \in rs.def[f].askedWhen :
          (c.field \in S /\ TermHolds(rs, c, row[c.field]))
            <=> ClauseHolds(rs, c, IF inScope[c.field] THEN row[c.field] ELSE Null)
    BY <2>1, <2>4, ClausesReadAlike
  <2>. HIDE DEF S
  <2>. QED BY <2>2, <2>3, <2>5
<1>. QED BY <1>1, <1>2 DEF Settles

-----------------------------------------------------------------------------
(* A row answers what both of them ask.                                       *)
AnswersWhatIsAsked(rs, row) ==
    LET asked == AskedFieldNames(rs, row)
    IN  /\ asked = ScopeOf(rs, row)
        /\ \A f \in DOMAIN rs.def :
               IF f \in asked THEN row[f] # Null \/ rs.def[f].nullable
                              ELSE row[f] = Null

(* A submission without errors: what it provides, and the row it makes.       *)
Provides(rs, submission) ==
    [f \in {c \in IntakeColumnNames(rs) : IsProvided(submission, c)} |-> submission[f]]

LEMMA ValidSubmissions ==
    ASSUME NEW rs, NEW submission, NEW day,
           ValidateIntake(rs, submission, day).values # Null
    PROVE  LET answers == Provides(rs, submission)
               asked == AskedFieldNames(rs, answers)
           IN  /\ ValidateIntake(rs, submission, day).values =
                     [f \in IntakeColumnNames(rs) |-> AnswerOf(answers, f)]
               /\ \A f \in DOMAIN rs.def \ asked : ~IsProvided(submission, f)
               /\ \A f \in asked : IsProvided(submission, f) \/ rs.def[f].nullable
<1>. DEFINE columns == IntakeColumnNames(rs)
            unread == {f \in columns \cap DOMAIN submission :
                          IsProvided(submission, f) /\ ~Fits(rs, f, submission[f])}
            answers == [f \in {c \in columns \ unread : IsProvided(submission, c)} |->
                           submission[f]]
            asked == AskedFieldNames(rs, answers)
            notAsked == {<<f, "not_applicable">> :
                           f \in {g \in DOMAIN rs.def \ asked : IsProvided(submission, g)}}
            missing == {<<f, "required">> :
                          f \in {g \in asked : ~IsProvided(submission, g) /\ ~rs.def[g].nullable}
                                \cup {g \in {"name"} : ~IsProvided(submission, g)}}
            badlyRead == {<<f, "invalid_value">> : f \in unread}
            values == ValidateIntake(rs, submission, day).values
<1>1. \E others : values = IF badlyRead \cup notAsked \cup missing \cup others # {} THEN Null
                          ELSE [f \in columns |-> AnswerOf(answers, f)]
  <2>. DEFINE unknown == {<<f, "unknown_field">> : f \in DOMAIN submission \ columns}
              notPositive == {<<f, "must_be_positive">> :
                     f \in {g \in {"headcount"} \cap DOMAIN answers : answers[g] <= 0}}
              past == {<<f, "in_the_past">> :
                     f \in {g \in {"event_date"} \cap DOMAIN answers : answers[g] < day}}
              errors == unknown \cup badlyRead \cup notAsked \cup missing \cup notPositive \cup past
              others == unknown \cup notPositive \cup past
  <2>1. values = IF errors # {} THEN Null ELSE [f \in columns |-> AnswerOf(answers, f)]
    BY DEF ValidateIntake
  <2>2. errors = badlyRead \cup notAsked \cup missing \cup others
    <3>. HIDE DEF unknown, badlyRead, notAsked, missing, notPositive, past
    <3>. QED OBVIOUS
  <2>. HIDE DEF errors, others, badlyRead, notAsked, missing, values
  <2>. QED BY <2>1, <2>2
<1>2. /\ values = [f \in columns |-> AnswerOf(answers, f)]
      /\ badlyRead = {} /\ notAsked = {} /\ missing = {}
  <2>. HIDE DEF badlyRead, notAsked, missing, columns, answers
  <2>. QED BY <1>1
<1>3. unread = {}
  <2>. HIDE DEF unread
  <2>. QED BY <1>2
<1>4. answers = Provides(rs, submission)
  <2>. HIDE DEF unread
  <2>. QED BY <1>3 DEF Provides
<1>5. \A f \in DOMAIN rs.def \ asked : ~IsProvided(submission, f)
  <2>. HIDE DEF asked
  <2>. QED BY <1>2
<1>6. \A f \in asked : IsProvided(submission, f) \/ rs.def[f].nullable
  <2>. HIDE DEF asked
  <2>. QED BY <1>2
<1>. HIDE DEF answers, columns, values
<1>. QED BY <1>2, <1>4, <1>5, <1>6 DEF columns, values

LEMMA ValidRowsAnswerWhatIsAsked ==
    ASSUME NEW rs, QuestionsRead(rs), NEW submission, NEW day,
           ValidateIntake(rs, submission, day).values # Null
    PROVE  AnswersWhatIsAsked(rs, ValidateIntake(rs, submission, day).values)
<1>. DEFINE answers == Provides(rs, submission)
            asked == AskedFieldNames(rs, answers)
            row == [f \in IntakeColumnNames(rs) |-> AnswerOf(answers, f)]
<1>1. /\ ValidateIntake(rs, submission, day).values = row
      /\ \A f \in DOMAIN rs.def \ asked : ~IsProvided(submission, f)
      /\ \A f \in asked : IsProvided(submission, f) \/ rs.def[f].nullable
  BY ValidSubmissions
<1>2. /\ DOMAIN row = IntakeColumnNames(rs) /\ DOMAIN rs.def \subseteq DOMAIN row
      /\ \A f \in DOMAIN rs.def : AnswerOf(row, f) = row[f] /\ row[f] = AnswerOf(answers, f)
  BY DEF IntakeColumnNames, AnswerOf
<1>3. \A f \in DOMAIN rs.def : row[f] # Null <=> IsProvided(submission, f)
  BY <1>2 DEF IntakeColumnNames, AnswerOf, Provides, IsProvided
<1>. HIDE DEF row, answers
<1>4. /\ Settles(rs, answers, asked) /\ Settles(rs, row, AskedFieldNames(rs, row))
      /\ Settles(rs, row, ScopeOf(rs, row))
  BY <1>2, AskedFieldsSettle, ScopeSettles, Zenon DEF QuestionsRead
<1>5. asked = ScopeOf(rs, row) /\ AskedFieldNames(rs, row) = ScopeOf(rs, row)
  <2>1. ScopingIsRead(rs)
    BY DEF QuestionsRead
  <2>2. \A f \in DOMAIN rs.def : AnswerOf(answers, f) = AnswerOf(row, f)
    BY <1>2
  <2>. QED BY <1>4, <2>1, <2>2, OneSettlement, Zenon
<1>6. asked \subseteq DOMAIN rs.def
  BY <1>4 DEF Settles
<1>. HIDE DEF asked
<1>7. \A f \in DOMAIN rs.def : IF f \in asked THEN row[f] # Null \/ rs.def[f].nullable
                                              ELSE row[f] = Null
  BY <1>1, <1>3
<1>. QED BY <1>1, <1>5, <1>7 DEF AnswersWhatIsAsked

-----------------------------------------------------------------------------
IInv == QuestionsRead(rules) /\ StoredAnswersAreAskedAlike

LEMMA InitEstablishesIInv == ASSUME IntakeInit PROVE IInv
<1>1. PICK rs \in Artifacts : ScopingIsRead(rs) /\ rules.def = rs.def
  BY DEF IntakeInit
<1>2. ScopingIsRead(rules)
  BY <1>1 DEF ScopingIsRead, ScopingIsCyclic, ClauseIsUsable
<1>3. QuestionsRead(rules)
  BY <1>1, <1>2, QuestionsAssumption DEF QuestionsRead, IsClause, IsList
<1>. QED BY <1>3 DEF IInv, IntakeInit, StoredAnswersAreAskedAlike

(* The row is only ever one that validateIntake made.                         *)
LEMMA NextKeepsIInv == ASSUME IInv, IntakeNext PROVE IInv'
<1>1. ASSUME NEW submission,
             ValidateIntake(rules, submission, today).values # Null,
             stored' = ValidateIntake(rules, submission, today).values,
             UNCHANGED <<rules, today>>
      PROVE  IInv'
  <2>1. AnswersWhatIsAsked(rules, stored')
    BY <1>1, ValidRowsAnswerWhatIsAsked, Zenon DEF IInv
  <2>. QED BY <1>1, <2>1 DEF IInv, StoredAnswersAreAskedAlike, AnswersWhatIsAsked
<1>2. ASSUME NEW form, Create(form) PROVE IInv'
  BY <1>1, <1>2 DEF Create
<1>3. ASSUME NEW submission, Edit(submission) PROVE IInv'
  BY <1>1, <1>3 DEF Edit
<1>4. ASSUME DayPasses PROVE IInv'
  BY <1>4 DEF DayPasses, IInv, StoredAnswersAreAskedAlike
<1>. QED BY <1>2, <1>3, <1>4 DEF IntakeNext

(* For any published questions whose chains are acyclic, any forms, answers   *)
(* and edits: the screen's passes and the engine's resolver find the same     *)
(* questions asked of every stored row, and the row answers exactly these     *)
(* (visibility.ts askedFields, conditions.ts createScopeResolver,             *)
(* validate.ts validateIntake).                                               *)
THEOREM ScreenAndEngineAskAlike == IntakeSpec => []StoredAnswersAreAskedAlike
<1>1. ASSUME IInv, UNCHANGED intakeVars PROVE IInv'
  BY <1>1 DEF intakeVars, IInv, StoredAnswersAreAskedAlike
<1>2. IInv /\ [IntakeNext]_intakeVars => IInv'
  BY <1>1, NextKeepsIInv
<1>3. IInv => StoredAnswersAreAskedAlike
  BY DEF IInv
<1>. QED BY <1>2, <1>3, InitEstablishesIInv, PTL DEF IntakeSpec

-----------------------------------------------------------------------------
(* Business days counted back from a date. A list of holidays begins on some  *)
(* day.                                                                       *)
HolidaysAreListed(calendar) ==
    /\ calendar.holidays \subseteq Int
    /\ \E first \in Int : \A day \in calendar.holidays : first <= day

BusinessDays(first, date, calendar) ==
    {day \in first .. date - 1 : IsBusinessDay(day, calendar)}

(* The day that so many business days, and no more, separate from date: a     *)
(* business day itself, so that no later day has as many.                     *)
LeavesExactly(day, date, n, calendar) ==
    /\ day <= date
    /\ Cardinality(BusinessDays(day, date, calendar)) = n
    /\ IF n = 0 THEN day = date ELSE IsBusinessDay(day, calendar)

LEMMA BusinessDaysAreCounted ==
    ASSUME NEW calendar, NEW first \in Int, NEW date \in Int
    PROVE  /\ IsFiniteSet(BusinessDays(first, date, calendar))
           /\ Cardinality(BusinessDays(first, date, calendar)) \in Nat
<1>1. IsFiniteSet(first .. date - 1)
  BY FS_Interval
<1>2. BusinessDays(first, date, calendar) \in SUBSET (first .. date - 1)
  BY DEF BusinessDays
<1>3. IsFiniteSet(BusinessDays(first, date, calendar))
  BY <1>1, <1>2, FS_Subset, Zenon
<1>. QED BY <1>3, FS_CardinalityType, Zenon

(* The day before the date counts when it is a business day.                  *)
LEMMA TheDayBefore ==
    ASSUME NEW calendar, NEW date \in Int, NEW first \in Int, first < date
    PROVE  Cardinality(BusinessDays(first, date, calendar)) =
             Cardinality(BusinessDays(first, date - 1, calendar))
               + (IF IsBusinessDay(date - 1, calendar) THEN 1 ELSE 0)
<1>. DEFINE before == BusinessDays(first, date - 1, calendar)
<1>1. IsFiniteSet(before) /\ Cardinality(before) \in Nat
  BY BusinessDaysAreCounted
<1>2. date - 1 \notin before
  BY DEF BusinessDays
<1>3. CASE IsBusinessDay(date - 1, calendar)
  <2>1. BusinessDays(first, date, calendar) = before \cup {date - 1}
    BY <1>3 DEF BusinessDays
  <2>. HIDE DEF before
  <2>2. Cardinality(before \cup {date - 1}) = Cardinality(before) + 1
    BY <1>1, <1>2, FS_AddElement, Zenon
  <2>. QED BY <1>3, <2>1, <2>2 DEF before
<1>4. CASE ~IsBusinessDay(date - 1, calendar)
  <2>1. BusinessDays(first, date, calendar) = before
    BY <1>4 DEF BusinessDays
  <2>. HIDE DEF before
  <2>. QED BY <1>1, <1>4, <2>1 DEF before
<1>. QED BY <1>3, <1>4

(* No day after it leaves as many.                                            *)
LEMMA NoLaterDayLeavesAsMany ==
    ASSUME NEW calendar, NEW date \in Int, NEW n \in Nat, NEW day \in Int,
           LeavesExactly(day, date, n, calendar),
           NEW later \in Int, later <= date,
           Cardinality(BusinessDays(later, date, calendar)) >= n
    PROVE  later <= day
<1>. SUFFICES ASSUME day < later PROVE FALSE
  OBVIOUS
<1>. DEFINE many == BusinessDays(day, date, calendar)
            few  == BusinessDays(later, date, calendar)
<1>1. n # 0 /\ IsBusinessDay(day, calendar)
  BY DEF LeavesExactly
<1>2. few \in SUBSET many /\ day \in many /\ day \notin few
  BY <1>1 DEF BusinessDays
<1>3. IsFiniteSet(many) /\ Cardinality(many) = n /\ Cardinality(few) \in Nat
  BY BusinessDaysAreCounted DEF LeavesExactly
<1>. HIDE DEF many, few
<1>4. Cardinality(few) <= n /\ Cardinality(few) # n
  BY <1>2, <1>3, FS_Subset
<1>. QED BY <1>3, <1>4 DEF few

LEMMA OneDayLeavesExactly ==
    ASSUME NEW calendar, NEW date \in Int, NEW n \in Nat, NEW a \in Int, NEW b \in Int,
           LeavesExactly(a, date, n, calendar), LeavesExactly(b, date, n, calendar)
    PROVE  a = b
<1>1. a <= b
  BY NoLaterDayLeavesAsMany DEF LeavesExactly
<1>2. b <= a
  BY NoLaterDayLeavesAsMany DEF LeavesExactly
<1>. QED BY <1>1, <1>2

(* One step of the count: from date to the day before it.                     *)
Left(date, n, calendar) == IF IsBusinessDay(date - 1, calendar) THEN n - 1 ELSE n

LEMMA OneDayBack ==
    ASSUME NEW calendar, NEW date \in Int, NEW n \in Nat, n # 0, NEW day \in Int
    PROVE  LeavesExactly(day, date, n, calendar)
             <=> LeavesExactly(day, date - 1, Left(date, n, calendar), calendar)
<1>. DEFINE left == Left(date, n, calendar)
            many == Cardinality(BusinessDays(day, date, calendar))
            few  == Cardinality(BusinessDays(day, date - 1, calendar))
<1>1. many \in Nat /\ few \in Nat
  BY BusinessDaysAreCounted
<1>2. day < date => many = few + (IF IsBusinessDay(date - 1, calendar) THEN 1 ELSE 0)
  BY TheDayBefore
<1>3. day = date => many = 0
  <2>1. day = date => BusinessDays(day, date, calendar) = {}
    BY DEF BusinessDays
  <2>. QED BY <2>1, FS_EmptySet
<1>4. few = 0 /\ day < date - 1 => ~IsBusinessDay(day, calendar)
  <2>1. day < date - 1 /\ IsBusinessDay(day, calendar)
          => day \in BusinessDays(day, date - 1, calendar)
    BY DEF BusinessDays
  <2>2. few = 0 => BusinessDays(day, date - 1, calendar) = {}
    BY BusinessDaysAreCounted, FS_EmptySet
  <2>. QED BY <2>1, <2>2
<1>5. LeavesExactly(day, date, n, calendar)
        <=> day <= date /\ many = n /\ IsBusinessDay(day, calendar)
  BY DEF LeavesExactly
<1>6. LeavesExactly(day, date - 1, left, calendar)
        <=> /\ day <= date - 1 /\ few = left
            /\ IF left = 0 THEN day = date - 1 ELSE IsBusinessDay(day, calendar)
  BY DEF LeavesExactly
<1>7. /\ IsBusinessDay(date - 1, calendar) => left = n - 1
      /\ ~IsBusinessDay(date - 1, calendar) => left = n
  BY DEF Left
<1>. HIDE DEF many, few, left
<1>8. CASE IsBusinessDay(date - 1, calendar)
  BY <1>1, <1>2, <1>3, <1>4, <1>5, <1>6, <1>7, <1>8 DEF left
<1>9. CASE ~IsBusinessDay(date - 1, calendar)
  BY <1>1, <1>2, <1>3, <1>4, <1>5, <1>6, <1>7, <1>9 DEF left
<1>. QED BY <1>8, <1>9

(* There always is a business day further back.                               *)
LEMMA ABusinessDayBefore ==
    ASSUME NEW calendar, HolidaysAreListed(calendar), NEW date \in Int
    PROVE  \E day \in Int :
             /\ day < date /\ IsBusinessDay(day, calendar)
             /\ \A other \in Int : day < other /\ other < date => ~IsBusinessDay(other, calendar)
<1>. DEFINE Ago(k) == date - 1 - k
            S == {k \in Nat : IsBusinessDay(Ago(k), calendar)}
<1>1. S # {}
  <2>1. PICK first \in Int : \A day \in calendar.holidays : first <= day
    BY DEF HolidaysAreListed
  <2>2. PICK early \in Int : early <= first /\ early <= date
    <3>1. first <= date \/ date <= first
      OBVIOUS
    <3>. QED BY <3>1
  <2>3. PICK monday \in Int : monday < early /\ (monday + 4) % 7 = 1
    <3>. DEFINE r == (early + 4) % 7
    <3>1. r \in 0 .. 6 /\ early + 4 = 7 * ((early + 4) \div 7) + r
      OBVIOUS
    <3>2. (early - r - 6 + 4) % 7 = 1 /\ early - r - 6 \in Int /\ early - r - 6 < early
      BY <3>1
    <3>. QED BY <3>2
  <2>4. IsBusinessDay(monday, calendar)
    BY <2>1, <2>2, <2>3 DEF IsBusinessDay, Weekday
  <2>5. date - 1 - monday \in Nat /\ Ago(date - 1 - monday) = monday
    BY <2>2, <2>3
  <2>. QED BY <2>4, <2>5
<1>2. PICK k \in S : \A m \in S : k <= m
  BY <1>1, LeastNumber
<1>3. Ago(k) \in Int /\ Ago(k) < date /\ IsBusinessDay(Ago(k), calendar)
  BY <1>2
<1>4. ASSUME NEW other \in Int, Ago(k) < other, other < date, IsBusinessDay(other, calendar)
      PROVE  FALSE
  <2>1. date - 1 - other \in Nat /\ Ago(date - 1 - other) = other
    BY <1>4
  <2>2. date - 1 - other \in S
    BY <1>4, <2>1
  <2>. QED BY <1>2, <1>4, <2>2
<1>. QED BY <1>3, <1>4

LEMMA SomeDayLeavesExactly ==
    ASSUME NEW calendar, HolidaysAreListed(calendar), NEW n \in Nat, NEW date \in Int
    PROVE  \E day \in Int : LeavesExactly(day, date, n, calendar)
<1>. DEFINE Leaves(k) == \A d \in Int : \E day \in Int : LeavesExactly(day, d, k, calendar)
            S == {k \in Nat : ~Leaves(k)}
<1>1. Leaves(0)
  <2>. SUFFICES ASSUME NEW d \in Int PROVE LeavesExactly(d, d, 0, calendar)
    OBVIOUS
  <2>1. BusinessDays(d, d, calendar) = {}
    BY DEF BusinessDays
  <2>. QED BY <2>1, FS_EmptySet DEF LeavesExactly
<1>2. ASSUME NEW k \in Nat, Leaves(k) PROVE Leaves(k + 1)
  <2>. SUFFICES ASSUME NEW d \in Int
                PROVE  \E day \in Int : LeavesExactly(day, d, k + 1, calendar)
    OBVIOUS
  <2>1. PICK b \in Int : /\ b < d /\ IsBusinessDay(b, calendar)
                        /\ \A other \in Int : b < other /\ other < d => ~IsBusinessDay(other, calendar)
    BY ABusinessDayBefore
  <2>2. PICK day \in Int : LeavesExactly(day, b, k, calendar)
    BY <1>2
  <2>3. day <= b
    BY <2>2 DEF LeavesExactly
  <2>4. BusinessDays(day, d, calendar) = BusinessDays(day, b, calendar) \cup {b}
    BY <2>1, <2>3 DEF BusinessDays
  <2>5. b \notin BusinessDays(day, b, calendar)
    BY DEF BusinessDays
  <2>6. Cardinality(BusinessDays(day, d, calendar)) = k + 1
    BY <2>2, <2>4, <2>5, BusinessDaysAreCounted, FS_AddElement DEF LeavesExactly
  <2>. QED BY <2>1, <2>2, <2>3, <2>6 DEF LeavesExactly
<1>. HIDE DEF Leaves
<1>3. S = {}
  <2>. SUFFICES ASSUME S # {} PROVE FALSE
    OBVIOUS
  <2>1. PICK k \in S : \A m \in S : k <= m
    BY LeastNumber
  <2>2. k # 0 /\ k - 1 \in Nat
    BY <1>1, <2>1
  <2>3. Leaves(k - 1)
    BY <2>1, <2>2
  <2>4. Leaves(k - 1 + 1)
    BY <1>2, <2>2, <2>3, Zenon
  <2>5. k - 1 + 1 = k
    BY <2>1
  <2>. QED BY <2>1, <2>4, <2>5
<1>. QED BY <1>3 DEF Leaves

-----------------------------------------------------------------------------
(* The count of the code, one day at a time, finds that day.                  *)
Before(calendar, at) ==
    <<AddCalendarDays(at[1], -1),
      IF IsBusinessDay(AddCalendarDays(at[1], -1), calendar) THEN at[2] - 1 ELSE at[2]>>

CountsBack(calendar, from) ==
    from = [at \in Int \X Nat |-> IF at[2] = 0 THEN at[1] ELSE from[Before(calendar, at)]]

TheDay(date, n, calendar) == CHOOSE day \in Int : LeavesExactly(day, date, n, calendar)

LEMMA TheDayLeavesExactly ==
    ASSUME NEW calendar, HolidaysAreListed(calendar), NEW n \in Nat, NEW date \in Int
    PROVE  TheDay(date, n, calendar) \in Int /\ LeavesExactly(TheDay(date, n, calendar), date, n, calendar)
BY SomeDayLeavesExactly DEF TheDay

LEMMA TheDayFromTheDayBefore ==
    ASSUME NEW calendar, HolidaysAreListed(calendar), NEW n \in Nat, NEW date \in Int
    PROVE  /\ n = 0 => TheDay(date, n, calendar) = date
           /\ n # 0 => /\ Left(date, n, calendar) \in Nat
                       /\ TheDay(date, n, calendar) = TheDay(date - 1, Left(date, n, calendar), calendar)
                       /\ TheDay(date, n, calendar) <= date - 1
<1>. DEFINE day == TheDay(date, n, calendar)
<1>1. day \in Int /\ LeavesExactly(day, date, n, calendar)
  BY TheDayLeavesExactly
<1>2. ASSUME n = 0 PROVE day = date
  BY <1>1, <1>2 DEF LeavesExactly
<1>3. ASSUME n # 0
      PROVE  /\ Left(date, n, calendar) \in Nat
             /\ day = TheDay(date - 1, Left(date, n, calendar), calendar)
             /\ day <= date - 1
  <2>. DEFINE left == Left(date, n, calendar)
              before == TheDay(date - 1, left, calendar)
  <2>1. left \in Nat /\ date - 1 \in Int
    BY <1>3 DEF Left
  <2>. HIDE DEF left
  <2>2. before \in Int /\ LeavesExactly(before, date - 1, left, calendar)
    BY <2>1, TheDayLeavesExactly
  <2>3. LeavesExactly(day, date - 1, left, calendar)
    BY <1>1, <1>3, OneDayBack DEF left
  <2>. HIDE DEF before, day
  <2>4. day = before
    BY <1>1, <2>1, <2>2, <2>3, OneDayLeavesExactly
  <2>5. day <= date - 1
    BY <2>3 DEF LeavesExactly
  <2>. QED BY <2>1, <2>4, <2>5 DEF left, before
<1>. QED BY <1>2, <1>3

LEMMA BeforeIsOneDayBack ==
    ASSUME NEW calendar, NEW at \in Int \X Nat
    PROVE  /\ at = <<at[1], at[2]>> /\ at[1] \in Int /\ at[2] \in Nat
           /\ Before(calendar, at) = <<at[1] - 1, Left(at[1], at[2], calendar)>>
BY DEF Before, Left, AddCalendarDays

LEMMA SomethingCountsBack ==
    ASSUME NEW calendar, HolidaysAreListed(calendar)
    PROVE  \E from : CountsBack(calendar, from)
<1>. DEFINE from == [at \in Int \X Nat |-> TheDay(at[1], at[2], calendar)]
<1>1. ASSUME NEW at \in Int \X Nat
      PROVE  TheDay(at[1], at[2], calendar) =
               IF at[2] = 0 THEN at[1] ELSE from[Before(calendar, at)]
  <2>1. at[1] \in Int /\ at[2] \in Nat
    OBVIOUS
  <2>2. CASE at[2] = 0
    BY <2>1, <2>2, TheDayFromTheDayBefore
  <2>3. CASE at[2] # 0
    <3>. DEFINE left == Left(at[1], at[2], calendar)
    <3>1. left \in Nat /\ TheDay(at[1], at[2], calendar) = TheDay(at[1] - 1, left, calendar)
      BY <2>1, <2>3, TheDayFromTheDayBefore
    <3>2. Before(calendar, at) = <<at[1] - 1, left>>
      BY BeforeIsOneDayBack
    <3>. HIDE DEF left
    <3>3. from[<<at[1] - 1, left>>] = TheDay(at[1] - 1, left, calendar)
      BY <2>1, <3>1
    <3>. HIDE DEF from
    <3>. QED BY <2>3, <3>1, <3>2, <3>3
  <2>. QED BY <2>2, <2>3
<1>2. from = [at \in Int \X Nat |-> IF at[2] = 0 THEN at[1] ELSE from[Before(calendar, at)]]
  BY <1>1
<1>3. CountsBack(calendar, from)
  BY <1>2, Zenon DEF CountsBack
<1>. QED BY <1>3, Zenon

LEMMA CountedBackIsTheDay ==
    ASSUME NEW calendar, HolidaysAreListed(calendar), NEW from, CountsBack(calendar, from),
           NEW date \in Int, NEW n \in Nat
    PROVE  from[<<date, n>>] = TheDay(date, n, calendar)
<1>1. ASSUME NEW cursor \in Int, NEW remaining \in Nat
      PROVE  /\ remaining = 0 => from[<<cursor, remaining>>] = cursor
             /\ remaining # 0 => from[<<cursor, remaining>>] =
                                  from[<<cursor - 1, Left(cursor, remaining, calendar)>>]
  <2>. DEFINE at == <<cursor, remaining>>
  <2>1. at \in Int \X Nat /\ at[1] = cursor /\ at[2] = remaining
    OBVIOUS
  <2>2. Before(calendar, at) = <<cursor - 1, Left(cursor, remaining, calendar)>>
    BY <2>1, BeforeIsOneDayBack
  <2>. HIDE DEF at
  <2>3. from[at] = IF at[2] = 0 THEN at[1] ELSE from[Before(calendar, at)]
    BY <2>1, Zenon DEF CountsBack
  <2>. QED BY <2>1, <2>2, <2>3 DEF at
<1>. DEFINE Far(c, r) == c - TheDay(c, r, calendar)
            Wrong(c, r) == from[<<c, r>>] # TheDay(c, r, calendar)
            S == {k \in Nat : \E c \in Int, r \in Nat : Wrong(c, r) /\ k = Far(c, r)}
<1>2. S = {}
  <2>. SUFFICES ASSUME S # {} PROVE FALSE
    OBVIOUS
  <2>1. PICK k \in S : \A m \in S : k <= m
    BY LeastNumber
  <2>2. PICK c \in Int, r \in Nat : Wrong(c, r) /\ k = Far(c, r)
    BY <2>1
  <2>3. r # 0
    <3>1. r = 0 => from[<<c, r>>] = c /\ TheDay(c, r, calendar) = c
      BY <1>1, TheDayFromTheDayBefore
    <3>. QED BY <2>2, <3>1
  <2>. DEFINE left == Left(c, r, calendar)
  <2>4. /\ left \in Nat /\ c - 1 \in Int
        /\ TheDay(c, r, calendar) = TheDay(c - 1, left, calendar)
        /\ TheDay(c, r, calendar) <= c - 1 /\ TheDay(c, r, calendar) \in Int
    BY <2>3, TheDayFromTheDayBefore, TheDayLeavesExactly
  <2>5. from[<<c, r>>] = from[<<c - 1, left>>]
    BY <1>1, <2>3
  <2>. HIDE DEF left
  <2>6. Wrong(c - 1, left) /\ Far(c - 1, left) = k - 1 /\ k - 1 \in Nat
    BY <2>2, <2>4, <2>5
  <2>7. k - 1 \in S
    BY <2>4, <2>6
  <2>. QED BY <2>1, <2>7
<1>3. Far(date, n) \in Nat
  BY TheDayLeavesExactly DEF LeavesExactly
<1>. HIDE DEF Far
<1>4. ~Wrong(date, n)
  BY <1>2, <1>3
<1>. QED BY <1>4

(* Counting back over weekends and holidays ends on the day that leaves       *)
(* exactly the published number of business days before the date, and no      *)
(* later day leaves as many, for any date and any list of holidays            *)
(* (calendar.ts subtractBusinessDays).                                        *)
THEOREM BusinessDaysAreCountedBack ==
    ASSUME NEW calendar, HolidaysAreListed(calendar), NEW date \in Int, NEW n \in Nat
    PROVE  LET day == SubtractBusinessDays(date, n, calendar)
           IN  /\ day \in Int /\ day <= date
               /\ Cardinality(BusinessDays(day, date, calendar)) = n
               /\ \A later \in Int :
                    later <= date /\ Cardinality(BusinessDays(later, date, calendar)) >= n
                      => later <= day
<1>. DEFINE from == CHOOSE f : CountsBack(calendar, f)
<1>1. CountsBack(calendar, from)
  BY SomethingCountsBack, Zenon
<1>2. SubtractBusinessDays(date, n, calendar) = from[<<date, n>>]
  BY Zenon DEF SubtractBusinessDays, CountsBack, Before
<1>. HIDE DEF from
<1>3. SubtractBusinessDays(date, n, calendar) = TheDay(date, n, calendar)
  BY <1>1, <1>2, CountedBackIsTheDay
<1>. DEFINE day == SubtractBusinessDays(date, n, calendar)
<1>4. day \in Int /\ LeavesExactly(day, date, n, calendar)
  BY <1>3, TheDayLeavesExactly
<1>. HIDE DEF day
<1>5. \A later \in Int :
        later <= date /\ Cardinality(BusinessDays(later, date, calendar)) >= n => later <= day
  BY <1>4, NoLaterDayLeavesAsMany
<1>. QED BY <1>4, <1>5 DEF day, LeavesExactly

-----------------------------------------------------------------------------
(* A deadline as it is published: its numbers are numbers, its kind one of    *)
(* those the reader takes.                                                    *)
IsPublished(deadline, calendar) ==
    \/ deadline.type = "published_minimum" /\ deadline.calendarDays \in Int
    \/ /\ deadline.type = "published_minimum_by_level"
       /\ \A level \in DOMAIN deadline.levels :
            /\ deadline.levels[level].calendarDays \in Int
            /\ deadline.levels[level].multiBlockDays \in Int \cup {Null}
    \/ /\ deadline.type = "composite" /\ deadline.hardFloorDays \in Int
       /\ deadline.processingRangeDays[2] \in Int
    \/ /\ deadline.type = "business_days_minimum" /\ deadline.businessDays \in Nat
       /\ calendar.holidays = Null \/ HolidaysAreListed(calendar)
    \/ deadline.type \in {"before_issuance", "research_required"}

(* The same evaluation on a later day.                                        *)
IsTheSameLater(ctx, later) ==
    /\ later.intake = ctx.intake /\ later.scope = ctx.scope
    /\ later.calendar = ctx.calendar /\ later.slackWarningDays = ctx.slackWarningDays
    /\ later.eventDate = ctx.eventDate /\ ctx.eventDate \in Int
    /\ ctx.slackWarningDays \in Int
    /\ ctx.today \in Int /\ later.today \in Int /\ ctx.today <= later.today

NoBetter(was, is) ==
    \/ is = was
    \/ was = "on_track" /\ is \in {"deadline_approaching", "published_deadline_missed"}
    \/ was = "deadline_approaching" /\ is = "published_deadline_missed"

(* What the later day leaves of a dated window, or of one it cannot date.     *)
OnlyOlder(was, is) ==
    /\ is.latest = was.latest
    /\ is.unknown = was.unknown /\ is.unresolved = was.unresolved
    /\ NoBetter(was.status, is.status)

LEMMA SlackOnlyShrinks ==
    ASSUME NEW ctx, NEW later, IsTheSameLater(ctx, later), NEW latest \in Int
    PROVE  OnlyOlder(DateBackFrom(latest, ctx), DateBackFrom(latest, later))
<1>. DEFINE was == DifferenceInCalendarDays(ctx.today, latest)
            is  == DifferenceInCalendarDays(later.today, latest)
            warning == ctx.slackWarningDays
<1>1. was \in Int /\ is \in Int /\ is <= was /\ warning \in Int
  BY DEF IsTheSameLater, DifferenceInCalendarDays
<1>2. later.slackWarningDays = warning
  BY DEF IsTheSameLater
<1>. HIDE DEF was, is, warning
<1>3. NoBetter(StatusFromSlack(was, warning), StatusFromSlack(is, warning))
  BY <1>1 DEF StatusFromSlack, NoBetter
<1>. QED BY <1>2, <1>3 DEF OnlyOlder, DateBackFrom, was, is, warning

LEMMA BoundsAreDays ==
    ASSUME NEW ctx, NEW later, IsTheSameLater(ctx, later), NEW days \in Int, NEW boundary
    PROVE  /\ CalendarDaysBack(days, boundary, ctx) \in Int
           /\ CalendarDaysBack(days, boundary, later) = CalendarDaysBack(days, boundary, ctx)
BY DEF IsTheSameLater, CalendarDaysBack, LastValidFilingDate, AddCalendarDays

LEMMA UndatableStays ==
    ASSUME NEW status, NEW unknown, NEW unresolved
    PROVE  OnlyOlder(Undatable(status, unknown, unresolved), Undatable(status, unknown, unresolved))
BY DEF OnlyOlder, NoBetter

LEMMA CalendarWindowOnlyAges ==
    ASSUME NEW ctx, NEW later, IsTheSameLater(ctx, later), NEW days \in Int, NEW boundary
    PROVE  OnlyOlder(DateBackFrom(CalendarDaysBack(days, boundary, ctx), ctx),
                     DateBackFrom(CalendarDaysBack(days, boundary, later), later))
<1>1. /\ CalendarDaysBack(days, boundary, ctx) \in Int
      /\ CalendarDaysBack(days, boundary, later) = CalendarDaysBack(days, boundary, ctx)
  BY BoundsAreDays
<1>. QED BY <1>1, SlackOnlyShrinks

LEMMA LevelWindowOnlyAges ==
    ASSUME NEW ctx, NEW later, IsTheSameLater(ctx, later), NEW deadline, NEW binding,
           deadline.type = "published_minimum_by_level",
           IsPublished(deadline, ctx.calendar)
    PROVE  OnlyOlder(ByLevel(deadline, binding, ctx), ByLevel(deadline, binding, later))
<1>. DEFINE resolution == ResolveLevelDays(deadline, binding, ctx)
<1>1. ResolveLevelDays(deadline, binding, later) = resolution
  BY DEF IsTheSameLater, ResolveLevelDays, IsUnanswered
<1>2. \/ resolution.kind = "unknown"
      \/ resolution.kind = "unresolved"
      \/ resolution.kind = "days" /\ resolution.days \in Int
  BY DEF ResolveLevelDays, Days, IsPublished
<1>. HIDE DEF resolution
<1>3. CASE resolution.kind = "unknown"
  BY <1>1, <1>3, UndatableStays DEF ByLevel, resolution
<1>4. CASE resolution.kind = "unresolved"
  BY <1>1, <1>4, UndatableStays DEF ByLevel, resolution
<1>5. CASE resolution.kind = "days" /\ resolution.days \in Int
  BY <1>1, <1>5, CalendarWindowOnlyAges DEF ByLevel, resolution
<1>. QED BY <1>2, <1>3, <1>4, <1>5

LEMMA CompositeWindowOnlyAges ==
    ASSUME NEW ctx, NEW later, IsTheSameLater(ctx, later), NEW deadline,
           deadline.hardFloorDays \in Int, deadline.processingRangeDays[2] \in Int
    PROVE  OnlyOlder(Composite(deadline, ctx), Composite(deadline, later))
<1>. DEFINE Dated(c) == DateBackFrom(CalendarDaysBack(deadline.hardFloorDays, deadline.boundary, c), c)
            Runway(c) == DifferenceInCalendarDays(c.today, c.eventDate)
            slowest == deadline.processingRangeDays[2]
            Raised(c) == IF Dated(c).status = "on_track" /\ Runway(c) < slowest
                         THEN "deadline_approaching" ELSE Dated(c).status
<1>1. OnlyOlder(Dated(ctx), Dated(later))
  BY CalendarWindowOnlyAges
<1>2. Runway(ctx) \in Int /\ Runway(later) \in Int /\ Runway(later) <= Runway(ctx) /\ slowest \in Int
  BY DEF IsTheSameLater, DifferenceInCalendarDays
<1>3. ASSUME NEW c
      PROVE  /\ Composite(deadline, c).latest = Dated(c).latest
             /\ Composite(deadline, c).unknown = Dated(c).unknown
             /\ Composite(deadline, c).unresolved = Dated(c).unresolved
             /\ Composite(deadline, c).status = Raised(c)
  BY DEF Composite, DateBackFrom
<1>4. NoBetter(Raised(ctx), Raised(later))
  <2>. HIDE DEF Dated, Runway, slowest
  <2>. QED BY <1>1, <1>2 DEF OnlyOlder, NoBetter
<1>. HIDE DEF Dated, Raised
<1>. QED BY <1>1, <1>3, <1>4 DEF OnlyOlder

LEMMA BusinessWindowOnlyAges ==
    ASSUME NEW ctx, NEW later, IsTheSameLater(ctx, later), NEW deadline,
           deadline.businessDays \in Nat,
           ctx.calendar.holidays = Null \/ HolidaysAreListed(ctx.calendar)
    PROVE  OnlyOlder(BusinessDaysMinimum(deadline, ctx), BusinessDaysMinimum(deadline, later))
<1>. DEFINE calendar == ctx.calendar
            bound == SubtractBusinessDays(ctx.eventDate, deadline.businessDays, calendar)
            latest == LastValidFilingDate(bound, deadline.boundary, SubtractBusinessDays(bound, 1, calendar))
<1>1. later.calendar = calendar /\ later.eventDate = ctx.eventDate /\ ctx.eventDate \in Int
  BY DEF IsTheSameLater
<1>2. CASE calendar.holidays = Null
  <2>1. /\ BusinessDaysMinimum(deadline, ctx) = Undatable("not_calculable", {}, "no_holiday_list")
        /\ BusinessDaysMinimum(deadline, later) = Undatable("not_calculable", {}, "no_holiday_list")
    BY <1>1, <1>2 DEF BusinessDaysMinimum
  <2>. QED BY <2>1, UndatableStays
<1>3. CASE calendar.holidays # Null
  <2>1. HolidaysAreListed(calendar)
    BY <1>3
  <2>. HIDE DEF calendar
  <2>2. bound \in Int
    BY <1>1, <2>1, BusinessDaysAreCountedBack
  <2>. HIDE DEF bound
  <2>3. SubtractBusinessDays(bound, 1, calendar) \in Int
    BY <2>1, <2>2, BusinessDaysAreCountedBack
  <2>4. latest \in Int
    BY <2>2, <2>3 DEF LastValidFilingDate
  <2>. HIDE DEF latest
  <2>5. /\ BusinessDaysMinimum(deadline, ctx) = DateBackFrom(latest, ctx)
        /\ BusinessDaysMinimum(deadline, later) = DateBackFrom(latest, later)
    BY <1>1, <1>3 DEF BusinessDaysMinimum, calendar, bound, latest
  <2>. QED BY <2>4, <2>5, SlackOnlyShrinks
<1>. QED BY <1>2, <1>3

(* Waiting moves no window and opens none: whatever the deadline, the last    *)
(* day to file is the same on a later day, what is missing to date it is the  *)
(* same, and its status is no better, so that a missed window stays missed    *)
(* (deadlines.ts computeDeadline).                                            *)
THEOREM LaterDaysNeverHelp ==
    ASSUME NEW ctx, NEW later, IsTheSameLater(ctx, later), NEW deadline, NEW binding,
           deadline # Null => IsPublished(deadline, ctx.calendar)
    PROVE  OnlyOlder(ComputeDeadline(deadline, binding, ctx),
                     ComputeDeadline(deadline, binding, later))
<1>. DEFINE Ages == OnlyOlder(ComputeDeadline(deadline, binding, ctx),
                              ComputeDeadline(deadline, binding, later))
<1>1. CASE deadline = Null
  BY <1>1, UndatableStays DEF ComputeDeadline
<1>2. ASSUME deadline # Null, deadline.type = "published_minimum" PROVE Ages
  BY <1>2, CalendarWindowOnlyAges DEF ComputeDeadline, IsPublished
<1>3. ASSUME deadline # Null, deadline.type = "published_minimum_by_level" PROVE Ages
  BY <1>3, LevelWindowOnlyAges DEF ComputeDeadline
<1>4. ASSUME deadline # Null, deadline.type = "composite" PROVE Ages
  BY <1>4, CompositeWindowOnlyAges DEF ComputeDeadline, IsPublished
<1>5. ASSUME deadline # Null, deadline.type = "business_days_minimum" PROVE Ages
  BY <1>5, BusinessWindowOnlyAges DEF ComputeDeadline, IsPublished
<1>6. ASSUME deadline # Null, deadline.type \in {"before_issuance", "research_required"} PROVE Ages
  BY <1>6, UndatableStays DEF ComputeDeadline
<1>. HIDE DEF Ages
<1>. QED BY <1>1, <1>2, <1>3, <1>4, <1>5, <1>6 DEF IsPublished, Ages

-----------------------------------------------------------------------------
(* The block question of a by-level deadline hangs on the level, and          *)
(* otherwise on what the level question itself hangs on.                      *)
HangsOnTheLevel(rs, binding) ==
    \A c \in rs.def[binding.multiBlockField].askedWhen :
        c.field = binding.levelField \/ c \in rs.def[binding.levelField].askedWhen

Admits(c, level) ==
    CASE c.kind = "in"      -> level \in c.values
      [] c.kind = "compare" -> (c.value = level) = (c.op = "=")
      [] OTHER              -> FALSE

LEMMA AdmittedLevelsHold ==
    ASSUME NEW rs, NEW c, rs.def[c.field].type = "enum", NEW level, level # Null,
           Admits(c, level)
    PROVE  ClauseHolds(rs, c, level)
<1>1. c.kind \in {"in", "compare"}
  BY DEF Admits
<1>2. CASE c.kind = "in"
  BY <1>2 DEF Admits, ClauseHolds
<1>3. CASE c.kind = "compare"
  BY <1>3 DEF Admits, ClauseHolds, Compared, IsList
<1>. QED BY <1>1, <1>2, <1>3

(* A by-level window the reader accepted is never left undated over its block *)
(* question: of every event that is asked the level and answers one the rule  *)
(* publishes with two windows, the block question is asked as well            *)
(* (ruleset.ts parseLevelBinding against deadlines.ts resolveLevelDays).      *)
THEOREM AcceptedLevelsAskTheirBlocks ==
    ASSUME NEW rs, QuestionsRead(rs), NEW rule, LevelBindingIsRead(rs, rule),
           HangsOnTheLevel(rs, LevelBindingOf(rs, rule)),
           NEW ctx, DOMAIN rs.def \subseteq DOMAIN ctx.intake,
           ctx.scope = ScopeOf(rs, ctx.intake)
    PROVE  ByLevel(rule.deadline, LevelBindingOf(rs, rule), ctx).unresolved
             \in {Null, "level_never_asked", "level_not_published"}
<1>. DEFINE b == LevelBindingOf(rs, rule)
            block == b.multiBlockField
            level == ctx.intake[b.levelField]
            levels == rule.deadline.levels
<1>1. /\ b.levelField \in DOMAIN rs.def /\ block \in DOMAIN rs.def
      /\ rs.def[b.levelField].type = "enum"
      /\ \A l \in DOMAIN levels :
            levels[l].multiBlockDays # Null => ScopeAdmits(rs, block, b.levelField, l)
      /\ \A c \in rs.def[block].askedWhen :
            c.field = b.levelField \/ c \in rs.def[b.levelField].askedWhen
  BY DEF LevelBindingIsRead, HangsOnTheLevel
<1>. HIDE DEF b
<1>2. ASSUME b.levelField \in ctx.scope, ~IsUnanswered(b.levelField, ctx),
             level \in DOMAIN levels, levels[level].multiBlockDays # Null
      PROVE  block \in ctx.scope
  <2>1. level # Null /\ ScopeAdmits(rs, block, b.levelField, level)
    BY <1>1, <1>2 DEF IsUnanswered
  <2>2. Settles(rs, ctx.intake, ctx.scope)
    BY ScopeSettles
  <2>3. AnswerOf(ctx.intake, b.levelField) = level
    BY <1>1 DEF AnswerOf
  <2>4. ASSUME NEW c \in rs.def[block].askedWhen
        PROVE  c.field \in ctx.scope /\ TermHolds(rs, c, AnswerOf(ctx.intake, c.field))
    <3>1. CASE c.field = b.levelField
      <4>1. Admits(c, level)
        BY <2>1, <3>1 DEF ScopeAdmits, Admits
      <4>2. ClauseHolds(rs, c, level)
        BY <1>1, <2>1, <3>1, <4>1, AdmittedLevelsHold
      <4>3. IsClause(rs, c)
        BY <1>1 DEF QuestionsRead
      <4>4. TermHolds(rs, c, level)
        BY <4>2, <4>3, ClausesReadAlike
      <4>. QED BY <1>2, <2>3, <3>1, <4>4
    <3>2. CASE c \in rs.def[b.levelField].askedWhen
      BY <1>1, <1>2, <2>2, <3>2, Zenon DEF Settles
    <3>. QED BY <1>1, <3>1, <3>2
  <2>. QED BY <1>1, <2>2, <2>4, Zenon DEF Settles
<1>. DEFINE resolution == ResolveLevelDays(rule.deadline, b, ctx)
            Explained == \/ /\ resolution.kind = "unresolved"
                            /\ resolution.reason \in {"level_never_asked", "level_not_published"}
                         \/ resolution.kind \in {"unknown", "days"}
<1>3. ASSUME b.levelField \notin ctx.scope PROVE Explained
  BY <1>3 DEF ResolveLevelDays, IsUnanswered
<1>4. ASSUME b.levelField \in ctx.scope, IsUnanswered(b.levelField, ctx) PROVE Explained
  BY <1>4 DEF ResolveLevelDays
<1>5. ASSUME b.levelField \in ctx.scope, ~IsUnanswered(b.levelField, ctx) PROVE Explained
  <2>1. CASE level \notin DOMAIN levels
    BY <1>5, <2>1 DEF ResolveLevelDays
  <2>2. CASE level \in DOMAIN levels /\ levels[level].multiBlockDays = Null
    BY <1>5, <2>2 DEF ResolveLevelDays, Days
  <2>3. CASE level \in DOMAIN levels /\ levels[level].multiBlockDays # Null
    <3>1. block \in ctx.scope
      BY <1>2, <1>5, <2>3
    <3>. QED BY <1>5, <2>3, <3>1 DEF ResolveLevelDays, Days
  <2>. QED BY <2>1, <2>2, <2>3
<1>6. Explained
  <2>. HIDE DEF Explained
  <2>. QED BY <1>3, <1>4, <1>5
<1>. HIDE DEF resolution
<1>7. CASE resolution.kind = "unresolved"
  BY <1>6, <1>7 DEF ByLevel, Undatable, resolution, b
<1>8. CASE resolution.kind = "unknown"
  BY <1>8 DEF ByLevel, Undatable, resolution, b
<1>9. CASE resolution.kind = "days"
  BY <1>9 DEF ByLevel, DateBackFrom, resolution, b
<1>. QED BY <1>6, <1>7, <1>8, <1>9
=============================================================================
