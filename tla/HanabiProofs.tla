---------------------------- MODULE HanabiProofs ----------------------------
(***************************************************************************)
(* What holds of Hanabi for every deck, every number of players and every  *)
(* number of tokens that the assumptions of its modules allow: of the      *)
(* engine, of the strategy of the AI players, and of a game over its saved *)
(* state.                                                                  *)
(***************************************************************************)
EXTENDS HanabiResume, HanabiStrategy, FiniteSetTheorems, TLAPS

(***************************************************************************)
(* The engine.                                                             *)
(***************************************************************************)

\* The bounds of the tokens and the numbers, as the arithmetic below needs them.
LEMMA Bounds ==
  /\ MaxCardNumber \in Nat /\ MaxCardNumber >= 1
  /\ MaxHintTokens \in Nat /\ MaxHintTokens >= 1
  /\ InitialMissTokens \in Nat /\ InitialMissTokens >= 1
  BY NumbersAssumption, TokensAssumption

\* Passing the turn stays within the seats.
LEMMA NextSeatType ==
  ASSUME NEW p \in Seats
  PROVE  NextSeat(p) \in Seats
  BY PlayersAssumption DEF NextSeat, Seats

\* There are finitely many colours and numbers to put on the table.
LEMMA KindFinite == IsFiniteSet(Colors \X Number)
  <1>1. IsFiniteSet(Number)
    BY FS_Interval, NumbersAssumption DEF Number
  <1> QED BY <1>1, FS_Product, ColorsAssumption

\* GenerateDeck makes finitely many cards.
LEMMA CardFinite == IsFiniteSet(Card)
  <1> DEFINE Kind == Colors \X Number
             Same(t) == { CardOf(t[1], t[2], k) : k \in 1 .. Copies[t[2]] }
             Kinds == { Same(t) : t \in Kind }
  <1>1. IsFiniteSet(Kind)
    BY KindFinite
  <1>2. IsFiniteSet(Kinds)
    <2>1. [t \in Kind |-> Same(t)] \in Surjection(Kind, Kinds)
      BY DEF Surjection
    <2> QED BY <1>1, <2>1, FS_Surjection
  <1>3. ASSUME NEW T \in Kinds PROVE IsFiniteSet(T)
    <2>1. PICK t \in Kind : T = Same(t)
      OBVIOUS
    <2>2. Copies[t[2]] \in Nat
      BY NumbersAssumption
    <2>3. IsFiniteSet(1 .. Copies[t[2]])
      BY <2>2, FS_Interval
    <2>4. [k \in 1 .. Copies[t[2]] |-> CardOf(t[1], t[2], k)]
            \in Surjection(1 .. Copies[t[2]], T)
      BY <2>1 DEF Surjection
    <2> QED BY <2>3, <2>4, FS_Surjection
  <1>4. Card = UNION Kinds
    <2>1. ASSUME NEW x \in Card PROVE x \in UNION Kinds
      <3>1. PICK c \in Colors, n \in Number : \E k \in 1 .. Copies[n] : x = CardOf(c, n, k)
        BY DEF Card
      <3>2. x \in Same(<<c, n>>) /\ <<c, n>> \in Kind
        BY <3>1
      <3> QED BY <3>2
    <2>2. ASSUME NEW x \in UNION Kinds PROVE x \in Card
      <3>1. PICK t \in Kind : x \in Same(t)
        OBVIOUS
      <3>2. t[1] \in Colors /\ t[2] \in Number
        OBVIOUS
      <3>3. PICK k \in 1 .. Copies[t[2]] : x = CardOf(t[1], t[2], k)
        BY <3>1
      <3>4. PICK c \in Colors, n \in Number : c = t[1] /\ n = t[2]
        BY <3>2
      <3> DEFINE Alike(d, m) == { CardOf(d, m, j) : j \in 1 .. Copies[m] }
      <3>5. x \in Alike(c, n)
        BY <3>3, <3>4
      <3>6. Card = UNION { Alike(d, m) : d \in Colors, m \in Number }
        BY DEF Card
      <3> HIDE DEF Alike
      <3>7. Alike(c, n) \in { Alike(d, m) : d \in Colors, m \in Number }
        OBVIOUS
      <3> QED BY <3>5, <3>6, <3>7
    <2> QED BY <2>1, <2>2
  <1> QED BY <1>2, <1>3, <1>4, FS_UNION

\* What a card of the deck is.
LEMMA CardFields ==
  ASSUME NEW x \in Card
  PROVE  x.color \in Colors /\ x.number \in Number
  BY DEF Card, CardOf

-----------------------------------------------------------------------------
\* The score of a table lies between 0 and the perfect score, and it is
\* perfect exactly when every firework is complete.
LEMMA ScoreType ==
  ASSUME NEW fw
  PROVE  Score(fw) \in Nat
  BY KindFinite, FS_Subset, FS_CardinalityType DEF Score

LEMMA PerfectMeansComplete ==
  ASSUME NEW fw \in [Colors -> 0 .. MaxCardNumber]
  PROVE  Score(fw) = PerfectScore <=> \A c \in Colors : fw[c] = MaxCardNumber
  <1> DEFINE Kind == Colors \X Number
             On == { t \in Kind : t[2] <= fw[t[1]] }
  <1>1. IsFiniteSet(Kind)
    BY KindFinite
  <1>2. Score(fw) = Cardinality(On) /\ PerfectScore = Cardinality(Kind)
    BY PerfectAssumption DEF Score
  <1>3. ASSUME Score(fw) = PerfectScore, NEW c \in Colors
        PROVE  fw[c] = MaxCardNumber
    <2>1. On = Kind
      BY <1>1, <1>2, <1>3, FS_Subset
    <2>2. <<c, MaxCardNumber>> \in Kind
      BY NumbersAssumption DEF Number
    <2>3. MaxCardNumber <= fw[c]
      BY <2>1, <2>2
    <2> QED BY <2>3, NumbersAssumption
  <1>4. ASSUME \A c \in Colors : fw[c] = MaxCardNumber
        PROVE  Score(fw) = PerfectScore
    <2>1. On = Kind
      BY <1>4 DEF Number
    <2> QED BY <2>1, <1>2
  <1> QED BY <1>3, <1>4

-----------------------------------------------------------------------------
\* The four shapes a step of the engine has.  In the second and third, `over'
\* tells whether the handler left GameOver set.
HintStep ==
  /\ UNCHANGED <<cards, missTokens, lastPlayer, result>>
  /\ hintTokens > 0 /\ hintTokens' = hintTokens - 1
  /\ colorKnown' \subseteq colorKnown \cup Card
  /\ numberKnown' \subseteq numberKnown \cup Card
  /\ AdvanceTurn(gameOver)

PassTurn(over) == AdvanceTurn(over) \/ (~gameOver /\ EndTurn(over))

PlayStep(p, card) ==
  turnIndex = p /\ Play(p, card) /\ PassTurn(OverAfterPlay(card)) /\ UNCHANGED result

DiscardStep(p, card) ==
  turnIndex = p /\ Discard(p, card) /\ PassTurn(gameOver) /\ UNCHANGED result

\* The steps of the engine, and hints to hands that are not at the table.
EngineStep == Next \/ HintStep

LEMMA EngineSteps == [Next]_vars => [EngineStep]_vars
  BY DEF EngineStep

\* Every step of the engine has one of these shapes.
LEMMA StepShapes ==
  ASSUME TypeOK, EngineStep
  PROVE  \/ HintStep
         \/ \E p \in Seats : \E card \in hands[p] : PlayStep(p, card)
         \/ \E p \in Seats : \E card \in hands[p] : DiscardStep(p, card)
         \/ EndGame
  <1>1. CASE PlayerHint
    <2>1. ASSUME NEW p \in Seats, NEW q \in Seats, NEW c \in Colors, GiveColorHint(p, q, c)
          PROVE  HintStep
      <3>1. { x \in hands[q] : x.color = c } \subseteq Card
        BY DEF TypeOK
      <3> QED BY <2>1, <3>1, Zenon DEF GiveColorHint, Hint, HintStep
    <2>2. ASSUME NEW p \in Seats, NEW q \in Seats, NEW n \in Number, GiveNumberHint(p, q, n)
          PROVE  HintStep
      <3>1. { x \in hands[q] : x.number = n } \subseteq Card
        BY DEF TypeOK
      <3> QED BY <2>2, <3>1, Zenon DEF GiveNumberHint, Hint, HintStep
    <2> QED BY <1>1, <2>1, <2>2 DEF PlayerHint
  <1>2. CASE PlayerPlay
    BY <1>2 DEF PlayerPlay, PlayCard, PlayStep, PassTurn
  <1>3. CASE PlayerDiscard
    BY <1>3 DEF PlayerDiscard, DiscardCard, DiscardStep, PassTurn
  <1>4. CASE TurnTimeout
    <2>1. ASSUME NEW p \in Seats, NEW card \in hands[p], ForceAction(p, card)
          PROVE  PlayStep(p, card) \/ DiscardStep(p, card)
      BY <2>1, Zenon DEF ForceAction, PlayStep, DiscardStep, PassTurn
    <2> QED BY <1>4, <2>1 DEF TurnTimeout
  <1> QED BY <1>1, <1>2, <1>3, <1>4 DEF Next, EngineStep

-----------------------------------------------------------------------------
\* A card that leaves a hand keeps the table well typed.
LEMMA DrawCardType ==
  ASSUME TypeOK, NEW p \in Seats, NEW card \in hands[p], DrawCard(p, card)
  PROVE  /\ deck' \subseteq Card
         /\ hands' \in [Seats -> SUBSET Card]
         /\ lastPlayer' \in Seats \cup {NoPlayer}
  <1>1. CASE \E top \in deck :
               /\ hands' = [hands EXCEPT ![p] = (@ \ {card}) \cup {top}]
               /\ deck' = deck \ {top}
               /\ UNCHANGED lastPlayer
    BY <1>1 DEF TypeOK
  <1>2. CASE /\ deck = {}
             /\ hands' = [hands EXCEPT ![p] = @ \ {card}]
             /\ lastPlayer' = IF lastPlayer = NoPlayer THEN p ELSE lastPlayer
             /\ UNCHANGED deck
    BY <1>2 DEF TypeOK
  <1> QED BY <1>1, <1>2 DEF DrawCard

\* So does passing the turn.
LEMMA PassTurnType ==
  ASSUME TypeOK, NEW over \in BOOLEAN, PassTurn(over)
  PROVE  turnIndex' \in Seats /\ gameOver' \in BOOLEAN
  <1>1. CASE EndTurn(over)
    BY <1>1, NextSeatType DEF EndTurn, TypeOK
  <1>2. CASE over /\ gameOver' = TRUE /\ UNCHANGED turnIndex
    BY <1>2 DEF TypeOK
  <1> QED BY <1>1, <1>2 DEF PassTurn, AdvanceTurn

LEMMA InitType == Init => TypeOK
  <1> SUFFICES ASSUME Init PROVE TypeOK
    OBVIOUS
  <1>1. 0 \in Seats
    BY PlayersAssumption DEF Seats
  <1>2. fireworks \in [Colors -> 0 .. MaxCardNumber]
    BY Bounds DEF Init
  <1>3. hands \in [Seats -> SUBSET Card]
    BY DEF Init
  <1>4. deck \subseteq Card
    BY DEF Init
  <1>5. missTokens \in Int /\ missTokens <= InitialMissTokens
    BY Bounds DEF Init
  <1>6. hintTokens \in 0 .. MaxHintTokens
    BY Bounds DEF Init
  <1> QED BY <1>1, <1>2, <1>3, <1>4, <1>5, <1>6 DEF Init, TypeOK

LEMMA NextType == TypeOK /\ [EngineStep]_vars => TypeOK'
  <1> SUFFICES ASSUME TypeOK, [EngineStep]_vars PROVE TypeOK'
    OBVIOUS
  <1>1. CASE HintStep
    <2>1. turnIndex' \in Seats /\ gameOver' \in BOOLEAN
      BY <1>1, PassTurnType, Zenon DEF HintStep, PassTurn, TypeOK
    <2>2. HandCards(hands) \subseteq Card
      BY DEF HandCards, TypeOK
    <2>3. hintTokens' \in 0 .. MaxHintTokens
      BY <1>1, Bounds DEF HintStep, TypeOK
    <2> QED BY <1>1, <2>1, <2>2, <2>3 DEF HintStep, TypeOK, cards, result
  <1>2. ASSUME NEW p \in Seats, NEW card \in hands[p], PlayStep(p, card)
        PROVE  TypeOK'
    <2>1. OverAfterPlay(card) \in BOOLEAN
      BY DEF OverAfterPlay, TypeOK
    <2>2. turnIndex' \in Seats /\ gameOver' \in BOOLEAN
      BY <1>2, <2>1, PassTurnType DEF PlayStep
    <2>3. card \in Card /\ card.color \in Colors /\ card.number \in 0 .. MaxCardNumber
      BY CardFields, Bounds DEF TypeOK, Number
    <2>4. /\ deck' \subseteq Card
          /\ hands' \in [Seats -> SUBSET Card]
          /\ lastPlayer' \in Seats \cup {NoPlayer}
      BY <1>2, DrawCardType DEF PlayStep, Play
    <2>5. colorKnown' \subseteq Card /\ numberKnown' \subseteq Card
      BY <1>2 DEF PlayStep, Play, DropFlags, TypeOK
    <2>6. /\ fireworks' \in [Colors -> 0 .. MaxCardNumber]
          /\ discardPile' \subseteq Card
          /\ hintTokens' \in 0 .. MaxHintTokens
          /\ missTokens' \in Int /\ missTokens' <= InitialMissTokens
      <3>1. CASE Fits(card)
        BY <1>2, <2>3, <3>1, Bounds DEF PlayStep, Play, Built, TypeOK
      <3>2. CASE ~Fits(card)
        BY <1>2, <2>3, <3>2, Bounds DEF PlayStep, Play, TypeOK
      <3> QED BY <3>1, <3>2
    <2> QED BY <1>2, <2>2, <2>4, <2>5, <2>6 DEF PlayStep, TypeOK, result
  <1>3. ASSUME NEW p \in Seats, NEW card \in hands[p], DiscardStep(p, card)
        PROVE  TypeOK'
    <2>1. turnIndex' \in Seats /\ gameOver' \in BOOLEAN
      BY <1>3, PassTurnType DEF DiscardStep, TypeOK
    <2>2. /\ deck' \subseteq Card
          /\ hands' \in [Seats -> SUBSET Card]
          /\ lastPlayer' \in Seats \cup {NoPlayer}
      BY <1>3, DrawCardType DEF DiscardStep, Discard
    <2>3. card \in Card
      BY DEF TypeOK
    <2> QED BY <1>3, <2>1, <2>2, <2>3, Bounds
         DEF DiscardStep, Discard, DropFlags, TypeOK, result
  <1>4. CASE EndGame
    BY <1>4, ScoreType DEF EndGame, TypeOK, Reasons, cards, known, tokens, turn
  <1>5. CASE UNCHANGED vars
    BY <1>5 DEF vars, cards, known, tokens, turn, result, TypeOK
  <1> QED BY <1>1, <1>2, <1>3, <1>4, <1>5, StepShapes

\* Every reachable state of the engine is well typed; in particular the hint
\* tokens never pass their maximum and the turn stays at the table.
THEOREM TypeCorrect == Spec => []TypeOK
  BY InitType, NextType, EngineSteps, PTL DEF Spec

-----------------------------------------------------------------------------
\* A card that leaves a hand leaves the deck and the hands together, and the
\* card drawn for it moves from the one to the other.
LEMMA DrawCardMoves ==
  ASSUME TypeOK, OneHolderPerCard, NEW p \in Seats, NEW card \in hands[p],
         DrawCard(p, card)
  PROVE  /\ Disjoint(hands')
         /\ deck' \cap HandCards(hands') = {}
         /\ deck' \cup HandCards(hands') = (deck \cup HandCards(hands)) \ {card}
  <1>1. /\ \A q, r \in Seats : q # r => hands[q] \cap hands[r] = {}
        /\ \A q \in Seats : deck \cap hands[q] = {}
    BY DEF OneHolderPerCard, Disjoint, HandCards
  <1>2. CASE \E top \in deck :
               /\ hands' = [hands EXCEPT ![p] = (@ \ {card}) \cup {top}]
               /\ deck' = deck \ {top}
    <2>1. PICK top \in deck :
               /\ hands' = [hands EXCEPT ![p] = (@ \ {card}) \cup {top}]
               /\ deck' = deck \ {top}
      BY <1>2
    <2>2. \A q \in Seats : hands'[q] = IF q = p THEN (hands[p] \ {card}) \cup {top}
                                               ELSE hands[q]
      BY <2>1 DEF TypeOK
    <2>3. Disjoint(hands')
      BY <1>1, <2>2 DEF Disjoint
    <2>4. \A q \in Seats : deck' \cap hands'[q] = {}
      BY <1>1, <2>1, <2>2
    <2>5. HandCards(hands') = (HandCards(hands) \ {card}) \cup {top}
      <3>1. ASSUME NEW x \in HandCards(hands'), x # top
            PROVE  x \in HandCards(hands) \ {card}
        <4>1. PICK q \in Seats : x \in hands'[q]
          BY DEF HandCards
        <4>2. x \in hands[q] /\ x # card
          BY <1>1, <2>2, <3>1, <4>1
        <4> QED BY <4>2 DEF HandCards
      <3>2. ASSUME NEW x \in HandCards(hands), x # card
            PROVE  x \in HandCards(hands')
        <4>1. PICK q \in Seats : x \in hands[q]
          BY DEF HandCards
        <4>2. x \in hands'[q]
          BY <2>2, <3>2, <4>1
        <4> QED BY <4>2 DEF HandCards
      <3>3. top \in HandCards(hands')
        BY <2>2 DEF HandCards
      <3>4. card \notin HandCards(hands') \/ card = top
        BY <3>1
      <3> QED BY <3>1, <3>2, <3>3, <3>4
    <2>6. card \notin deck
      BY <1>1
    <2>7. deck' \cap HandCards(hands') = {}
      BY <2>4 DEF HandCards
    <2> QED BY <2>1, <2>3, <2>5, <2>6, <2>7
  <1>3. CASE deck = {} /\ hands' = [hands EXCEPT ![p] = @ \ {card}] /\ UNCHANGED deck
    <2>1. \A q \in Seats : hands'[q] = IF q = p THEN hands[p] \ {card} ELSE hands[q]
      BY <1>3 DEF TypeOK
    <2>2. Disjoint(hands')
      BY <1>1, <2>1 DEF Disjoint
    <2>3. \A x : x \in HandCards(hands') <=> x # card /\ x \in HandCards(hands)
      BY <1>1, <2>1 DEF HandCards
    <2> QED BY <1>3, <2>2, <2>3
  <1> QED BY <1>2, <1>3 DEF DrawCard

LEMMA NextOneHolder ==
  TypeOK /\ OneHolderPerCard /\ [EngineStep]_vars => OneHolderPerCard'
  <1> SUFFICES ASSUME TypeOK, OneHolderPerCard, [EngineStep]_vars PROVE OneHolderPerCard'
    OBVIOUS
  <1>1. CASE HintStep \/ EndGame \/ UNCHANGED vars
    <2>1. UNCHANGED cards
      BY <1>1 DEF HintStep, EndGame, vars
    <2> QED BY <2>1 DEF cards, OneHolderPerCard
  <1>2. ASSUME NEW p \in Seats, NEW card \in hands[p],
               PlayStep(p, card) \/ DiscardStep(p, card)
        PROVE  OneHolderPerCard'
    <2>1. DrawCard(p, card) /\ discardPile' \subseteq discardPile \cup {card}
      BY <1>2 DEF PlayStep, Play, DiscardStep, Discard
    <2>2. /\ Disjoint(hands')
          /\ deck' \cap HandCards(hands') = {}
          /\ deck' \cup HandCards(hands') = (deck \cup HandCards(hands)) \ {card}
      BY <2>1, DrawCardMoves
    <2> QED BY <2>1, <2>2 DEF OneHolderPerCard
  <1> QED BY <1>1, <1>2, StepShapes

\* No card is ever in two places: a draw, a play or a discard moves a card and
\* never copies it.
THEOREM OneHolder == Spec => []OneHolderPerCard
  <1>1. Init => OneHolderPerCard
    BY DEF Init, OneHolderPerCard
  <1> QED BY <1>1, TypeCorrect, NextOneHolder, EngineSteps, PTL DEF Spec

-----------------------------------------------------------------------------
\* After a card was played or discarded by the player in turn, a last player
\* that is set makes the end of the turn the end of the game.
LEMMA LastPlayerEnds ==
  ASSUME TypeOK, LastPlayerMeansOver, NEW card, NEW over \in BOOLEAN,
         gameOver => over, DrawCard(turnIndex, card), PassTurn(over)
  PROVE  LastPlayerMeansOver'
  <1> SUFFICES ASSUME lastPlayer' # NoPlayer PROVE gameOver'
    BY DEF LastPlayerMeansOver
  <1>1. CASE over
    BY <1>1 DEF PassTurn, AdvanceTurn, EndTurn
  <1>2. CASE ~over
    <2>1. lastPlayer = NoPlayer
      BY <1>2 DEF LastPlayerMeansOver
    <2>2. deck' = {} /\ lastPlayer' = turnIndex
      BY <2>1 DEF DrawCard
    <2>3. EndTurn(over)
      BY <1>2 DEF PassTurn, AdvanceTurn
    <2> QED BY <2>2, <2>3 DEF EndTurn
  <1> QED BY <1>1, <1>2

LEMMA NextLastPlayer ==
  TypeOK /\ LastPlayerMeansOver /\ [EngineStep]_vars => LastPlayerMeansOver'
  <1> SUFFICES ASSUME TypeOK, LastPlayerMeansOver, [EngineStep]_vars
               PROVE  LastPlayerMeansOver'
    OBVIOUS
  <1>1. CASE HintStep
    <2>1. lastPlayer' = lastPlayer /\ AdvanceTurn(gameOver)
      BY <1>1 DEF HintStep
    <2>2. gameOver => gameOver'
      BY <2>1 DEF AdvanceTurn, EndTurn
    <2> QED BY <2>1, <2>2 DEF LastPlayerMeansOver
  <1>2. ASSUME NEW p \in Seats, NEW card \in hands[p], PlayStep(p, card)
        PROVE  LastPlayerMeansOver'
    <2>1. OverAfterPlay(card) \in BOOLEAN /\ (gameOver => OverAfterPlay(card))
      BY DEF OverAfterPlay, TypeOK
    <2> QED BY <1>2, <2>1, LastPlayerEnds DEF PlayStep, Play
  <1>3. ASSUME NEW p \in Seats, NEW card \in hands[p], DiscardStep(p, card)
        PROVE  LastPlayerMeansOver'
    <2>1. gameOver \in BOOLEAN
      BY DEF TypeOK
    <2> QED BY <1>3, <2>1, LastPlayerEnds DEF DiscardStep, Discard
  <1>4. CASE EndGame \/ UNCHANGED vars
    BY <1>4 DEF EndGame, vars, turn, LastPlayerMeansOver
  <1> QED BY <1>1, <1>2, <1>3, <1>4, StepShapes

\* The request that finds the deck empty and sets the last player also ends
\* the game: a running game never has a last player.
THEOREM LastPlayerOver == Spec => []LastPlayerMeansOver
  <1>1. Init => LastPlayerMeansOver
    BY DEF Init, LastPlayerMeansOver
  <1> QED BY <1>1, TypeCorrect, NextLastPlayer, EngineSteps, PTL DEF Spec

-----------------------------------------------------------------------------
\* HandsStayFull is not inductive: that the game runs does not tell that every
\* draw so far found a card.  That no draw has failed is LastPlayer = -1.
FullUntilLast ==
  lastPlayer = NoPlayer => \A p \in Seats : Cardinality(hands[p]) = HandSize

\* As long as no draw has failed, a step leaves everyone as many cards.
LEMMA NextKeepsSizes ==
  ASSUME TypeOK, OneHolderPerCard, [EngineStep]_vars, lastPlayer' = NoPlayer, NEW q \in Seats
  PROVE  lastPlayer = NoPlayer /\ Cardinality(hands'[q]) = Cardinality(hands[q])
  <1>1. CASE HintStep \/ EndGame \/ UNCHANGED vars
    <2>1. UNCHANGED cards /\ UNCHANGED lastPlayer
      BY <1>1 DEF HintStep, EndGame, turn, vars
    <2> QED BY <2>1 DEF cards
  <1>2. ASSUME NEW p \in Seats, NEW card \in hands[p],
               PlayStep(p, card) \/ DiscardStep(p, card)
        PROVE  lastPlayer = NoPlayer /\ Cardinality(hands'[q]) = Cardinality(hands[q])
    <2>1. DrawCard(p, card)
      BY <1>2 DEF PlayStep, Play, DiscardStep, Discard
    <2>2. p # NoPlayer
      BY PlayersAssumption DEF Seats, NoPlayer
    <2>3. /\ lastPlayer = NoPlayer
          /\ \E top \in deck : hands' = [hands EXCEPT ![p] = (@ \ {card}) \cup {top}]
      BY <2>1, <2>2 DEF DrawCard
    <2>4. PICK top \in deck : hands' = [hands EXCEPT ![p] = (@ \ {card}) \cup {top}]
      BY <2>3
    <2>5. CASE q # p
      BY <2>3, <2>4, <2>5 DEF TypeOK
    <2>6. CASE q = p
      <3>1. hands'[q] = (hands[p] \ {card}) \cup {top}
        BY <2>4, <2>6 DEF TypeOK
      <3>2. top \notin hands[p]
        BY DEF OneHolderPerCard, HandCards
      <3>3. IsFiniteSet(hands[p])
        BY CardFinite, FS_Subset DEF TypeOK
      <3>4. /\ IsFiniteSet(hands[p] \ {card}) /\ Cardinality(hands[p]) \in Nat
            /\ Cardinality(hands[p] \ {card}) = Cardinality(hands[p]) - 1
        BY <3>3, FS_RemoveElement, FS_CardinalityType
      <3>5. Cardinality(hands'[q]) = Cardinality(hands[p]) - 1 + 1
        BY <3>1, <3>2, <3>4, FS_AddElement
      <3> QED BY <2>3, <2>6, <3>4, <3>5
    <2> QED BY <2>5, <2>6
  <1> QED BY <1>1, <1>2, StepShapes

LEMMA NextFull ==
  TypeOK /\ OneHolderPerCard /\ FullUntilLast /\ [EngineStep]_vars => FullUntilLast'
  BY NextKeepsSizes DEF FullUntilLast

\* While a game runs every hand is full, whatever the players did: the player
\* in turn can always move, and so can the timeout that moves for a player.
THEOREM HandsFull == Spec => []HandsStayFull
  <1>1. Init => FullUntilLast
    BY DEF Init, FullUntilLast
  <1>2. Spec => []FullUntilLast
    BY <1>1, TypeCorrect, OneHolder, NextFull, EngineSteps, PTL DEF Spec
  <1>3. FullUntilLast /\ LastPlayerMeansOver => HandsStayFull
    BY DEF FullUntilLast, LastPlayerMeansOver, HandsStayFull
  <1> QED BY <1>2, <1>3, LastPlayerOver, PTL

-----------------------------------------------------------------------------
\* GameOver after a request of the player in turn: the handler set it, or the
\* deck is empty and there is a last player.
LEMMA OverAfterTurn ==
  ASSUME TypeOK, LastPlayerMeansOver, NEW card, NEW over \in BOOLEAN,
         gameOver => over, DrawCard(turnIndex, card), PassTurn(over)
  PROVE  gameOver' <=> over \/ (deck' = {} /\ lastPlayer' # NoPlayer)
  <1>1. CASE over
    BY <1>1 DEF PassTurn, AdvanceTurn, EndTurn
  <1>2. CASE ~over
    <2>1. lastPlayer = NoPlayer
      BY <1>2 DEF LastPlayerMeansOver
    <2>2. lastPlayer' # NoPlayer => lastPlayer' = turnIndex
      BY <2>1 DEF DrawCard
    <2>3. EndTurn(over)
      BY <1>2 DEF PassTurn, AdvanceTurn
    <2> QED BY <1>2, <2>2, <2>3 DEF EndTurn
  <1> QED BY <1>1, <1>2

\* A deck that is empty stays empty, and a last player stays the last player.
LEMMA ExhaustedStays ==
  ASSUME NEW p \in Seats, NEW card, DrawCard(p, card),
         deck = {}, lastPlayer # NoPlayer
  PROVE  deck' = {} /\ lastPlayer' # NoPlayer
  BY DEF DrawCard

\* No card fits a complete table.
LEMMA CompleteStays ==
  ASSUME TypeOK, \A c \in Colors : fireworks[c] = MaxCardNumber,
         NEW p \in Seats, NEW card \in hands[p]
  PROVE  ~Fits(card)
  <1>1. card.color \in Colors /\ card.number \in Number
    BY CardFields DEF TypeOK
  <1> QED BY <1>1, Bounds DEF Fits, Number

LEMMA NextOverHasReason ==
  TypeOK /\ LastPlayerMeansOver /\ OverHasReason /\ [EngineStep]_vars => OverHasReason'
  <1> SUFFICES ASSUME TypeOK, LastPlayerMeansOver, OverHasReason, [EngineStep]_vars
               PROVE  OverHasReason'
    OBVIOUS
  <1>1. CASE HintStep
    <2>1. UNCHANGED <<deck, fireworks, missTokens, lastPlayer>>
      BY <1>1 DEF HintStep, cards
    <2>2. AdvanceTurn(gameOver)
      BY <1>1 DEF HintStep
    <2>3. gameOver' <=> gameOver
      <3>1. CASE gameOver
        BY <2>2, <3>1 DEF AdvanceTurn
      <3>2. CASE ~gameOver
        <4>1. ~(deck' = {} /\ lastPlayer' # NoPlayer)
          BY <2>1, <3>2 DEF OverHasReason
        <4> QED BY <2>2, <3>2, <4>1 DEF AdvanceTurn, EndTurn
      <3> QED BY <3>1, <3>2
    <2> QED BY <2>1, <2>3 DEF OverHasReason
  <1>2. ASSUME NEW p \in Seats, NEW card \in hands[p], PlayStep(p, card)
        PROVE  OverHasReason'
    <2>1. /\ turnIndex = p /\ DrawCard(p, card) /\ PassTurn(OverAfterPlay(card))
          /\ \/ Fits(card) /\ fireworks' = Built(card) /\ missTokens' = missTokens
             \/ ~Fits(card) /\ fireworks' = fireworks /\ missTokens' = missTokens - 1
      BY <1>2 DEF PlayStep, Play
    <2>2. OverAfterPlay(card) \in BOOLEAN /\ (gameOver => OverAfterPlay(card))
      BY DEF OverAfterPlay, TypeOK
    <2>3. gameOver' <=> OverAfterPlay(card) \/ (deck' = {} /\ lastPlayer' # NoPlayer)
      BY <2>1, <2>2, OverAfterTurn
    <2>4. missTokens \in Int
      BY DEF TypeOK
    <2>5. CASE gameOver
      <3>1. CASE Score(fireworks) = PerfectScore
        <4>1. fireworks' = fireworks
          BY <2>1, <3>1, PerfectMeansComplete, CompleteStays DEF TypeOK
        <4> QED BY <2>2, <2>3, <2>5, <3>1, <4>1 DEF OverHasReason
      <3>2. CASE missTokens <= 0
        BY <2>1, <2>2, <2>3, <2>4, <2>5, <3>2 DEF OverHasReason
      <3>3. CASE deck = {} /\ lastPlayer # NoPlayer
        BY <2>1, <2>2, <2>3, <2>5, <3>3, ExhaustedStays DEF OverHasReason
      <3> QED BY <2>5, <3>1, <3>2, <3>3 DEF OverHasReason
    <2>6. CASE ~gameOver
      <3>1. Score(fireworks) # PerfectScore /\ ~(missTokens <= 0)
        BY <2>6 DEF OverHasReason
      <3>2. OverAfterPlay(card) <=> Score(fireworks') = PerfectScore \/ missTokens' <= 0
        <4>1. CASE Fits(card)
          BY <2>1, <2>6, <3>1, <4>1 DEF OverAfterPlay
        <4>2. CASE ~Fits(card)
          BY <2>1, <2>6, <3>1, <4>2 DEF OverAfterPlay
        <4> QED BY <4>1, <4>2
      <3> QED BY <2>3, <3>2 DEF OverHasReason
    <2> QED BY <2>5, <2>6
  <1>3. ASSUME NEW p \in Seats, NEW card \in hands[p], DiscardStep(p, card)
        PROVE  OverHasReason'
    <2>1. /\ turnIndex = p /\ DrawCard(p, card) /\ PassTurn(gameOver)
          /\ UNCHANGED <<fireworks, missTokens>>
      BY <1>3 DEF DiscardStep, Discard
    <2>2. gameOver' <=> gameOver \/ (deck' = {} /\ lastPlayer' # NoPlayer)
      BY <2>1, OverAfterTurn DEF TypeOK
    <2>3. deck = {} /\ lastPlayer # NoPlayer => deck' = {} /\ lastPlayer' # NoPlayer
      BY <2>1, ExhaustedStays
    <2> QED BY <2>1, <2>2, <2>3 DEF OverHasReason
  <1>4. CASE EndGame \/ UNCHANGED vars
    BY <1>4 DEF EndGame, vars, cards, tokens, turn, OverHasReason
  <1> QED BY <1>1, <1>2, <1>3, <1>4, StepShapes

LEMMA InitOverHasReason == Init => OverHasReason
  <1> SUFFICES ASSUME Init PROVE OverHasReason
    OBVIOUS
  <1>1. fireworks \in [Colors -> 0 .. MaxCardNumber]
    BY Bounds DEF Init
  <1>2. Score(fireworks) # PerfectScore
    <2>1. \A c \in Colors : fireworks[c] = 0
      BY DEF Init
    <2>2. \E c \in Colors : fireworks[c] # MaxCardNumber
      BY <2>1, ColorsAssumption, Bounds
    <2> QED BY <1>1, <2>2, PerfectMeansComplete
  <1>3. ~(missTokens <= 0)
    BY Bounds DEF Init
  <1> QED BY <1>2, <1>3 DEF Init, OverHasReason

\* A game is over exactly when the fireworks are complete, the misses are spent
\* or the deck is exhausted, also after requests that arrive late.
THEOREM OverForAReason == Spec => []OverHasReason
  BY InitOverHasReason, TypeCorrect, LastPlayerOver, NextOverHasReason, EngineSteps, PTL DEF Spec

-----------------------------------------------------------------------------
\* The cards that lie nowhere after a card was played or discarded: the one
\* that was played on a firework is added, one that goes to the pile is not.
LEMMA PlayedAfter ==
  ASSUME TypeOK, OneHolderPerCard, NEW p \in Seats, NEW card \in hands[p],
         DrawCard(p, card)
  PROVE  /\ discardPile' = discardPile => Played' = Played \cup {card}
         /\ discardPile' = discardPile \cup {card} => Played' = Played
  <1>1. deck' \cup HandCards(hands') = (deck \cup HandCards(hands)) \ {card}
    BY DrawCardMoves
  <1>2. card \in HandCards(hands) /\ card \in Card
    BY DEF HandCards, TypeOK
  <1>3. card \notin discardPile
    BY <1>2 DEF OneHolderPerCard
  <1> QED BY <1>1, <1>2, <1>3 DEF Played

LEMMA NextFireworks ==
  TypeOK /\ OneHolderPerCard /\ FireworksAccountForCards /\ [EngineStep]_vars
    => FireworksAccountForCards'
  <1> SUFFICES ASSUME TypeOK, OneHolderPerCard, FireworksAccountForCards, [EngineStep]_vars
               PROVE  FireworksAccountForCards'
    OBVIOUS
  <1>1. ASSUME Played' = Played, fireworks' = fireworks
        PROVE  FireworksAccountForCards'
    BY <1>1 DEF FireworksAccountForCards
  <1>2. CASE HintStep \/ EndGame \/ UNCHANGED vars
    <2>1. UNCHANGED cards
      BY <1>2 DEF HintStep, EndGame, vars
    <2> QED BY <1>1, <2>1 DEF cards, Played
  <1>3. ASSUME NEW p \in Seats, NEW card \in hands[p], PlayStep(p, card), Fits(card)
        PROVE  FireworksAccountForCards'
    <2>1. Played' = Played \cup {card} /\ fireworks' = Built(card)
      BY <1>3, PlayedAfter DEF PlayStep, Play
    <2>2. card.color \in Colors /\ card.number = fireworks[card.color] + 1
      BY <1>3, CardFields DEF Fits, TypeOK
    <2>3. \A c \in Colors : /\ fireworks[c] \in Nat
                            /\ fireworks'[c] = IF c = card.color THEN card.number
                                                                ELSE fireworks[c]
      BY <2>1, <2>2 DEF TypeOK, Built
    <2>4. \A x \in Played : x.color \in Colors /\ x.number \in Nat /\ x.number <= fireworks[x.color]
      BY CardFields DEF Played, Number, FireworksAccountForCards
    <2>5. \A x \in Played' : x.number <= fireworks'[x.color]
      BY <2>1, <2>2, <2>3, <2>4
    <2>6. \A x, y \in Played' : x.color = y.color /\ x.number = y.number => x = y
      <3>1. \A x \in Played : ~(x.color = card.color /\ x.number = card.number)
        BY <2>2, <2>3, <2>4
      <3> QED BY <2>1, <3>1 DEF FireworksAccountForCards
    <2>7. ASSUME NEW c \in Colors, NEW n \in 1 .. fireworks'[c]
          PROVE  \E x \in Played' : x.color = c /\ x.number = n
      <3>1. CASE c = card.color /\ n = card.number
        BY <2>1, <3>1
      <3>2. CASE ~(c = card.color /\ n = card.number)
        <4>1. n \in 1 .. fireworks[c]
          BY <2>2, <2>3, <3>2
        <4>2. \E x \in Played : x.color = c /\ x.number = n
          BY <4>1 DEF FireworksAccountForCards
        <4> QED BY <2>1, <4>2
      <3> QED BY <3>1, <3>2
    <2> QED BY <2>5, <2>6, <2>7 DEF FireworksAccountForCards
  <1>4. ASSUME NEW p \in Seats, NEW card \in hands[p],
               (PlayStep(p, card) /\ ~Fits(card)) \/ DiscardStep(p, card)
        PROVE  FireworksAccountForCards'
    <2>1. /\ DrawCard(p, card) /\ discardPile' = discardPile \cup {card}
          /\ fireworks' = fireworks
      BY <1>4 DEF PlayStep, Play, DiscardStep, Discard
    <2> QED BY <1>1, <2>1, PlayedAfter
  <1> QED BY <1>2, <1>3, <1>4, StepShapes

\* No card is lost and none counts twice: what is in no deck, hand or pile is
\* what the fireworks show, one card of each number up to their heights.
THEOREM FireworksAccount == Spec => []FireworksAccountForCards
  <1>1. Init => FireworksAccountForCards
    <2> SUFFICES ASSUME Init PROVE FireworksAccountForCards
      OBVIOUS
    <2>1. Played = {}
      BY DEF Init, Played
    <2>2. \A c \in Colors : fireworks[c] = 0
      BY DEF Init
    <2> QED BY <2>1, <2>2 DEF FireworksAccountForCards
  <1> QED BY <1>1, TypeCorrect, OneHolder, NextFireworks, EngineSteps, PTL DEF Spec

-----------------------------------------------------------------------------
\* The reasons, once true of a table, stay true of it.
LEMMA ReasonsStay ==
  ASSUME TypeOK, [EngineStep]_vars, ~EndGame
  PROVE  /\ (\A c \in Colors : fireworks[c] = MaxCardNumber)
               => \A c \in Colors : fireworks'[c] = MaxCardNumber
         /\ missTokens <= 0 => missTokens' <= 0
         /\ deck = {} => deck' = {}
         /\ endReason' = endReason
  <1>1. CASE HintStep \/ UNCHANGED vars
    BY <1>1 DEF HintStep, vars, cards, tokens, result
  <1>2. ASSUME NEW p \in Seats, NEW card \in hands[p],
               PlayStep(p, card) \/ DiscardStep(p, card)
        PROVE  /\ (\A c \in Colors : fireworks[c] = MaxCardNumber)
                     => \A c \in Colors : fireworks'[c] = MaxCardNumber
               /\ missTokens <= 0 => missTokens' <= 0
               /\ deck = {} => deck' = {}
               /\ endReason' = endReason
    <2>1. (\A c \in Colors : fireworks[c] = MaxCardNumber) => fireworks' = fireworks
      BY <1>2, CompleteStays DEF PlayStep, Play, DiscardStep, Discard
    <2>2. missTokens <= 0 => missTokens' <= 0
      BY <1>2 DEF PlayStep, Play, DiscardStep, Discard, TypeOK
    <2>3. deck = {} => deck' = {}
      BY <1>2 DEF PlayStep, Play, DiscardStep, Discard, DrawCard
    <2>4. endReason' = endReason
      BY <1>2 DEF PlayStep, DiscardStep, result
    <2> QED BY <2>1, <2>2, <2>3, <2>4
  <1> QED BY <1>1, <1>2, StepShapes

LEMMA NextEndReason ==
  TypeOK /\ OverHasReason /\ EndReasonTruthful /\ [EngineStep]_vars => EndReasonTruthful'
  <1> SUFFICES ASSUME TypeOK, OverHasReason, EndReasonTruthful, [EngineStep]_vars
               PROVE  EndReasonTruthful'
    OBVIOUS
  <1>1. CASE ~EndGame
    BY <1>1, ReasonsStay DEF EndReasonTruthful
  <1>2. CASE EndGame
    <2>1. UNCHANGED <<deck, fireworks, missTokens>>
      BY <1>2 DEF EndGame, cards, tokens
    <2>2. \/ Score(fireworks) = PerfectScore /\ endReason' = "perfect"
          \/ /\ Score(fireworks) # PerfectScore /\ missTokens <= 0
             /\ endReason' = "miss_depleted"
          \/ /\ Score(fireworks) # PerfectScore /\ ~(missTokens <= 0)
             /\ endReason' = "deck_exhausted"
      BY <1>2 DEF EndGame
    <2>3. Score(fireworks) # PerfectScore /\ ~(missTokens <= 0) => deck = {}
      BY <1>2 DEF EndGame, OverHasReason
    <2>4. Score(fireworks) = PerfectScore => \A c \in Colors : fireworks[c] = MaxCardNumber
      BY PerfectMeansComplete DEF TypeOK
    <2> QED BY <2>1, <2>2, <2>3, <2>4 DEF EndReasonTruthful
  <1> QED BY <1>1, <1>2

\* The reason that EndGame recorded stays true of the table for good.
THEOREM EndReasonStaysTrue == Spec => []EndReasonTruthful
  <1>1. Init => EndReasonTruthful
    BY DEF Init, EndReasonTruthful, NoReason
  <1> QED BY <1>1, TypeCorrect, OverForAReason, NextEndReason, EngineSteps, PTL DEF Spec

-----------------------------------------------------------------------------
\* The deck and the hands are finite and apart, so that the cards that are
\* still to be played or discarded can be counted together.
LEMMA CardsLeft ==
  ASSUME TypeOK, OneHolderPerCard
  PROVE  /\ IsFiniteSet(deck \cup HandCards(hands))
         /\ Cardinality(deck) + Cardinality(HandCards(hands))
              = Cardinality(deck \cup HandCards(hands))
         /\ Cardinality(deck \cup HandCards(hands)) \in Nat
  <1>1. HandCards(hands) \subseteq Card
    BY DEF TypeOK, HandCards
  <1>2. IsFiniteSet(deck) /\ IsFiniteSet(HandCards(hands))
    BY <1>1, CardFinite, FS_Subset DEF TypeOK
  <1>3. deck \cap HandCards(hands) = {}
    BY DEF OneHolderPerCard
  <1>4. /\ IsFiniteSet(deck \cup HandCards(hands))
        /\ Cardinality(deck \cup HandCards(hands))
             = Cardinality(deck) + Cardinality(HandCards(hands))
                 - Cardinality(deck \cap HandCards(hands))
    BY <1>2, FS_Union
  <1>5. Cardinality(deck \cap HandCards(hands)) = 0
    BY <1>3, FS_EmptySet
  <1> QED BY <1>2, <1>4, <1>5, FS_CardinalityType

\* A hint costs a token; a card gone is worth more than the token it returns.
LEMMA Spent ==
  ASSUME NEW l \in Nat, NEW m \in Nat, NEW h \in Nat, NEW k \in Nat,
         (m = l /\ k < h) \/ (m = l - 1 /\ k <= h + 1)
  PROVE  2 * m + k < 2 * l + h
  OBVIOUS

LEMMA NextUsesBudget ==
  ASSUME TypeOK, OneHolderPerCard, TypeOK', OneHolderPerCard', [EngineStep]_vars
  PROVE  Budget' < Budget \/ UNCHANGED <<cards, known, tokens, turn>>
  <1> DEFINE left == Cardinality(deck \cup HandCards(hands))
             leftAfter == Cardinality(deck' \cup HandCards(hands'))
  <1>1. left \in Nat /\ Budget = 2 * left + hintTokens
    BY CardsLeft DEF Budget
  <1>2. leftAfter \in Nat /\ Budget' = 2 * leftAfter + hintTokens'
    <2>1. (TypeOK /\ OneHolderPerCard =>
             /\ Cardinality(deck) + Cardinality(HandCards(hands))
                  = Cardinality(deck \cup HandCards(hands))
             /\ Cardinality(deck \cup HandCards(hands)) \in Nat)'
      BY CardsLeft, PTL
    <2> QED BY <2>1 DEF Budget, HandCards
  <1>3. hintTokens \in Nat /\ hintTokens' \in Nat
    BY Bounds DEF TypeOK
  <1>4. CASE HintStep
    <2>1. leftAfter = left
      BY <1>4 DEF HintStep, cards
    <2>2. hintTokens' < hintTokens
      BY <1>3, <1>4 DEF HintStep
    <2>3. 2 * leftAfter + hintTokens' < 2 * left + hintTokens
      BY <1>1, <1>2, <1>3, <2>1, <2>2, Spent
    <2> QED BY <1>1, <1>2, <2>3
  <1>5. ASSUME NEW p \in Seats, NEW card \in hands[p],
               PlayStep(p, card) \/ DiscardStep(p, card)
        PROVE  Budget' < Budget
    <2>1. DrawCard(p, card) /\ hintTokens' <= hintTokens + 1
      BY <1>3, <1>5 DEF PlayStep, Play, DiscardStep, Discard
    <2>2. deck' \cup HandCards(hands') = (deck \cup HandCards(hands)) \ {card}
      BY <2>1, DrawCardMoves
    <2>3. card \in deck \cup HandCards(hands)
      BY DEF HandCards
    <2>4. leftAfter = left - 1
      BY <2>2, <2>3, CardsLeft, FS_RemoveElement
    <2>5. 2 * leftAfter + hintTokens' < 2 * left + hintTokens
      BY <1>1, <1>2, <1>3, <2>1, <2>4, Spent
    <2> QED BY <1>1, <1>2, <2>5
  <1>6. CASE EndGame \/ UNCHANGED vars
    BY <1>6 DEF EndGame, vars
  <1> QED BY <1>4, <1>5, <1>6, StepShapes

\* No request is free: each one, and each forced action, uses up some of what
\* a game has left to do, so no exchange of hints and discards lasts for ever.
THEOREM RequestsUse == Spec => RequestsUseBudget
  BY TypeCorrect, OneHolder, NextUsesBudget, EngineSteps, PTL DEF Spec, RequestsUseBudget

-----------------------------------------------------------------------------
(***************************************************************************)
(* The strategy: a theorem about Spec says what it sees and decides at     *)
(* every table that a game can reach, whoever plays.                       *)
(***************************************************************************)

\* A view of the table that shows, at least, what the decisions look at: the
\* cards of the others, and those of its own of which all is known.
Shows(p, seen) ==
  /\ \A q \in Seats \ {p} : \A x \in hands[q] : seen[x] = Face(x.color, x.number)
  /\ \A x \in hands[p] \cap colorKnown \cap numberKnown :
       seen[x] = Face(x.color, x.number)

\* The whole table shows that, and so does a player's view of it.
LEMMA FacesShow ==
  ASSUME NEW p \in Seats
  PROVE  Shows(p, Faces)
  BY DEF Shows, Faces, HandCards

LEMMA ViewShows ==
  ASSUME OneHolderPerCard, NEW p \in Seats
  PROVE  Shows(p, GetPlayerView(p))
  BY DEF Shows, GetPlayerView, HandCards, OneHolderPerCard, Disjoint

\* A shown card fits as its face does.
LEMMA ShownFits ==
  ASSUME TypeOK, NEW q \in Seats, NEW x \in hands[q]
  PROVE  FitsFace(Face(x.color, x.number)) <=> Fits(x)
  <1>1. x.color \in Colors
    BY CardFields DEF TypeOK
  <1> QED BY <1>1 DEF FitsFace, Face, Height, Fits

\* What a hint of such a card says.
HintOf(q, x) ==
  IF x \notin colorKnown THEN HintDecision(q, "color", x.color)
                         ELSE HintDecision(q, "number", x.number)

\* The safe plays are those of known cards that fit.
LEMMA SafePlaysFit ==
  ASSUME TypeOK, NEW p \in Seats, NEW seen, Shows(p, seen)
  PROVE  SafePlays(p, seen) =
           { PlayDecision(x) : x \in { y \in hands[p] : /\ y \in colorKnown \cap numberKnown
                                                        /\ Fits(y) } }
  <1>1. ASSUME NEW y \in hands[p], y \in colorKnown \cap numberKnown
        PROVE  FitsFace(seen[y]) <=> Fits(y)
    <2>1. seen[y] = Face(y.color, y.number)
      BY <1>1 DEF Shows
    <2> QED BY <2>1, ShownFits
  <1> QED BY <1>1 DEF SafePlays

\* A useful hint tells something of a card of another player that fits.
LEMMA UsefulHintsFit ==
  ASSUME TypeOK, NEW p \in Seats, NEW seen, Shows(p, seen), NEW d
  PROVE  d \in UsefulHints(p, seen) <=>
           \E q \in Seats \ {p} : \E x \in hands[q] :
              Fits(x) /\ x \notin colorKnown \cap numberKnown /\ d = HintOf(q, x)
  <1> DEFINE Of(q) == { y \in hands[q] : FitsFace(seen[y])
                                         /\ y \notin colorKnown \cap numberKnown }
             Says(q, x) == IF x \notin colorKnown
                           THEN HintDecision(q, "color", seen[x].color)
                           ELSE HintDecision(q, "number", seen[x].number)
             Hints(q) == { Says(q, x) : x \in Of(q) }
  <1>1. ASSUME NEW q \in Seats \ {p}, NEW x \in hands[q]
        PROVE  /\ FitsFace(seen[x]) <=> Fits(x)
               /\ Says(q, x) = HintOf(q, x)
    <2>1. seen[x] = Face(x.color, x.number)
      BY <1>1 DEF Shows
    <2>2. seen[x].color = x.color /\ seen[x].number = x.number
      BY <2>1 DEF Face
    <2> QED BY <2>1, <2>2, ShownFits DEF HintOf
  <1>2. UsefulHints(p, seen) = UNION { Hints(q) : q \in Seats \ {p} }
    BY DEF UsefulHints
  <1> HIDE DEF Says
  <1>3. d \in UNION { Hints(q) : q \in Seats \ {p} } <=>
          \E q \in Seats \ {p} : \E x \in Of(q) : d = Says(q, x)
    OBVIOUS
  <1> QED BY <1>1, <1>2, <1>3

\* Decide, one case at a time.
LEMMA DecideCases ==
  ASSUME NEW p, NEW seen
  PROVE  LET useful == IF hintTokens > 0 THEN UsefulHints(p, seen) ELSE {}
         IN  /\ SafePlays(p, seen) # {} => Decide(p, seen) = SafePlays(p, seen)
             /\ SafePlays(p, seen) = {} /\ useful # {} => Decide(p, seen) = useful
             /\ SafePlays(p, seen) = {} /\ useful = {} /\ hintTokens < MaxHintTokens =>
                  Decide(p, seen) = Discards(p)
             /\ SafePlays(p, seen) = {} /\ useful = {} /\ ~(hintTokens < MaxHintTokens) =>
                  Decide(p, seen) = { PlayDecision(x) : x \in hands[p] }
  BY DEF Decide

\* Two views that show that much lead to the same decisions.
LEMMA SameDecisions ==
  ASSUME TypeOK, NEW p \in Seats, NEW s, NEW t, Shows(p, s), Shows(p, t)
  PROVE  Decide(p, s) = Decide(p, t)
  <1>1. SafePlays(p, s) = SafePlays(p, t)
    BY SafePlaysFit
  <1>2. \A d : d \in UsefulHints(p, s) <=> d \in UsefulHints(p, t)
    BY UsefulHintsFit
  <1>3. UsefulHints(p, s) = UsefulHints(p, t)
    <2>1. UsefulHints(p, s) \subseteq UsefulHints(p, t)
      BY <1>2, Zenon
    <2>2. UsefulHints(p, t) \subseteq UsefulHints(p, s)
      BY <1>2, Zenon
    <2> QED BY <2>1, <2>2, Zenon
  <1> QED BY <1>1, <1>3 DEF Decide

\* A strategy that is handed the whole table decides as on its own view of it.
THEOREM AIDecidesFromItsView == Spec => []DecidesFromItsView
  <1>1. ASSUME TypeOK, OneHolderPerCard PROVE DecidesFromItsView
    BY <1>1, FacesShow, ViewShows, SameDecisions DEF DecidesFromItsView
  <1> QED BY <1>1, TypeCorrect, OneHolder, PTL

\* What a decision is, whichever rule of the strategy made it.
LEMMA DecisionKinds ==
  ASSUME TypeOK, NEW p \in Seats, NEW d \in Decide(p, Faces)
  PROVE  \/ \E x \in hands[p] : d = PlayDecision(x) /\ Fits(x)
         \/ /\ hintTokens > 0
            /\ \E q \in Seats \ {p} : \E x \in hands[q] :
                 Fits(x) /\ x \notin colorKnown \cap numberKnown /\ d = HintOf(q, x)
         \/ /\ hintTokens < MaxHintTokens
            /\ \E x \in hands[p] : d = DiscardDecision(x)
         \/ /\ hintTokens = MaxHintTokens /\ UsefulHints(p, Faces) = {}
            /\ \E x \in hands[p] : d = PlayDecision(x)
  <1> DEFINE useful == IF hintTokens > 0 THEN UsefulHints(p, Faces) ELSE {}
  <1>0. Shows(p, Faces)
    BY FacesShow
  <1>1. CASE SafePlays(p, Faces) # {}
    <2>1. d \in SafePlays(p, Faces)
      BY <1>1, DecideCases
    <2> QED BY <2>1, <1>0, SafePlaysFit
  <1>2. CASE SafePlays(p, Faces) = {} /\ useful # {}
    <2>1. d \in useful
      BY <1>2, DecideCases
    <2>2. hintTokens > 0 /\ d \in UsefulHints(p, Faces)
      BY <2>1
    <2> QED BY <2>2, <1>0, UsefulHintsFit
  <1>3. CASE SafePlays(p, Faces) = {} /\ useful = {} /\ hintTokens < MaxHintTokens
    <2>1. d \in Discards(p)
      BY <1>3, DecideCases
    <2> QED BY <2>1, <1>3 DEF Discards
  <1>4. CASE SafePlays(p, Faces) = {} /\ useful = {} /\ ~(hintTokens < MaxHintTokens)
    <2>1. d \in { PlayDecision(x) : x \in hands[p] }
      BY <1>4, DecideCases
    <2>2. hintTokens = MaxHintTokens /\ hintTokens > 0
      BY <1>4, Bounds DEF TypeOK
    <2> QED BY <2>1, <2>2, <1>4
  <1> QED BY <1>1, <1>2, <1>3, <1>4, Zenon

\* The player in turn of a running game always has a decision.
LEMMA SomeDecision ==
  ASSUME NEW p \in Seats, hands[p] # {}, NEW seen
  PROVE  Decide(p, seen) # {}
  <1>1. Discards(p) # {}
    BY DEF Discards
  <1>2. { PlayDecision(x) : x \in hands[p] } # {}
    OBVIOUS
  <1> QED BY <1>1, <1>2, DecideCases

\* A useful hint names a card that it matches and tells something of it.
LEMMA HintTells ==
  ASSUME NEW q \in Seats, NEW x \in hands[q], x \notin colorKnown \cap numberKnown
  PROVE  LET d == HintOf(q, x)
         IN  /\ d.type = "give_hint" /\ d.to = q /\ x \in Matching(d)
             /\ x \notin IF d.kind = "color" THEN colorKnown ELSE numberKnown
  <1>1. CASE x \notin colorKnown
    BY <1>1 DEF HintOf, HintDecision, Matching
  <1>2. CASE x \in colorKnown
    BY <1>2 DEF HintOf, HintDecision, Matching
  <1> QED BY <1>1, <1>2

\* The engine never refuses a strategy its turn.
THEOREM AIIsNeverRefused == Spec => []DecisionsAreAccepted
  <1>1. ASSUME TypeOK, HandsStayFull PROVE DecisionsAreAccepted
    <2> SUFFICES ASSUME ~gameOver
                 PROVE  /\ Decide(turnIndex, Faces) # {}
                        /\ \A d \in Decide(turnIndex, Faces) : Accepts(turnIndex, d)
      BY DEF DecisionsAreAccepted
    <2>1. turnIndex \in Seats
      BY <1>1 DEF TypeOK
    <2>2. hands[turnIndex] # {}
      <3>1. Cardinality(hands[turnIndex]) = HandSize
        BY <1>1, <2>1 DEF HandsStayFull
      <3>2. HandSize # 0
        BY HandsAssumption DEF HandSize
      <3> QED BY <3>1, <3>2, FS_EmptySet
    <2>3. ASSUME NEW d \in Decide(turnIndex, Faces)
          PROVE  Accepts(turnIndex, d)
      <3>1. ASSUME NEW x \in hands[turnIndex], d = PlayDecision(x)
            PROVE  Accepts(turnIndex, d)
        BY <3>1 DEF Accepts, PlayDecision
      <3>2. ASSUME NEW x \in hands[turnIndex], d = DiscardDecision(x),
                   hintTokens < MaxHintTokens
            PROVE  Accepts(turnIndex, d)
        BY <3>2 DEF Accepts, DiscardDecision
      <3>3. ASSUME NEW q \in Seats \ {turnIndex}, NEW x \in hands[q],
                   x \notin colorKnown \cap numberKnown, d = HintOf(q, x), hintTokens > 0
            PROVE  Accepts(turnIndex, d)
        <4>1. d.type = "give_hint" /\ d.to = q /\ x \in Matching(d)
          BY <3>3, HintTells
        <4> QED BY <4>1, <3>3 DEF Accepts
      <3> QED BY <1>1, <2>1, <3>1, <3>2, <3>3, DecisionKinds
    <2> QED BY <2>1, <2>2, <2>3, SomeDecision
  <1> QED BY <1>1, TypeCorrect, HandsFull, PTL

\* A strategy misplays only when there is nothing else to do, and hints only
\* what its player does not know.
THEOREM AIMissesOnlyWhenForced == Spec => []MissesAreForced
  <1>1. ASSUME TypeOK PROVE MissesAreForced
    <2> SUFFICES ASSUME NEW p \in Seats, NEW d \in Decide(p, Faces)
                 PROVE  /\ d.type = "play_card" /\ ~Fits(d.card) =>
                             /\ hintTokens = MaxHintTokens
                             /\ \A q \in Seats \ {p} : \A x \in hands[q] :
                                  Fits(x) => x \in colorKnown \cap numberKnown
                        /\ d.type = "give_hint" =>
                             ~(Matching(d) \subseteq IF d.kind = "color"
                                                     THEN colorKnown ELSE numberKnown)
      BY DEF MissesAreForced
    <2>1. CASE \E x \in hands[p] : d = PlayDecision(x) /\ Fits(x)
      BY <2>1 DEF PlayDecision
    <2>2. CASE \E x \in hands[p] : d = DiscardDecision(x)
      BY <2>2 DEF DiscardDecision
    <2>3. ASSUME NEW q \in Seats \ {p}, NEW x \in hands[q],
                 x \notin colorKnown \cap numberKnown, d = HintOf(q, x)
          PROVE  /\ d.type = "give_hint"
                 /\ ~(Matching(d) \subseteq IF d.kind = "color"
                                             THEN colorKnown ELSE numberKnown)
      BY <2>3, HintTells
    <2>4. CASE /\ hintTokens = MaxHintTokens /\ UsefulHints(p, Faces) = {}
               /\ \E x \in hands[p] : d = PlayDecision(x)
      <3>1. \A q \in Seats \ {p} : \A x \in hands[q] :
              Fits(x) => x \in colorKnown \cap numberKnown
        BY <1>1, <2>4, FacesShow, UsefulHintsFit
      <3>2. d.type = "play_card"
        BY <2>4 DEF PlayDecision
      <3> QED BY <2>4, <3>1, <3>2
    <2> QED BY <1>1, <2>1, <2>2, <2>3, <2>4, DecisionKinds
  <1> QED BY <1>1, TypeCorrect, PTL

-----------------------------------------------------------------------------
(***************************************************************************)
(* A game over its saved state, for any newcomers, any number of resumes   *)
(* and of saves that fail.  A step of the running game keeps what is shown *)
(* of it above; what is new is that a saved state has the same properties. *)
(***************************************************************************)

Seated(x) == \E p \in Seats : players[p] = x

\* A state in Redis as a state of the engine has it.
TypedImage(s) ==
  /\ s.hands \in [Person -> SUBSET Card]
  /\ s.colorKnown \subseteq Card /\ s.numberKnown \subseteq Card
  /\ s.fireworks \in [Colors -> 0 .. MaxCardNumber]
  /\ s.discardPile \subseteq Card
  /\ s.hintTokens \in 0 .. MaxHintTokens
  /\ s.missTokens \in Int /\ s.missTokens <= InitialMissTokens
  /\ s.turnIndex \in Seats
  /\ s.lastPlayer \in Seats \cup {NoPlayer}
  /\ s.gameOver \in BOOLEAN
  /\ s.finalScore \in Nat
  /\ s.endReason \in Reasons \cup {NoReason}

\* A state of the engine, and who sits at the table.
MemoryOK ==
  /\ TypeOK
  /\ players \in Seatings
  /\ away \in [Person -> SUBSET Card]

ResumeTypeOK ==
  /\ MemoryOK
  /\ resumes \in Nat /\ lostSaves \in Nat
  /\ \A s \in saved : TypedImage(s)

\* A game step, in one formula.
GameStep ==
  /\ EngineStep
  /\ UNCHANGED <<players, away, resumes>>

LEMMA GameSteps ==
  ASSUME ResumeTypeOK, Request \/ Timeout \/ End
  PROVE  GameStep
  <1>0. UNCHANGED <<players, away, resumes>>
    BY DEF Request, Timeout, End
  <1>1. CASE HintAway
    <2>1. ASSUME NEW p \in Seats, NEW x \in Person, NEW m \in SUBSET away[x],
                 Hint(p, NoPlayer, m),
                 \/ colorKnown' = colorKnown \cup m /\ UNCHANGED numberKnown
                 \/ numberKnown' = numberKnown \cup m /\ UNCHANGED colorKnown
          PROVE  HintStep
      <3>1. m \subseteq Card
        BY DEF ResumeTypeOK, MemoryOK
      <3>2. /\ colorKnown' \subseteq colorKnown \cup Card
            /\ numberKnown' \subseteq numberKnown \cup Card
        BY <2>1, <3>1
      <3>3. /\ UNCHANGED <<cards, missTokens, lastPlayer, result>>
            /\ hintTokens > 0 /\ hintTokens' = hintTokens - 1
            /\ AdvanceTurn(gameOver)
        BY <2>1 DEF Hint
      <3> QED BY <3>2, <3>3 DEF HintStep
    <2>2. PICK p \in Seats, x \in Person : \E m \in SUBSET away[x] :
            /\ Hint(p, NoPlayer, m)
            /\ \/ colorKnown' = colorKnown \cup m /\ UNCHANGED numberKnown
               \/ numberKnown' = numberKnown \cup m /\ UNCHANGED colorKnown
      BY <1>1 DEF HintAway
    <2>3. HintStep
      BY <2>1, <2>2
    <2> QED BY <1>0, <2>3 DEF EngineStep, GameStep
  <1>2. CASE ~HintAway
    BY <1>0, <1>2 DEF Request, Timeout, End, EngineStep, Next, GameStep
  <1> QED BY <1>0, <1>1, <1>2 DEF GameStep

-----------------------------------------------------------------------------
\* The hand of whoever sits is the hand of the seat.
LEMMA HandOfSeat ==
  ASSUME players \in Seatings, NEW p \in Seats
  PROVE  HandOf(players[p]) = hands[p]
  <1> DEFINE x == players[p]
             q == CHOOSE r \in Seats : players[r] = x
  <1>1. q \in Seats /\ players[q] = x
    OBVIOUS
  <1>2. q = p
    BY <1>1 DEF Seatings
  <1> QED BY <1>2 DEF HandOf

LEMMA HandOfAbsent ==
  ASSUME NEW x, ~Seated(x)
  PROVE  HandOf(x) = away[x]
  BY DEF HandOf, Seated

LEMMA HandOfType ==
  ASSUME MemoryOK, NEW x \in Person
  PROVE  HandOf(x) \in SUBSET Card
  <1>1. CASE Seated(x)
    <2>1. PICK p \in Seats : players[p] = x
      BY <1>1 DEF Seated
    <2> QED BY <2>1, HandOfSeat DEF MemoryOK, TypeOK
  <1>2. CASE ~Seated(x)
    BY <1>2, HandOfAbsent DEF MemoryOK
  <1> QED BY <1>1, <1>2

\* Whoever sits where, after a resume everyone has the hand that was saved.
LEMMA SitDownHands ==
  ASSUME NEW state, NEW seating \in Seatings, SitDown(state, seating),
         NEW x \in Person
  PROVE  HandOf(x)' = state.hands[x]
  <1>1. /\ players' = seating /\ players' \in Seatings
        /\ hands' = [p \in Seats |-> state.hands[seating[p]]]
        /\ away' = [y \in Person |-> IF \E p \in Seats : seating[p] = y THEN {}
                                                                     ELSE state.hands[y]]
    BY DEF SitDown
  <1>2. CASE \E p \in Seats : seating[p] = x
    <2> DEFINE q == CHOOSE r \in Seats : players'[r] = x
    <2>1. q \in Seats /\ seating[q] = x
      BY <1>1, <1>2
    <2>2. HandOf(x)' = hands'[q]
      BY <1>1, <1>2 DEF HandOf
    <2> QED BY <1>1, <2>1, <2>2
  <1>3. CASE ~\E p \in Seats : seating[p] = x
    BY <1>1, <1>3 DEF HandOf
  <1> QED BY <1>2, <1>3

-----------------------------------------------------------------------------
\* What the engine saves is typed as its own state is.
LEMMA ImageType == MemoryOK => TypedImage(Image)
  <1> SUFFICES ASSUME MemoryOK PROVE TypedImage(Image)
    OBVIOUS
  <1>1. Image.hands \in [Person -> SUBSET Card]
    BY HandOfType DEF Image
  <1> QED BY <1>1 DEF Image, TypedImage, MemoryOK, TypeOK

LEMMA NextImageType ==
  ASSUME MemoryOK'
  PROVE  TypedImage(Image')
  <1>1. (MemoryOK => TypedImage(Image))'
    BY ImageType, PTL
  <1> QED BY <1>1

\* After a step that saves, what is saved is old or is the image of the state.
LEMMA SavedAfter ==
  ASSUME SetGameState \/ UNCHANGED saved, NEW s \in saved'
  PROVE  s \in saved \/ s = Image'
  BY DEF SetGameState

-----------------------------------------------------------------------------
LEMMA ResumeInitType == ResumeInit => ResumeTypeOK
  <1> SUFFICES ASSUME ResumeInit PROVE ResumeTypeOK
    OBVIOUS
  <1>1. MemoryOK
    <2>1. TypeOK
      BY InitType DEF ResumeInit
    <2>2. players \in Seatings
      BY DEF ResumeInit, Seatings, Person
    <2> QED BY <2>1, <2>2 DEF ResumeInit, MemoryOK
  <1>2. \A s \in saved : TypedImage(s)
    BY <1>1, ImageType DEF ResumeInit
  <1>3. resumes \in Nat /\ lostSaves \in Nat
    BY DEF ResumeInit
  <1> QED BY <1>1, <1>2, <1>3 DEF ResumeTypeOK

\* Taking up a typed state gives a typed state.
LEMMA ResumeType ==
  ASSUME ResumeTypeOK, NEW state \in saved, NEW seating \in Seatings,
         Resume(state, seating)
  PROVE  MemoryOK'
  <1>1. TypedImage(state)
    BY DEF ResumeTypeOK
  <1>2. \A x \in Person : state.hands[x] \subseteq Card
    BY <1>1 DEF TypedImage
  <1>3. seating \in [Seats -> Person]
    BY DEF Seatings
  <1>4. hands' \in [Seats -> SUBSET Card] /\ away' \in [Person -> SUBSET Card]
    BY <1>2, <1>3 DEF Resume, SitDown
  <1>5. players' \in Seatings
    BY DEF Resume, SitDown
  <1>6. TypeOK'
    BY <1>1, <1>4 DEF Resume, TakeUp, TypedImage, TypeOK
  <1> QED BY <1>4, <1>5, <1>6 DEF MemoryOK

LEMMA ResumeNextType == ResumeTypeOK /\ [ResumeNext]_resumeVars => ResumeTypeOK'
  <1> SUFFICES ASSUME ResumeTypeOK, [ResumeNext]_resumeVars PROVE ResumeTypeOK'
    OBVIOUS
  <1>1. CASE UNCHANGED resumeVars
    <2>1. UNCHANGED <<vars, players, away, saved, resumes, lostSaves>>
      BY <1>1 DEF resumeVars
    <2>2. TypeOK'
      BY <2>1, NextType DEF ResumeTypeOK, MemoryOK
    <2> QED BY <2>1, <2>2 DEF ResumeTypeOK, MemoryOK, TypedImage
  <1>2. CASE Request \/ Timeout \/ End
    <2>1. GameStep /\ (SetGameState \/ UNCHANGED <<saved, lostSaves>>)
      BY <1>2, GameSteps DEF Request, Timeout, End
    <2>2. MemoryOK'
      BY <2>1, NextType DEF GameStep, ResumeTypeOK, MemoryOK
    <2>3. \A s \in saved' : TypedImage(s)
      BY <2>1, <2>2, SavedAfter, NextImageType DEF ResumeTypeOK
    <2>4. resumes' \in Nat /\ lostSaves' \in Nat
      BY <2>1 DEF GameStep, SetGameState, ResumeTypeOK
    <2> QED BY <2>2, <2>3, <2>4 DEF ResumeTypeOK
  <1>3. CASE StartGame
    <2>1. PICK state \in saved, seating \in Seatings : Resume(state, seating)
      BY <1>3 DEF StartGame
    <2>2. MemoryOK'
      BY <2>1, ResumeType
    <2>3. \A s \in saved' : TypedImage(s)
      BY <1>3, <2>2, SavedAfter, NextImageType DEF StartGame, ResumeTypeOK
    <2>4. resumes' \in Nat /\ lostSaves' \in Nat
      BY <1>3 DEF StartGame, SetGameState, ResumeTypeOK
    <2> QED BY <2>2, <2>3, <2>4 DEF ResumeTypeOK
  <1> QED BY <1>1, <1>2, <1>3 DEF ResumeNext

\* Tables and saved states are well typed, however often a game is resumed.
THEOREM ResumeTypeCorrect == ResumeSpec => []ResumeTypeOK
  BY ResumeInitType, ResumeNextType, PTL DEF ResumeSpec

-----------------------------------------------------------------------------
\* Why the next card ends a resumed game: it has no deck, and neither it nor
\* the state it came from has a last player while it runs.
EmptyDeckInv ==
  /\ LastPlayerMeansOver
  /\ \A s \in saved : s.lastPlayer # NoPlayer => s.gameOver
  /\ resumes > 0 => deck = {}

LEMMA EmptyStaysEmpty ==
  ASSUME TypeOK, EngineStep, deck = {}
  PROVE  deck' = {}
  <1>1. CASE HintStep \/ EndGame
    BY <1>1 DEF HintStep, EndGame, cards
  <1>2. ASSUME NEW p \in Seats, NEW card \in hands[p],
               PlayStep(p, card) \/ DiscardStep(p, card)
        PROVE  deck' = {}
    BY <1>2 DEF PlayStep, Play, DiscardStep, Discard, DrawCard
  <1> QED BY <1>1, <1>2, StepShapes

LEMMA ResumeInitEmptyDeck == ResumeInit => EmptyDeckInv
  BY DEF ResumeInit, Init, EmptyDeckInv, LastPlayerMeansOver, Image

LEMMA ResumeNextEmptyDeck ==
  ResumeTypeOK /\ EmptyDeckInv /\ [ResumeNext]_resumeVars => EmptyDeckInv'
  <1> SUFFICES ASSUME ResumeTypeOK, EmptyDeckInv, [ResumeNext]_resumeVars
               PROVE  EmptyDeckInv'
    OBVIOUS
  <1> USE DEF EmptyDeckInv
  <1>1. CASE UNCHANGED resumeVars
    BY <1>1 DEF resumeVars, vars, cards, turn, LastPlayerMeansOver
  <1>2. CASE Request \/ Timeout \/ End
    <2>1. GameStep /\ (SetGameState \/ UNCHANGED saved)
      BY <1>2, GameSteps DEF Request, Timeout, End
    <2>2. LastPlayerMeansOver'
      BY <2>1, NextLastPlayer DEF GameStep, ResumeTypeOK, MemoryOK
    <2>3. resumes' > 0 => deck' = {}
      BY <2>1, EmptyStaysEmpty DEF GameStep, ResumeTypeOK, MemoryOK
    <2>4. \A s \in saved' : s.lastPlayer # NoPlayer => s.gameOver
      BY <2>1, <2>2, SavedAfter DEF Image, LastPlayerMeansOver
    <2> QED BY <2>2, <2>3, <2>4
  <1>3. CASE StartGame
    <2>1. PICK state \in saved, seating \in Seatings : Resume(state, seating)
      BY <1>3 DEF StartGame
    <2>2. LastPlayerMeansOver' /\ deck' = {}
      BY <2>1 DEF Resume, TakeUp, LastPlayerMeansOver
    <2>3. \A s \in saved' : s.lastPlayer # NoPlayer => s.gameOver
      BY <1>3, <2>2, SavedAfter DEF StartGame, Image, LastPlayerMeansOver
    <2> QED BY <2>2, <2>3
  <1> QED BY <1>1, <1>2, <1>3 DEF ResumeNext

LEMMA EmptyDeck == ResumeSpec => []EmptyDeckInv
  BY ResumeInitEmptyDeck, ResumeNextEmptyDeck, ResumeTypeCorrect, PTL DEF ResumeSpec

\* In a resumed game the next card that is played or discarded, by a player or
\* by the clock, ends the game, for every deck and however often it was resumed.
THEOREM NextCardEnds == ResumeSpec => NextCardEndsResumed
  <1> DEFINE Ends == resumes > 0 /\ resumes' = resumes /\ hands' # hands => gameOver'
  <1>1. ASSUME ResumeTypeOK, EmptyDeckInv, EmptyDeckInv', [ResumeNext]_resumeVars
        PROVE  [Ends]_resumeVars
    <2> SUFFICES ASSUME ResumeNext, resumes > 0, resumes' = resumes, hands' # hands
                 PROVE  gameOver'
      BY <1>1
    <2>1. ~StartGame
      BY <1>1 DEF StartGame, ResumeTypeOK
    <2>2. EngineStep
      BY <1>1, <2>1, GameSteps DEF ResumeNext, GameStep
    <2>3. TypeOK /\ deck = {}
      BY <1>1 DEF ResumeTypeOK, MemoryOK, EmptyDeckInv
    <2>4. ~HintStep /\ ~EndGame
      BY DEF HintStep, EndGame, cards
    <2>5. PICK p \in Seats : \E card \in hands[p] : PlayStep(p, card) \/ DiscardStep(p, card)
      BY <2>2, <2>3, <2>4, StepShapes
    <2>6. PICK card \in hands[p] : DrawCard(p, card)
      BY <2>5 DEF PlayStep, Play, DiscardStep, Discard
    <2>7. lastPlayer' # NoPlayer
      BY <2>3, <2>6, PlayersAssumption DEF DrawCard, Seats, NoPlayer
    <2> QED BY <1>1, <2>7 DEF EmptyDeckInv, LastPlayerMeansOver
  <1> QED BY <1>1, EmptyDeck, ResumeTypeCorrect, PTL DEF ResumeSpec, NextCardEndsResumed

-----------------------------------------------------------------------------
\* While no save is lost, what is saved is the state of the running game.
SavedIsCurrent == lostSaves = 0 /\ ~gameOver => saved = {Image}

LEMMA SavesEach ==
  ASSUME ResumeTypeOK, SetGameState
  PROVE  SavedIsCurrent'
  BY DEF SetGameState, ResumeTypeOK, SavedIsCurrent

\* If no save was lost, a resume of a running game changes nothing of it but
\* the deck and the seats: everyone has the hand and the knowledge it had.
THEOREM OnlyDeckIsLost == ResumeSpec => NothingLostButDeck
  <1>1. ResumeInit => SavedIsCurrent
    BY DEF ResumeInit, SavedIsCurrent
  <1>2. ResumeTypeOK /\ SavedIsCurrent /\ [ResumeNext]_resumeVars => SavedIsCurrent'
    <2> SUFFICES ASSUME ResumeTypeOK, SavedIsCurrent, [ResumeNext]_resumeVars
                 PROVE  SavedIsCurrent'
      OBVIOUS
    <2>1. CASE UNCHANGED resumeVars
      BY <2>1 DEF resumeVars, vars, cards, known, tokens, turn, result,
                  SavedIsCurrent, Image, HandOf
    <2>2. CASE Request \/ Timeout \/ StartGame
      BY <2>2, SavesEach DEF Request, Timeout, StartGame
    <2>3. CASE End
      BY <2>3 DEF End, EndGame, turn, SavedIsCurrent
    <2> QED BY <2>1, <2>2, <2>3 DEF ResumeNext
  <1>3. ResumeSpec => []SavedIsCurrent
    BY <1>1, <1>2, ResumeTypeCorrect, PTL DEF ResumeSpec
  <1> DEFINE Kept == resumes' # resumes /\ lostSaves = 0 /\ ~gameOver =>
                       /\ UNCHANGED <<known, fireworks, discardPile, tokens, turn, result>>
                       /\ \A x \in Person : HandOf(x)' = HandOf(x)
  <1>4. ASSUME ResumeTypeOK, SavedIsCurrent, [ResumeNext]_resumeVars
        PROVE  [Kept]_resumeVars
    <2> SUFFICES ASSUME ResumeNext, resumes' # resumes, lostSaves = 0, ~gameOver
                 PROVE  /\ UNCHANGED <<known, fireworks, discardPile, tokens, turn, result>>
                        /\ \A x \in Person : HandOf(x)' = HandOf(x)
      BY <1>4
    <2>1. StartGame
      BY DEF ResumeNext, Request, Timeout, End
    <2>2. PICK seating \in Seatings : Resume(Image, seating)
      BY <1>4, <2>1 DEF StartGame, SavedIsCurrent
    <2>3. UNCHANGED <<known, fireworks, discardPile, tokens, turn, result>>
      BY <2>2 DEF Resume, TakeUp, Image, known, tokens, turn, result
    <2>4. ASSUME NEW x \in Person PROVE HandOf(x)' = HandOf(x)
      <3>1. HandOf(x)' = Image.hands[x]
        BY <2>2, SitDownHands DEF Resume
      <3> QED BY <3>1 DEF Image
    <2> QED BY <2>3, <2>4
  <1> QED BY <1>3, <1>4, ResumeTypeCorrect, PTL DEF ResumeSpec, NothingLostButDeck

-----------------------------------------------------------------------------
\* Nobody's cards are anybody else's, the hands of people away included.
OnTable == deck \cup HandCards(hands) \cup discardPile

AwayApart ==
  /\ \A x \in Person : away[x] \cap OnTable = {}
  /\ \A x, y \in Person : x # y => away[x] \cap away[y] = {}

ApartImage(s) ==
  /\ \A x \in Person : s.hands[x] \cap s.discardPile = {}
  /\ \A x, y \in Person : x # y => s.hands[x] \cap s.hands[y] = {}

CardsInv ==
  /\ OneHolderPerCard
  /\ AwayApart
  /\ \A s \in saved : ApartImage(s)

\* No step of the game brings a card to the table.
LEMMA TableShrinks ==
  ASSUME TypeOK, OneHolderPerCard, EngineStep
  PROVE  OnTable' \subseteq OnTable
  <1>1. CASE HintStep \/ EndGame
    <2>1. UNCHANGED cards
      BY <1>1 DEF HintStep, EndGame
    <2> QED BY <2>1 DEF cards, OnTable
  <1>2. ASSUME NEW p \in Seats, NEW card \in hands[p],
               PlayStep(p, card) \/ DiscardStep(p, card)
        PROVE  OnTable' \subseteq OnTable
    <2>1. DrawCard(p, card) /\ discardPile' \subseteq discardPile \cup {card}
      BY <1>2 DEF PlayStep, Play, DiscardStep, Discard
    <2>2. deck' \cup HandCards(hands') = (deck \cup HandCards(hands)) \ {card}
      BY <2>1, DrawCardMoves
    <2>3. card \in HandCards(hands)
      BY DEF HandCards
    <2> QED BY <2>1, <2>2, <2>3 DEF OnTable
  <1> QED BY <1>1, <1>2, StepShapes

\* Hands by person are apart if hands by seat are, and those away.
LEMMA ImageApart == MemoryOK /\ OneHolderPerCard /\ AwayApart => ApartImage(Image)
  <1> SUFFICES ASSUME MemoryOK, OneHolderPerCard, AwayApart PROVE ApartImage(Image)
    OBVIOUS
  <1>1. /\ \A p \in Seats : hands[p] \subseteq HandCards(hands)
        /\ \A p, q \in Seats : p # q => hands[p] \cap hands[q] = {}
        /\ HandCards(hands) \cap discardPile = {}
    BY DEF OneHolderPerCard, Disjoint, HandCards
  <1>2. ASSUME NEW x \in Person
        PROVE  \/ \E p \in Seats : players[p] = x /\ HandOf(x) = hands[p]
               \/ HandOf(x) = away[x]
    BY HandOfSeat, HandOfAbsent DEF Seated, MemoryOK
  <1>3. ASSUME NEW x \in Person PROVE HandOf(x) \cap discardPile = {}
    BY <1>1, <1>2 DEF AwayApart, OnTable
  <1>4. ASSUME NEW x \in Person, NEW y \in Person, x # y
        PROVE  HandOf(x) \cap HandOf(y) = {}
    <2>1. CASE HandOf(x) = away[x] /\ HandOf(y) = away[y]
      BY <1>4, <2>1 DEF AwayApart
    <2>2. ASSUME NEW z \in Person, NEW p \in Seats PROVE away[z] \cap hands[p] = {}
      BY <1>1 DEF AwayApart, OnTable
    <2>3. ASSUME NEW p \in Seats, NEW q \in Seats, players[p] = x, players[q] = y
          PROVE  hands[p] \cap hands[q] = {}
      BY <1>1, <1>4, <2>3
    <2> QED BY <1>2, <2>1, <2>2, <2>3
  <1> QED BY <1>3, <1>4 DEF ApartImage, Image

LEMMA NextImageApart ==
  ASSUME MemoryOK', OneHolderPerCard', AwayApart'
  PROVE  ApartImage(Image')
  <1>1. (MemoryOK /\ OneHolderPerCard /\ AwayApart => ApartImage(Image))'
    BY ImageApart, PTL
  <1> QED BY <1>1

\* A resume brings back the cards of the saved hands and pile, each once.
LEMMA ResumeApart ==
  ASSUME NEW state, ApartImage(state), NEW seating \in Seatings, Resume(state, seating)
  PROVE  OneHolderPerCard' /\ AwayApart'
  <1>1. /\ deck' = {} /\ discardPile' = state.discardPile
        /\ hands' = [p \in Seats |-> state.hands[seating[p]]]
        /\ away' = [y \in Person |-> IF \E p \in Seats : seating[p] = y THEN {}
                                                                     ELSE state.hands[y]]
    BY DEF Resume, TakeUp, SitDown
  <1>2. /\ \A p \in Seats : seating[p] \in Person
        /\ \A p, q \in Seats : p # q => seating[p] # seating[q]
    BY DEF Seatings
  <1>3. Disjoint(hands')
    BY <1>1, <1>2 DEF ApartImage, Disjoint
  <1>4. HandCards(hands') \cap discardPile' = {}
    BY <1>1, <1>2 DEF ApartImage, HandCards
  <1>5. OneHolderPerCard'
    BY <1>1, <1>3, <1>4 DEF OneHolderPerCard
  <1>6. ASSUME NEW x \in Person PROVE away'[x] \cap OnTable' = {}
    <2>1. away'[x] \cap discardPile' = {}
      BY <1>1 DEF ApartImage
    <2>2. ASSUME NEW p \in Seats PROVE away'[x] \cap hands'[p] = {}
      BY <1>1, <1>2 DEF ApartImage
    <2>3. away'[x] \cap HandCards(hands') = {}
      BY <2>2 DEF HandCards
    <2> QED BY <1>1, <2>1, <2>3 DEF OnTable
  <1>7. ASSUME NEW x \in Person, NEW y \in Person, x # y
        PROVE  away'[x] \cap away'[y] = {}
    BY <1>1, <1>7 DEF ApartImage
  <1> QED BY <1>5, <1>6, <1>7 DEF AwayApart

LEMMA ResumeNextCards ==
  ResumeTypeOK /\ ResumeTypeOK' /\ CardsInv /\ [ResumeNext]_resumeVars => CardsInv'
  <1> SUFFICES ASSUME ResumeTypeOK, ResumeTypeOK', CardsInv, [ResumeNext]_resumeVars
               PROVE  CardsInv'
    OBVIOUS
  <1>1. CASE UNCHANGED resumeVars
    BY <1>1 DEF resumeVars, vars, cards, CardsInv, OneHolderPerCard, AwayApart, OnTable
  <1>2. MemoryOK'
    BY DEF ResumeTypeOK
  <1>3. CASE Request \/ Timeout \/ End
    <2>1. GameStep /\ (SetGameState \/ UNCHANGED saved)
      BY <1>3, GameSteps DEF Request, Timeout, End
    <2>2. TypeOK /\ OneHolderPerCard /\ AwayApart /\ EngineStep /\ UNCHANGED away
      BY <2>1 DEF ResumeTypeOK, MemoryOK, CardsInv, GameStep
    <2>3. OneHolderPerCard'
      BY <2>2, NextOneHolder
    <2>4. AwayApart'
      BY <2>2, TableShrinks DEF AwayApart
    <2> QED BY <1>2, <2>1, <2>3, <2>4, SavedAfter, NextImageApart DEF CardsInv
  <1>4. CASE StartGame
    <2>1. PICK state \in saved, seating \in Seatings : Resume(state, seating)
      BY <1>4 DEF StartGame
    <2>2. OneHolderPerCard' /\ AwayApart'
      BY <2>1, ResumeApart DEF CardsInv
    <2> QED BY <1>2, <1>4, <2>2, SavedAfter, NextImageApart DEF CardsInv, StartGame
  <1> QED BY <1>1, <1>3, <1>4 DEF ResumeNext

LEMMA ResumedCardsInv == ResumeSpec => []CardsInv
  <1>1. ResumeInit => CardsInv
    <2> SUFFICES ASSUME ResumeInit PROVE CardsInv
      OBVIOUS
    <2>1. OneHolderPerCard /\ AwayApart
      BY DEF ResumeInit, Init, OneHolderPerCard, AwayApart
    <2>2. MemoryOK
      BY ResumeInitType DEF ResumeTypeOK
    <2> QED BY <2>1, <2>2, ImageApart DEF ResumeInit, CardsInv
  <1> QED BY <1>1, ResumeNextCards, ResumeTypeCorrect, PTL DEF ResumeSpec

\* No card is in two places in a resumed game either, also not in the hands of
\* a player at the table and of one who left it and may come back.
THEOREM ResumedCards == ResumeSpec => []ResumedCardsOnce
  <1>1. ResumeTypeOK /\ CardsInv => ResumedCardsOnce
    BY ImageApart DEF ResumeTypeOK, CardsInv, ApartImage, Image, ResumedCardsOnce
  <1> QED BY <1>1, ResumedCardsInv, ResumeTypeCorrect, PTL

-----------------------------------------------------------------------------
\* What a saved state tells of its end without its deck: a last player stands
\* for the deck that ran out.
ReasonIn(s) ==
  s.gameOver <=> \/ Score(s.fireworks) = PerfectScore
                 \/ s.missTokens <= 0
                 \/ s.lastPlayer # NoPlayer

LEMMA ImageReason == OverHasReason /\ LastPlayerMeansOver => ReasonIn(Image)
  BY DEF OverHasReason, LastPlayerMeansOver, ReasonIn, Image

LEMMA NextImageReason ==
  ASSUME OverHasReason', LastPlayerMeansOver'
  PROVE  ReasonIn(Image')
  <1>1. (OverHasReason /\ LastPlayerMeansOver => ReasonIn(Image))'
    BY ImageReason, PTL
  <1> QED BY <1>1

ReasonInv == OverHasReason /\ \A s \in saved : ReasonIn(s)

LEMMA ResumeNextReason ==
  ResumeTypeOK /\ EmptyDeckInv /\ EmptyDeckInv' /\ ReasonInv /\ [ResumeNext]_resumeVars
    => ReasonInv'
  <1> SUFFICES ASSUME ResumeTypeOK, EmptyDeckInv, EmptyDeckInv', ReasonInv,
                      [ResumeNext]_resumeVars
               PROVE  ReasonInv'
    OBVIOUS
  <1>1. LastPlayerMeansOver'
    BY DEF EmptyDeckInv
  <1>2. CASE UNCHANGED resumeVars
    BY <1>2 DEF resumeVars, vars, cards, tokens, turn, ReasonInv, OverHasReason
  <1>3. CASE Request \/ Timeout \/ End
    <2>1. GameStep /\ (SetGameState \/ UNCHANGED saved)
      BY <1>3, GameSteps DEF Request, Timeout, End
    <2>2. OverHasReason'
      BY <2>1, NextOverHasReason
         DEF GameStep, ResumeTypeOK, MemoryOK, EmptyDeckInv, ReasonInv
    <2> QED BY <1>1, <2>1, <2>2, SavedAfter, NextImageReason DEF ReasonInv
  <1>4. CASE StartGame
    <2>1. PICK state \in saved, seating \in Seatings : Resume(state, seating)
      BY <1>4 DEF StartGame
    <2>2. OverHasReason'
      BY <2>1 DEF Resume, TakeUp, ReasonInv, ReasonIn, OverHasReason
    <2> QED BY <1>1, <1>4, <2>2, SavedAfter, NextImageReason DEF ReasonInv, StartGame
  <1> QED BY <1>2, <1>3, <1>4 DEF ResumeNext

\* A saved state is taken up as over exactly when its game was over for one of
\* the reasons of the rules, and every later table shows such a reason.
THEOREM ResumedOverForAReason == ResumeSpec => []OverHasReason
  <1>1. ResumeInit => ReasonInv
    BY InitOverHasReason, ImageReason, ResumeInitEmptyDeck
       DEF ResumeInit, ReasonInv, EmptyDeckInv
  <1>2. ResumeSpec => []ReasonInv
    BY <1>1, EmptyDeck, ResumeNextReason, ResumeTypeCorrect, PTL DEF ResumeSpec
  <1>3. ReasonInv => OverHasReason
    BY DEF ReasonInv
  <1> QED BY <1>2, <1>3, PTL

-----------------------------------------------------------------------------
\* Full hands are inductive by person: at the table or away, whoever was in the
\* game that was dealt holds a full hand, and a newcomer none.
FullImage(s) ==
  s.lastPlayer = NoPlayer => \A x \in Person : Cardinality(s.hands[x]) = Due(x)

Sized ==
  lastPlayer = NoPlayer =>
    /\ \A p \in Seats : Cardinality(hands[p]) = Due(players[p])
    /\ \A x \in Person : ~Seated(x) => Cardinality(away[x]) = Due(x)

FullInv == Sized /\ \A s \in saved : FullImage(s)

LEMMA ImageFull == MemoryOK /\ Sized => FullImage(Image)
  <1> SUFFICES ASSUME MemoryOK, Sized, lastPlayer = NoPlayer, NEW x \in Person
               PROVE  Cardinality(HandOf(x)) = Due(x)
    BY DEF FullImage, Image
  <1>1. CASE Seated(x)
    <2>1. PICK p \in Seats : players[p] = x
      BY <1>1 DEF Seated
    <2> QED BY <2>1, HandOfSeat DEF MemoryOK, Sized
  <1>2. CASE ~Seated(x)
    BY <1>2, HandOfAbsent DEF Sized
  <1> QED BY <1>1, <1>2

LEMMA NextImageFull ==
  ASSUME MemoryOK', Sized'
  PROVE  FullImage(Image')
  <1>1. (MemoryOK /\ Sized => FullImage(Image))'
    BY ImageFull, PTL
  <1> QED BY <1>1

LEMMA ResumeNextFull ==
  ResumeTypeOK /\ ResumeTypeOK' /\ CardsInv /\ FullInv /\ [ResumeNext]_resumeVars => FullInv'
  <1> SUFFICES ASSUME ResumeTypeOK, ResumeTypeOK', CardsInv, FullInv, [ResumeNext]_resumeVars
               PROVE  FullInv'
    OBVIOUS
  <1>0. MemoryOK'
    BY DEF ResumeTypeOK
  <1>1. CASE UNCHANGED resumeVars
    BY <1>1 DEF resumeVars, vars, cards, turn, FullInv, Sized, Seated
  <1>2. CASE Request \/ Timeout \/ End
    <2>1. GameStep /\ (SetGameState \/ UNCHANGED saved)
      BY <1>2, GameSteps DEF Request, Timeout, End
    <2>2. TypeOK /\ OneHolderPerCard /\ [EngineStep]_vars /\ UNCHANGED <<players, away>>
      BY <2>1 DEF ResumeTypeOK, MemoryOK, CardsInv, GameStep
    <2>3. Sized'
      <3> SUFFICES ASSUME lastPlayer' = NoPlayer
                   PROVE  /\ \A p \in Seats : Cardinality(hands'[p]) = Due(players'[p])
                          /\ \A x \in Person : ~Seated(x)' => Cardinality(away'[x]) = Due(x)
        BY DEF Sized
      <3>1. \E p \in Seats : TRUE
        BY PlayersAssumption DEF Seats
      <3>2. /\ lastPlayer = NoPlayer
            /\ \A p \in Seats : Cardinality(hands'[p]) = Cardinality(hands[p])
        BY <2>2, <3>1, NextKeepsSizes
      <3>3. /\ \A p \in Seats : Cardinality(hands[p]) = Due(players[p])
            /\ \A x \in Person : ~Seated(x) => Cardinality(away[x]) = Due(x)
        BY <3>2 DEF FullInv, Sized
      <3> QED BY <2>2, <3>2, <3>3 DEF Seated
    <2> QED BY <1>0, <2>1, <2>3, SavedAfter, NextImageFull DEF FullInv
  <1>3. CASE StartGame
    <2>1. PICK state \in saved, seating \in Seatings : Resume(state, seating)
      BY <1>3 DEF StartGame
    <2>2. /\ players' = seating /\ lastPlayer' = state.lastPlayer
          /\ \A x \in Person : HandOf(x)' = state.hands[x]
      BY <2>1, SitDownHands DEF Resume, TakeUp, SitDown
    <2>3. Sized'
      <3> SUFFICES ASSUME lastPlayer' = NoPlayer
                   PROVE  /\ \A p \in Seats : Cardinality(hands'[p]) = Due(players'[p])
                          /\ \A x \in Person : ~Seated(x)' => Cardinality(away'[x]) = Due(x)
        BY DEF Sized
      <3>1. FullImage(state)
        BY DEF FullInv
      <3>2. \A x \in Person : Cardinality(state.hands[x]) = Due(x)
        BY <2>2, <3>1 DEF FullImage
      <3>3. /\ hands' = [p \in Seats |-> state.hands[seating[p]]]
            /\ away' = [x \in Person |-> IF \E p \in Seats : seating[p] = x THEN {}
                                                                           ELSE state.hands[x]]
            /\ \A p \in Seats : seating[p] \in Person
        BY <2>1 DEF Resume, SitDown, Seatings
      <3> QED BY <2>2, <3>2, <3>3 DEF Seated
    <2> QED BY <1>0, <1>3, <2>3, SavedAfter, NextImageFull DEF FullInv, StartGame
  <1> QED BY <1>1, <1>2, <1>3 DEF ResumeNext

\* In a running game that was resumed, by whomever and however often, all who
\* were in the game that was dealt have full hands, so the clock can move for
\* each of them; those for whom it cannot are exactly the newcomers.
THEOREM ResumedHands == ResumeSpec => []ResumedHandsFull
  <1>1. ResumeInit => FullInv
    <2> SUFFICES ASSUME ResumeInit PROVE FullInv
      OBVIOUS
    <2>1. \A p \in Seats : players[p] = p /\ p \notin Newcomers
      BY NewcomersAssumption DEF ResumeInit
    <2>2. \A p \in Seats : Cardinality(hands[p]) = Due(players[p])
      BY <2>1 DEF ResumeInit, Init, Due
    <2>3. \A x \in Person : ~Seated(x) => x \in Newcomers
      BY <2>1 DEF Person, Seated
    <2>4. Sized
      BY <2>2, <2>3, FS_EmptySet DEF Sized, ResumeInit, Due
    <2>5. MemoryOK
      BY ResumeInitType DEF ResumeTypeOK
    <2> QED BY <2>4, <2>5, ImageFull DEF ResumeInit, FullInv
  <1>2. ResumeSpec => []CardsInv
    BY ResumedCardsInv
  <1>3. ResumeSpec => []FullInv
    BY <1>1, <1>2, ResumeNextFull, ResumeTypeCorrect, PTL DEF ResumeSpec
  <1>4. FullInv /\ EmptyDeckInv => ResumedHandsFull
    BY DEF FullInv, Sized, EmptyDeckInv, LastPlayerMeansOver, ResumedHandsFull
  <1> QED BY <1>3, <1>4, EmptyDeck, PTL
=============================================================================
