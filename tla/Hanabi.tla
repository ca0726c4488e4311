------------------------------- MODULE Hanabi -------------------------------
(***************************************************************************)
(* The Hanabi engine: internal/game/hanabi/engine.go, state.go, card.go.   *)
(*                                                                         *)
(* Every operation of Engine holds Engine.mu from its first line to its    *)
(* return, so one operation is one action.  A request that a handler       *)
(* refuses returns before any assignment and is not a step.                *)
(*                                                                         *)
(* Data that is abstracted:                                                *)
(*  - a player is its seat, its index in Engine.Players;                   *)
(*  - a card is a record with a copy number, which tells apart the objects *)
(*    that GenerateDeck allocates for one colour and number;               *)
(*  - the deck is the set of cards left in it: nothing looks into a deck   *)
(*    before it draws, so shuffling first and drawing the head is drawing  *)
(*    any card that is left;                                               *)
(*  - a hand is a set, because cardIndex names any card of it;             *)
(*  - the flags ColorKnown and NumberKnown are the sets of flagged cards;  *)
(*    they are dropped when a card leaves a hand, as nobody reads them     *)
(*    after that.                                                          *)
(***************************************************************************)
EXTENDS Integers, FiniteSets

CONSTANTS
  Colors,               \* the colours of the deck
  MaxCardNumber,        \* the highest number, and the height of a firework
  Copies,               \* Copies[n]: how many cards of each colour show n
  NumPlayers,           \* len(Engine.Players)
  MaxHintTokens,
  InitialMissTokens,
  PerfectScore,
  InitialHandSize,      \* cards per hand in a small game
  ReducedHandSize,      \* cards per hand from MinPlayersForReduced players on
  MinPlayersForReduced

Number == 1 .. MaxCardNumber
Seats  == 0 .. NumPlayers - 1

CardOf(c, n, k) == [color |-> c, number |-> n, copy |-> k]

\* GenerateDeck: Copies[n] cards of every colour and number.
Card == UNION { { CardOf(c, n, k) : k \in 1 .. Copies[n] } :
                  c \in Colors, n \in Number }

\* cardCount in DealInitialCards.
HandSize == IF NumPlayers >= MinPlayersForReduced THEN ReducedHandSize
                                                  ELSE InitialHandSize

NoPlayer == -1                                   \* LastPlayer, not yet set
NoReason == "none"                               \* the empty EndReason
Reasons  == {"perfect", "miss_depleted", "deck_exhausted"}

ASSUME ColorsAssumption  == IsFiniteSet(Colors) /\ Colors # {}
ASSUME NumbersAssumption == /\ MaxCardNumber \in Nat \ {0}
                            /\ Copies \in [Number -> Nat \ {0}]
ASSUME PlayersAssumption == NumPlayers \in Nat /\ NumPlayers >= 2
ASSUME TokensAssumption  == /\ MaxHintTokens \in Nat \ {0}
                            /\ InitialMissTokens \in Nat \ {0}
ASSUME HandsAssumption   == /\ InitialHandSize \in Nat \ {0}
                            /\ ReducedHandSize \in Nat \ {0}
                            /\ MinPlayersForReduced \in Nat
\* A full deal leaves cards in the deck: at most 6 hands of 4, or 3 of 5, out
\* of 50 (server/ws/events_room.go:18 bounds a room to 6 players).
ASSUME DealAssumption    == NumPlayers * HandSize < Cardinality(Card)
\* The score a table with every firework complete has: 25 = 5 colours of 5.
ASSUME PerfectAssumption == PerfectScore = Cardinality(Colors \X Number)

VARIABLES
  deck,          \* CurrentState.Deck
  hands,         \* CurrentState.PlayerHands
  colorKnown,    \* the cards in hands whose ColorKnown is set
  numberKnown,   \* the cards in hands whose NumberKnown is set
  fireworks,     \* CurrentState.Fireworks
  discardPile,   \* CurrentState.DiscardPile
  hintTokens,
  missTokens,
  turnIndex,
  lastPlayer,
  gameOver,      \* CurrentState.GameOver
  finalScore,    \* CurrentState.FinalScore
  endReason      \* CurrentState.EndReason

cards  == <<deck, hands, fireworks, discardPile>>
known  == <<colorKnown, numberKnown>>
tokens == <<hintTokens, missTokens>>
turn   == <<turnIndex, lastPlayer, gameOver>>
result == <<finalScore, endReason>>
vars   == <<cards, known, tokens, turn, result>>

-----------------------------------------------------------------------------
\* GetCurrentScore adds the heights of the fireworks; that sum is the number
\* of cards that lie on them.
Score(fw) == Cardinality({ t \in Colors \X Number : t[2] <= fw[t[1]] })

HandCards(h) == UNION { h[p] : p \in Seats }

Disjoint(h) == \A p, q \in Seats : p # q => h[p] \cap h[q] = {}

\* The branch of StartGame that finds no saved state.  The engine is
\* published to the manager only after it (game_service.go:96-97).
Init ==
  /\ hands \in [Seats -> { h \in SUBSET Card : Cardinality(h) = HandSize }]
  /\ Disjoint(hands)
  /\ deck = Card \ HandCards(hands)
  /\ colorKnown = {} /\ numberKnown = {}
  /\ fireworks = [c \in Colors |-> 0]
  /\ discardPile = {}
  /\ hintTokens = MaxHintTokens
  /\ missTokens = InitialMissTokens
  /\ turnIndex = 0
  /\ lastPlayer = NoPlayer
  /\ gameOver = FALSE
  /\ finalScore = 0 /\ endReason = NoReason

-----------------------------------------------------------------------------
NextSeat(p) == (p + 1) % NumPlayers

\* Mutant: the drawn card stays in the deck.
DrawWithoutPop(p, card) ==
  /\ deck # {}
  /\ \E top \in deck : hands' = [hands EXCEPT ![p] = (@ \ {card}) \cup {top}]
  /\ UNCHANGED <<deck, lastPlayer>>

\* drawCard, after `card' has left p's hand: the hand is refilled while the
\* deck lasts; the first draw that finds it empty records the last player.
DrawCard(p, card) ==
  \/ \E top \in deck :
       /\ hands' = [hands EXCEPT ![p] = (@ \ {card}) \cup {top}]
       /\ deck' = deck \ {top}
       /\ UNCHANGED lastPlayer
  \/ /\ deck = {}
     /\ hands' = [hands EXCEPT ![p] = @ \ {card}]
     /\ lastPlayer' = IF lastPlayer = NoPlayer THEN p ELSE lastPlayer
     /\ UNCHANGED deck

DropFlags(card) ==
  /\ colorKnown' = colorKnown \ {card}
  /\ numberKnown' = numberKnown \ {card}

\* Mutant: the last round ends when the last player has moved once more.
EndTurnAfterFullRound(over) ==
  /\ turnIndex' = NextSeat(turnIndex)
  /\ gameOver' = \/ over
                 \/ deck' = {} /\ lastPlayer = turnIndex

\* handleEndTurn.  `over' is GameOver as the handler before it leaves it.
EndTurn(over) ==
  /\ turnIndex' = NextSeat(turnIndex)
  /\ gameOver' = \/ over
                 \/ /\ deck' = {}
                    /\ lastPlayer' # NoPlayer
                    /\ turnIndex' = NextSeat(lastPlayer')

\* HandleEvent passes the turn only if the handler did not end the game.
AdvanceTurn(over) ==
  \/ over /\ gameOver' = TRUE /\ UNCHANGED turnIndex
  \/ ~over /\ EndTurn(over)

\* Mutant: any higher number fits.
FitsIfHigher(card) == fireworks[card.color] < card.number

Fits(card)  == fireworks[card.color] + 1 = card.number
Built(card) == [fireworks EXCEPT ![card.color] = card.number]

\* The assignments of handlePlayCard but GameOver ...
Play(p, card) ==
  /\ card \in hands[p]
  /\ DrawCard(p, card)
  /\ DropFlags(card)
  /\ \/ /\ Fits(card)
        /\ fireworks' = Built(card)
        /\ hintTokens' = IF card.number = MaxCardNumber /\ hintTokens < MaxHintTokens
                         THEN hintTokens + 1 ELSE hintTokens
        /\ UNCHANGED <<discardPile, missTokens>>
     \/ /\ ~Fits(card)
        /\ discardPile' = discardPile \cup {card}
        /\ missTokens' = missTokens - 1
        /\ UNCHANGED <<fireworks, hintTokens>>

\* Mutant: one miss too many is allowed.
OverAfterOneMissMore(card) ==
  \/ gameOver
  \/ Fits(card) /\ Score(Built(card)) = PerfectScore
  \/ ~Fits(card) /\ missTokens - 1 < 0

\* ... and whether GameOver holds after them.
OverAfterPlay(card) ==
  \/ gameOver
  \/ Fits(card) /\ Score(Built(card)) = PerfectScore
  \/ ~Fits(card) /\ missTokens - 1 <= 0

\* handleDiscardCard; it leaves GameOver alone.
Discard(p, card) ==
  /\ hintTokens < MaxHintTokens
  /\ card \in hands[p]
  /\ discardPile' = discardPile \cup {card}
  /\ DrawCard(p, card)
  /\ DropFlags(card)
  /\ hintTokens' = hintTokens + 1
  /\ UNCHANGED <<fireworks, missTokens>>

-----------------------------------------------------------------------------
\* Mutant: a hint costs nothing.
FreeHint(p, q, matching) ==
  /\ turnIndex = p /\ p # q /\ matching # {}
  /\ UNCHANGED <<cards, tokens, lastPlayer, result>>
  /\ AdvanceTurn(gameOver)

\* HandleEvent, "give_hint" of a colour or a number that `matching' has.
Hint(p, q, matching) ==
  /\ turnIndex = p
  /\ p # q
  /\ hintTokens > 0
  /\ matching # {}
  /\ hintTokens' = hintTokens - 1
  /\ UNCHANGED <<cards, missTokens, lastPlayer, result>>
  /\ AdvanceTurn(gameOver)

GiveColorHint(p, q, c) ==
  LET matching == { x \in hands[q] : x.color = c }
  IN  /\ Hint(p, q, matching)
      /\ colorKnown' = colorKnown \cup matching
      /\ UNCHANGED numberKnown

GiveNumberHint(p, q, n) ==
  LET matching == { x \in hands[q] : x.number = n }
  IN  /\ Hint(p, q, matching)
      /\ numberKnown' = numberKnown \cup matching
      /\ UNCHANGED colorKnown

\* HandleEvent, "play_card".
PlayCard(p, card) ==
  /\ turnIndex = p
  /\ Play(p, card)
  /\ AdvanceTurn(OverAfterPlay(card))
  /\ UNCHANGED result

\* HandleEvent, "discard".
DiscardCard(p, card) ==
  /\ turnIndex = p
  /\ Discard(p, card)
  /\ AdvanceTurn(gameOver)
  /\ UNCHANGED result

\* Mutant: a timeout never plays a card.
ForceDiscardOnly(p, card) ==
  /\ ~gameOver /\ turnIndex = p
  /\ Discard(p, card) /\ EndTurn(gameOver)
  /\ UNCHANGED result

\* ExecuteForceAction: a random card of the player in turn.  It calls
\* handleEndTurn even when the card ended the game.
ForceAction(p, card) ==
  /\ ~gameOver
  /\ turnIndex = p
  /\ \/ /\ hintTokens >= MaxHintTokens
        /\ Play(p, card)
        /\ EndTurn(OverAfterPlay(card))
     \/ /\ Discard(p, card)
        /\ EndTurn(gameOver)
  /\ UNCHANGED result

\* Mutant: a game is lost only below zero misses.
EndGameBelowZero ==
  /\ gameOver
  /\ finalScore' = Score(fireworks)
  /\ endReason' = CASE Score(fireworks) = PerfectScore -> "perfect"
                    [] Score(fireworks) # PerfectScore /\ missTokens < 0 -> "miss_depleted"
                    [] OTHER -> "deck_exhausted"
  /\ UNCHANGED <<cards, known, tokens, turn>>

\* EndGame, which GameService calls once it has seen IsGameOver.
EndGame ==
  /\ gameOver
  /\ finalScore' = Score(fireworks)
  /\ endReason' = CASE Score(fireworks) = PerfectScore -> "perfect"
                    [] Score(fireworks) # PerfectScore /\ missTokens <= 0 -> "miss_depleted"
                    [] OTHER -> "deck_exhausted"
  /\ UNCHANGED <<cards, known, tokens, turn>>

PlayerHint    == \E p, q \in Seats : \/ \E c \in Colors : GiveColorHint(p, q, c)
                                     \/ \E n \in Number : GiveNumberHint(p, q, n)
PlayerPlay    == \E p \in Seats : \E card \in hands[p] : PlayCard(p, card)
PlayerDiscard == \E p \in Seats : \E card \in hands[p] : DiscardCard(p, card)
TurnTimeout   == \E p \in Seats : \E card \in hands[p] : ForceAction(p, card)

Next == PlayerHint \/ PlayerPlay \/ PlayerDiscard \/ TurnTimeout \/ EndGame

Spec == Init /\ [][Next]_vars

\* The turn timer runs while a game runs and forces an action when it
\* expires; a game that is over is ended by the caller that saw it over.
FairSpec == Spec /\ WF_vars(TurnTimeout) /\ WF_vars(EndGame)

-----------------------------------------------------------------------------
TypeOK ==
  /\ deck \subseteq Card
  /\ hands \in [Seats -> SUBSET Card]
  /\ colorKnown \subseteq Card /\ numberKnown \subseteq Card
  /\ fireworks \in [Colors -> 0 .. MaxCardNumber]
  /\ discardPile \subseteq Card
  /\ hintTokens \in 0 .. MaxHintTokens
  /\ missTokens \in Int /\ missTokens <= InitialMissTokens
  /\ turnIndex \in Seats
  /\ lastPlayer \in Seats \cup {NoPlayer}
  /\ gameOver \in BOOLEAN
  /\ finalScore \in Nat
  /\ endReason \in Reasons \cup {NoReason}

\* The cards that lie on the fireworks: those that are nowhere else.
Played == Card \ (deck \cup HandCards(hands) \cup discardPile)

\* No card is in two places: draws, plays and discards move a card and never
\* copy it (engine.go:139-157, 254-255, 296-299).
OneHolderPerCard ==
  /\ Disjoint(hands)
  /\ deck \cap HandCards(hands) = {}
  /\ discardPile \cap (deck \cup HandCards(hands)) = {}

\* The cards that are in no deck, hand or pile are exactly those the fireworks
\* show, one copy of each number up to each firework's height: handlePlayCard
\* neither loses a card nor counts one twice (engine.go:252-272).
FireworksAccountForCards ==
  /\ \A x \in Played : x.number <= fireworks[x.color]
  /\ \A x, y \in Played : x.color = y.color /\ x.number = y.number => x = y
  /\ \A c \in Colors : \A n \in 1 .. fireworks[c] :
       \E x \in Played : x.color = c /\ x.number = n

\* While a game runs every player holds a full hand, so the forced action of
\* a timeout always finds a card to play or discard (engine.go:336-338): no
\* sequence of requests leaves a player in turn that cannot move.
HandsStayFull ==
  ~gameOver => \A p \in Seats : Cardinality(hands[p]) = HandSize

\* A game is over if and only if one of the three conditions of the rules
\* holds on the table, whatever requests arrive after its end; it never stops
\* for no reason and never runs past one (engine.go:263-271, 314-316).
OverHasReason ==
  gameOver <=> \/ Score(fireworks) = PerfectScore
               \/ missTokens <= 0
               \/ deck = {} /\ lastPlayer # NoPlayer

\* The reason EndGame recorded stays true of the table, also when requests
\* that were in flight change the table after the end (engine.go:78-85).
EndReasonTruthful ==
  /\ endReason = "perfect" => \A c \in Colors : fireworks[c] = MaxCardNumber
  /\ endReason = "miss_depleted" => missTokens <= 0
  /\ endReason = "deck_exhausted" => deck = {}

\* LastPlayer is set by the first card played or discarded after the deck ran
\* out, and that same request ends the game (engine.go:147-155 with 314): no
\* running game has a last player.
LastPlayerMeansOver == lastPlayer # NoPlayer => gameOver

\* Twice the cards that are still to be played or discarded, plus the hints
\* that can be given now.
Budget == 2 * (Cardinality(deck) + Cardinality(HandCards(hands))) + hintTokens

\* Every accepted request and every forced action uses up some of the budget,
\* so no exchange of hints and discards keeps a game going for ever: a hint
\* costs a token, and the token a card returns costs the card.
RequestsUseBudget ==
  [][Budget' < Budget \/ UNCHANGED <<cards, known, tokens, turn>>]_vars

\* Players may be silent or answer as they like, and late requests may still
\* change the table: the game ends, a reason is recorded, and the score of a game
\* that was not lost by misses is in the end the one of the table
\* (game_service.go:191-193, 302-304).  Of a lost game no score is claimed.
GameEnds ==
  <>[](/\ gameOver /\ endReason # NoReason
       /\ endReason # "miss_depleted" => finalScore = Score(fireworks))

=============================================================================
