--------------------------- MODULE HanabiStrategy ---------------------------
(***************************************************************************)
(* What an AI player sees and decides: GetPlayerView in                    *)
(* internal/game/hanabi/state.go and HeuristicStrategy in strategy.go.     *)
(*                                                                         *)
(* Decide is a function of a player and of the faces it is shown.  Hands   *)
(* are sets in Hanabi, so "the first card such that" is any such card, and *)
(* Decide returns the set of the decisions that some order of the hands    *)
(* and players leads to.                                                   *)
(***************************************************************************)
EXTENDS Hanabi

NoColor  == "none"                     \* Color "" of a masked card
NoNumber == 0                          \* Number 0 of a masked card

Face(c, n) == [color |-> c, number |-> n]

\* The whole State, which Decide takes: every card shows its face.
Faces == [x \in HandCards(hands) |-> Face(x.color, x.number)]

\* GetPlayerView: of its own cards a player sees what hints have told.
GetPlayerView(p) ==
  [x \in HandCards(hands) |->
     IF x \in hands[p]
     THEN Face(IF x \in colorKnown THEN x.color ELSE NoColor,
               IF x \in numberKnown THEN x.number ELSE NoNumber)
     ELSE Face(x.color, x.number)]

\* state.Fireworks[color]: a map answers 0 for a colour it does not have.
Height(c) == IF c \in Colors THEN fireworks[c] ELSE 0
FitsFace(face) == Height(face.color) + 1 = face.number

PlayDecision(card)    == [type |-> "play_card", card |-> card]
DiscardDecision(card) == [type |-> "discard", card |-> card]
HintDecision(q, kind, value) ==
  [type |-> "give_hint", to |-> q, kind |-> kind, value |-> value]

-----------------------------------------------------------------------------
\* Mutant: a card whose number is known is played on that alone.
SafePlaysByNumber(p, seen) ==
  { PlayDecision(x) : x \in { y \in hands[p] : y \in numberKnown
                                               /\ FitsFace(seen[y]) } }

\* trySafePlay: a card that fits, both of whose flags are set.
SafePlays(p, seen) ==
  { PlayDecision(x) : x \in { y \in hands[p] : /\ y \in colorKnown \cap numberKnown
                                               /\ FitsFace(seen[y]) } }

\* Mutant: the flags of the card are not looked at.
HintsAgain(p, seen) ==
  UNION { { HintDecision(q, "color", seen[x].color) :
              x \in { y \in hands[q] : FitsFace(seen[y]) } } : q \in Seats \ {p} }

\* tryUsefulHint: what is not yet known, the colour first, of a card of
\* another player that fits.
UsefulHints(p, seen) ==
  UNION { { IF x \notin colorKnown
            THEN HintDecision(q, "color", seen[x].color)
            ELSE HintDecision(q, "number", seen[x].number) :
              x \in { y \in hands[q] : /\ FitsFace(seen[y])
                                       /\ y \notin colorKnown \cap numberKnown } }
            : q \in Seats \ {p} }

\* tryDiscard: a card without any hint, or else the oldest.
Discards(p) ==
  LET unhinted == hands[p] \ (colorKnown \cup numberKnown)
  IN  { DiscardDecision(x) : x \in IF unhinted # {} THEN unhinted ELSE hands[p] }

\* Mutant: a hint is tried without a look at the tokens.
DecideWithoutTokens(p, seen) ==
  CASE SafePlays(p, seen) # {}     -> SafePlays(p, seen)
    [] SafePlays(p, seen) = {} /\ UsefulHints(p, seen) # {} -> UsefulHints(p, seen)
    [] OTHER                       -> Discards(p)

\* Decide: safe play, useful hint, discard, forced play, in that order.
Decide(p, seen) ==
  LET useful == IF hintTokens > 0 THEN UsefulHints(p, seen) ELSE {}
  IN  CASE SafePlays(p, seen) # {} -> SafePlays(p, seen)
        [] SafePlays(p, seen) = {} /\ useful # {} -> useful
        [] SafePlays(p, seen) = {} /\ useful = {} /\ hintTokens < MaxHintTokens ->
             Discards(p)
        [] OTHER -> { PlayDecision(x) : x \in hands[p] }

-----------------------------------------------------------------------------
\* The cards of a hand that a hint would match.
Matching(d) ==
  IF d.kind = "color" THEN { x \in hands[d.to] : x.color = d.value }
                      ELSE { x \in hands[d.to] : x.number = d.value }

\* The checks of handleGiveHint, handlePlayCard and handleDiscardCard
\* (engine.go:183-233, 248-251, 285-295).
Accepts(p, d) ==
  CASE d.type = "give_hint" -> d.to # p /\ hintTokens > 0 /\ Matching(d) # {}
    [] d.type = "discard"   -> d.card \in hands[p] /\ hintTokens < MaxHintTokens
    [] d.type = "play_card" -> d.card \in hands[p]

\* The player in turn of a running game always has a decision, and the engine
\* accepts it: an AI player can never be refused its turn, whatever hints,
\* misses and discards led to the table (strategy.go:15-45 with engine.go).
DecisionsAreAccepted ==
  ~gameOver => LET D == Decide(turnIndex, Faces)
               IN  D # {} /\ \A d \in D : Accepts(turnIndex, d)

\* Decide is given the whole state, its own cards included; strategy.go:47-48
\* says it knows only what hints have told.  It decides on the player's view
\* of the table exactly as on the table itself.
DecidesFromItsView ==
  \A p \in Seats : hands[p] # {} => Decide(p, GetPlayerView(p)) = Decide(p, Faces)

\* A decided play that does not fit happens only when nothing else is left:
\* all hint tokens are there, so that no card may be discarded, and every card
\* of another player that fits is known to it (strategy.go:22-44); and a
\* decided hint always tells something that its player did not know.
MissesAreForced ==
  \A p \in Seats : \A d \in Decide(p, Faces) :
    /\ d.type = "play_card" /\ ~Fits(d.card) =>
         /\ hintTokens = MaxHintTokens
         /\ \A q \in Seats \ {p} : \A x \in hands[q] :
              Fits(x) => x \in colorKnown \cap numberKnown
    /\ d.type = "give_hint" =>
         ~(Matching(d) \subseteq IF d.kind = "color" THEN colorKnown ELSE numberKnown)

=============================================================================
