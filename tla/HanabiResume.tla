---------------------------- MODULE HanabiResume ----------------------------
(***************************************************************************)
(* The Hanabi engine over its saved state: what SetGameState leaves in     *)
(* Redis, and the branch of Engine.StartGame that takes it up.             *)
(*                                                                         *)
(* A saved state outlives its game when the process crashes, when the      *)
(* delete of cleanupGame fails, or when StartGame of the service fails     *)
(* after the engine's first save; the next start of the room then resumes  *)
(* it (module GameSession has these paths, and two engines at a time).     *)
(* Meanwhile the players may leave and join, which appends to Room.Players,*)
(* so a seat may have another player, or one who was not in the game.      *)
(*                                                                         *)
(* Bounds: a resumed game has as many players as the saved one; MaxResumes *)
(* resumes; MaxLostSaves saves that fail.                                  *)
(***************************************************************************)
EXTENDS Hanabi

CONSTANTS
  Newcomers,      \* players who were not in the game that was dealt
  MaxResumes,
  MaxLostSaves

ASSUME NewcomersAssumption == IsFiniteSet(Newcomers) /\ Newcomers \cap Seats = {}
ASSUME BoundsAssumption    == MaxResumes \in Nat /\ MaxLostSaves \in Nat

\* A player of the game that was dealt has the name of the seat it had then.
Person == Seats \cup Newcomers

VARIABLES
  players,     \* Engine.Players: who sits where
  away,        \* the entries of PlayerHands of people who are not in the room
  saved,       \* the game state in Redis: a set of at most one state
  resumes,
  lostSaves

resumeVars == <<vars, players, away, saved, resumes, lostSaves>>

\* PlayerHands, by person; nobody holds two seats.
HandOf(x) == IF \E p \in Seats : players[p] = x
             THEN hands[CHOOSE p \in Seats : players[p] = x]
             ELSE away[x]

\* What the JSON of State has: all of it but the deck (state.go:23).
Image == [ hands       |-> [x \in Person |-> HandOf(x)],
           colorKnown  |-> colorKnown,  numberKnown |-> numberKnown,
           fireworks   |-> fireworks,   discardPile |-> discardPile,
           hintTokens  |-> hintTokens,  missTokens  |-> missTokens,
           turnIndex   |-> turnIndex,   lastPlayer  |-> lastPlayer,
           gameOver    |-> gameOver,
           finalScore  |-> finalScore,  endReason   |-> endReason ]

\* SetGameState with the state as the step leaves it; its failure is logged.
SetGameState ==
  \/ saved' = {Image'} /\ UNCHANGED lostSaves
  \/ /\ lostSaves < MaxLostSaves
     /\ lostSaves' = lostSaves + 1
     /\ UNCHANGED saved

ResumeInit ==
  /\ Init
  /\ players = [p \in Seats |-> p]
  /\ away = [x \in Person |-> {}]
  /\ resumes = 0
  /\ \/ saved = {Image} /\ lostSaves = 0
     \/ MaxLostSaves > 0 /\ saved = {} /\ lostSaves = 1

-----------------------------------------------------------------------------
Seatings == { s \in [Seats -> Person] : \A p, q \in Seats : p # q => s[p] # s[q] }

\* Mutant: the pile stays that of the game that ran last.
TakeUpWithoutPile(state) ==
  /\ colorKnown' = state.colorKnown /\ numberKnown' = state.numberKnown
  /\ fireworks' = state.fireworks   /\ UNCHANGED discardPile
  /\ hintTokens' = state.hintTokens
  /\ turnIndex' = state.turnIndex   /\ lastPlayer' = state.lastPlayer
  /\ gameOver' = state.gameOver
  /\ finalScore' = state.finalScore /\ endReason' = state.endReason

\* Mutant: whether the game is over is not in the JSON.
TakeUpRunning(state) ==
  /\ colorKnown' = state.colorKnown /\ numberKnown' = state.numberKnown
  /\ fireworks' = state.fireworks   /\ discardPile' = state.discardPile
  /\ hintTokens' = state.hintTokens
  /\ turnIndex' = state.turnIndex   /\ lastPlayer' = state.lastPlayer
  /\ gameOver' = FALSE
  /\ finalScore' = state.finalScore /\ endReason' = state.endReason

\* CurrentState is what was saved; hands and misses come below.
TakeUp(state) ==
  /\ colorKnown' = state.colorKnown /\ numberKnown' = state.numberKnown
  /\ fireworks' = state.fireworks   /\ discardPile' = state.discardPile
  /\ hintTokens' = state.hintTokens
  /\ turnIndex' = state.turnIndex   /\ lastPlayer' = state.lastPlayer
  /\ gameOver' = state.gameOver
  /\ finalScore' = state.finalScore /\ endReason' = state.endReason

\* Seated on `seating', everyone has the hand under its name.
SitDown(state, seating) ==
  /\ players' = seating
  /\ hands' = [p \in Seats |-> state.hands[seating[p]]]
  /\ away' = [x \in Person |-> IF \E p \in Seats : seating[p] = x THEN {} ELSE state.hands[x]]

\* Mutant: the deck of the game that ran last is still there.
ResumeWithDeck(state, seating) ==
  /\ TakeUp(state) /\ SitDown(state, seating)
  /\ missTokens' = state.missTokens
  /\ UNCHANGED deck

\* StartGame of the engine, its branch for a saved state.
Resume(state, seating) ==
  /\ TakeUp(state) /\ SitDown(state, seating)
  /\ missTokens' = state.missTokens
  /\ deck' = {}

\* StartGame of the service, when the saved state can be read.
StartGame ==
  /\ resumes < MaxResumes
  /\ resumes' = resumes + 1
  /\ \E state \in saved, seating \in Seatings : Resume(state, seating)
  /\ SetGameState

\* A hint may go to anyone who has a hand, in the room or not; nobody in the room
\* has one that is kept for later.
HintAway ==
  \E p \in Seats, x \in Person : \E matching \in SUBSET away[x] :
    /\ Hint(p, NoPlayer, matching)
    /\ \/ /\ \E c \in Colors : matching = { y \in away[x] : y.color = c }
          /\ colorKnown' = colorKnown \cup matching /\ UNCHANGED numberKnown
       \/ /\ \E n \in Number : matching = { y \in away[x] : y.number = n }
          /\ numberKnown' = numberKnown \cup matching /\ UNCHANGED colorKnown

\* HandleEvent and ExecuteForceAction save what they changed ...
Request == /\ PlayerHint \/ HintAway \/ PlayerPlay \/ PlayerDiscard
           /\ UNCHANGED <<players, away, resumes>>
           /\ SetGameState

\* Mutant: a forced action is not saved.
TimeoutWithoutSave == /\ TurnTimeout
                      /\ UNCHANGED <<players, away, resumes, saved, lostSaves>>

\* Mutant: only a game that was dealt is timed.
TimeoutOfDealt == /\ TurnTimeout
                  /\ resumes = 0
                  /\ UNCHANGED <<players, away, resumes>>
                  /\ SetGameState

Timeout == /\ TurnTimeout
           /\ UNCHANGED <<players, away, resumes>>
           /\ SetGameState

\* ... and EndGame does not.
End == EndGame /\ UNCHANGED <<players, away, saved, resumes, lostSaves>>

ResumeNext == Request \/ Timeout \/ End \/ StartGame

ResumeSpec == ResumeInit /\ [][ResumeNext]_resumeVars

\* As in FairSpec: the service starts a timer for a resumed game as well.
ResumeFairSpec == ResumeSpec /\ WF_resumeVars(Timeout) /\ WF_resumeVars(End)

-----------------------------------------------------------------------------
\* A game that is taken up, by whomever and from a state that may be old, keeps
\* its cards apart, those of players who left and may come back included: what
\* is restored is of one moment (engine.go:52-65).
ResumedCardsOnce ==
  /\ OneHolderPerCard
  /\ \A x, y \in Person : x # y => HandOf(x) \cap HandOf(y) = {}

\* What the timer of a resumed game can count on: while it runs, all who were
\* in the game that was dealt have full hands, on whatever seats and however
\* often it was taken up, so a forced action finds a card; a player who joined
\* since has none, and only for it the timer cannot move (engine.go:57-66,
\* 333-338).
Due(x) == IF x \in Newcomers THEN 0 ELSE HandSize

ResumedHandsFull == ~gameOver => \A p \in Seats : Cardinality(hands[p]) = Due(players[p])

\* Everyone finds the cards and the knowledge it had when the state was saved,
\* also on another seat: if no save was lost, a resume changes nothing of the
\* running game but the deck, and who sits where (engine.go:52-66, 123-128).
NothingLostButDeck ==
  [][resumes' # resumes /\ lostSaves = 0 /\ ~gameOver =>
       /\ UNCHANGED <<known, fireworks, discardPile, tokens, turn, result>>
       /\ \A x \in Person : HandOf(x)' = HandOf(x)]_resumeVars

\* The deck is lost for good: a resumed game can go on with hints, and the
\* next card that is played or discarded ends it (state.go:23, engine.go:147).
NextCardEndsResumed ==
  [][resumes > 0 /\ resumes' = resumes /\ hands' # hands => gameOver']_resumeVars

\* Among the players it was dealt to, on any seats, a resumed game ends too and
\* its result is recorded: the timer of the new game forces the card that ends
\* it, or sees the game over.  Without a hand a newcomer cannot be forced to
\* move, and the game waits for it (engine.go:333-338).
ResumedGameEnds == [](\A p \in Seats : players[p] \notin Newcomers) => GameEnds

=============================================================================
