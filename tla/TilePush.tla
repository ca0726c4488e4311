------------------------------ MODULE TilePush ------------------------------
(***************************************************************************)
(* The TilePush engine: internal/game/tilepush/engine.go and state.go, its *)
(* tile sets (internal/domain/tilepush) and the saved copy of its state.   *)
(*                                                                         *)
(* Every operation holds Engine.mu, so one operation is one action.  Tiles *)
(* of one shape are alike: a deck and a pile are counts per shape, and a   *)
(* draw takes any shape that is left, which is the shuffled head.  Players *)
(* are seats.  PlayerHands and PlayerTargets, which no step reads, are     *)
(* left out with the check for a winner, State.IsGameOver, which the       *)
(* engine never calls.                                                     *)
(*                                                                         *)
(* A request is refused before it draws (other player's turn), when the    *)
(* deck is empty, which ends the game, or after it drew, when its column   *)
(* or row is none of the board: the tile that was drawn is then gone.      *)
(***************************************************************************)
EXTENDS Integers, FiniteSets

CONSTANTS
  Shapes,               \* the shapes of the tile set that was picked
  CopiesPerType,        \* numCopiesPerTileType
  Rows, Columns,
  NumPlayers,
  Empty,                \* the Shape "" of a free square
  NoState,              \* a nil *State
  MaxRestarts,          \* bound: how often the process restarts
  MaxFaults             \* bound: how many saves fail

ASSUME ShapesAssumption == IsFiniteSet(Shapes) /\ Shapes # {} /\ Empty \notin Shapes
ASSUME BoardAssumption  == /\ Rows \in Nat \ {0}
                           /\ Columns \in Nat \ {0}
                           /\ CopiesPerType \in Nat \ {0}
ASSUME SeatsAssumption  == NumPlayers \in Nat \ {0}
ASSUME BoundsAssumption == MaxRestarts \in Nat /\ MaxFaults \in Nat

Seats   == 0 .. NumPlayers - 1
Row     == 1 .. Rows                              \* row Rows is the bottom
Column  == 1 .. Columns
Squares == Row \X Column
Bags    == [Shapes -> Nat]

State == [board : [Squares -> Shapes \cup {Empty}], deck : Bags, discardPile : Bags,
          turn : Seats, gameOver : BOOLEAN]

VARIABLES
  current,      \* Engine.CurrentState
  saved,        \* what SetGameState stored and GetGameState returns
  lost,         \* history: tiles that refused requests drew, per shape
  refused,      \* history: the newest request was refused after it drew
  announced,    \* history: "game.end" was broadcast for this game
  restarts, faults

history == <<lost, refused, announced>>
vars == <<current, saved, history, restarts, faults>>

-----------------------------------------------------------------------------
NoTiles     == [s \in Shapes |-> 0]
Add(bag, s) == [bag EXCEPT ![s] = @ + 1]
Sub(bag, s) == [bag EXCEPT ![s] = @ - 1]
IsEmpty(bag) == \A s \in Shapes : bag[s] = 0
OnBoard(board, s) == Cardinality({ q \in Squares : board[q] = s })

\* NewState: some copies of each shape; the bottom row is filled from the deck
\* as long as it lasts.
NewState(st) ==
  \E bottom \in [Column -> Shapes \cup {Empty}] :
    LET board == [q \in Squares |-> IF q[1] = Rows THEN bottom[q[2]] ELSE Empty]
        deck  == [s \in Shapes |-> CopiesPerType - OnBoard(board, s)]
    IN  /\ \A s \in Shapes : deck[s] >= 0
        /\ \A c \in Column : bottom[c] = Empty =>
             IsEmpty(deck) /\ \A d \in Column : d > c => bottom[d] = Empty
        /\ st = [board |-> board, deck |-> deck, discardPile |-> NoTiles,
                 turn |-> 0, gameOver |-> FALSE]

Init ==
  /\ current = NoState /\ saved = NoState
  /\ lost = NoTiles /\ refused = FALSE /\ announced = FALSE
  /\ restarts = 0 /\ faults = 0

\* SetGameState: an error is logged and nothing else.
Save(st) ==
  \/ saved' = st /\ UNCHANGED faults
  \/ /\ faults < MaxFaults
     /\ faults' = faults + 1
     /\ UNCHANGED saved

\* StartGame of an engine that has just been made.  The branch that finds a
\* saved state leaves CurrentState nil, and nil is what it then saves.
StartGame ==
  /\ current = NoState
  /\ \/ /\ saved = NoState
        /\ NewState(current')
        /\ lost' = NoTiles /\ refused' = FALSE /\ announced' = FALSE
     \/ /\ saved # NoState
        /\ UNCHANGED <<current, history>>
  /\ Save(current')
  /\ UNCHANGED restarts

-----------------------------------------------------------------------------
\* Deck[1:] for a drawn tile.
Drawn(bag, s) == Sub(bag, s)

\* The squares of the column from `row' down move down by one.
Shifted(board, row, col, tile) ==
  [q \in Squares |-> CASE q[2] # col \/ q[1] < row -> board[q]
                       [] q = <<row, col>>         -> tile
                       [] q[2] = col /\ q[1] > row -> board[<<q[1] - 1, col>>]]

\* Mutant: the bottom tile is put aside only when the whole column is full.
PushedOutIfFull(board, col) ==
  IF \A r \in Row : board[<<r, col>>] # Empty THEN board[<<Rows, col>>] ELSE Empty

\* pushedOutTile: the bottom tile, whether or not the column has gaps.
PushedOut(board, col) == board[<<Rows, col>>]

NextSeat(p) == (p + 1) % NumPlayers

\* The state that handleTilePush leaves after an accepted request, before
\* IsGameOver.  The player keeps the turn if the shapes match.
Pushed(st, row, col, tile) ==
  LET out == PushedOut(st.board, col)
  IN  [st EXCEPT !.board = Shifted(@, row, col, tile),
                 !.deck = Drawn(@, tile),
                 !.discardPile = IF out = Empty THEN @ ELSE Add(@, out),
                 !.turn = IF tile = out THEN @ ELSE NextSeat(@)]

\* Mutant: one tile too early.
OverAtLastTile(st) ==
  [st EXCEPT !.gameOver = @ \/ \E s \in Shapes : IsEmpty([st.deck EXCEPT ![s] = 0])]

\* Engine.IsGameOver, which also sets GameOver.
IsGameOver(st) == [st EXCEPT !.gameOver = @ \/ IsEmpty(st.deck)]

\* HandleEvent of a request that passes every check.
TilePush(row, col) ==
  /\ current # NoState
  /\ \E tile \in Shapes :
       /\ current.deck[tile] > 0
       /\ current' = IsGameOver(Pushed(current, row, col, tile))
       /\ announced' = (announced \/ current'.gameOver)
       /\ Save(current')
  /\ refused' = FALSE
  /\ UNCHANGED <<lost, restarts>>

\* HandleEvent of a request for a square that is none of the board: the tile
\* is drawn before column and row are looked at, and the error returns before
\* the end is looked at, saved or broadcast.
RefusedPush ==
  /\ current # NoState
  /\ \E tile \in Shapes :
       /\ current.deck[tile] > 0
       /\ current' = [current EXCEPT !.deck = Drawn(@, tile)]
       /\ lost' = Add(lost, tile)
  /\ refused' = TRUE
  /\ UNCHANGED <<saved, announced, restarts, faults>>

\* HandleEvent of the player in turn when the deck is empty.
PushOnEmptyDeck ==
  /\ current # NoState
  /\ IsEmpty(current.deck)
  /\ current' = [current EXCEPT !.gameOver = TRUE]
  /\ UNCHANGED <<saved, history, restarts, faults>>

\* Mutant: a timeout also skips the turn of a finished game.
ForceActionAnyTime ==
  /\ current # NoState
  /\ current' = [current EXCEPT !.turn = NextSeat(@)]
  /\ Save(current')
  /\ UNCHANGED <<history, restarts>>

\* Mutant: a skipped turn is not saved.
ForceActionUnsaved ==
  /\ current # NoState
  /\ ~current.gameOver
  /\ current' = [current EXCEPT !.turn = NextSeat(@)]
  /\ UNCHANGED <<saved, history, restarts, faults>>

\* ExecuteForceAction: the turn is skipped, and nothing is drawn.
ForceAction ==
  /\ current # NoState
  /\ ~current.gameOver
  /\ current' = [current EXCEPT !.turn = NextSeat(@)]
  /\ Save(current')
  /\ UNCHANGED <<history, restarts>>

\* EndGame, by the caller that wants the game ended.
EndGame ==
  /\ current # NoState
  /\ announced' = TRUE
  /\ UNCHANGED <<current, saved, lost, refused, restarts, faults>>

\* Engine.IsGameOver, as the caller asks it after a request or a timeout.
CallerAsksIfOver ==
  /\ current # NoState
  /\ current' = IsGameOver(current)
  /\ UNCHANGED <<saved, history, restarts, faults>>

\* The process dies; a new engine is made for the room.
Restart ==
  /\ restarts < MaxRestarts
  /\ restarts' = restarts + 1
  /\ current' = NoState
  /\ UNCHANGED <<saved, history, faults>>

Next ==
  \/ StartGame \/ EndGame \/ ForceAction \/ CallerAsksIfOver \/ Restart
  \/ \E row \in Row, col \in Column : TilePush(row, col)
  \/ RefusedPush \/ PushOnEmptyDeck

Spec == Init /\ [][Next]_vars

-----------------------------------------------------------------------------
TypeOK ==
  /\ current \in State \cup {NoState} /\ saved \in State \cup {NoState}
  /\ lost \in Bags /\ refused \in BOOLEAN /\ announced \in BOOLEAN
  /\ restarts \in 0 .. MaxRestarts /\ faults \in 0 .. MaxFaults

\* Pushes move tiles between deck, board and pile; the shift of a column with
\* gaps neither doubles nor drops one, and exactly the refused requests lose
\* the tile they drew (engine.go:138-171).
TilesAreConserved ==
  current # NoState =>
    \A s \in Shapes :
      current.deck[s] + OnBoard(current.board, s) + current.discardPile[s] + lost[s]
        = CopiesPerType

\* A game whose deck is used up is over and its players were told, unless the
\* last tile went to a refused request: then the next request or timeout finds
\* it over, and tells nobody (engine.go:131-134, 192-200 against 97-99).
EndOfDeckIsNoticed ==
  current # NoState =>
    /\ current.gameOver => IsEmpty(current.deck)
    /\ IsEmpty(current.deck) /\ ~refused =>
         \/ current.gameOver /\ announced
         \/ \A s \in Shapes : CopiesPerType = OnBoard(current.board, s)

\* The saved state is behind the current one by what refused requests did, and
\* by nothing else, as long as no save failed: the same board, pile and turn
\* (engine.go:93-95 returns before the save).
SavedLagsByRefusals ==
  current # NoState /\ faults = 0 =>
    /\ saved # NoState
    /\ saved.board = current.board
    /\ saved.discardPile = current.discardPile
    /\ saved.turn = current.turn
    /\ refused \/ saved.deck = current.deck

\* Once a game is over its board, pile and turn stay as they are until the
\* process restarts, whatever requests and timeouts still come: nothing but
\* the empty deck keeps them out (HandleEvent does not look at GameOver).
FinalBoardStays ==
  [][current # NoState /\ current' # NoState /\ current.gameOver =>
       /\ current'.board = current.board
       /\ current'.discardPile = current.discardPile
       /\ current'.turn = current.turn]_vars

=============================================================================
