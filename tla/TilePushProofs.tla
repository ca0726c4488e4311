--------------------------- MODULE TilePushProofs ---------------------------
(***************************************************************************)
(* What holds of the TilePush engine for every board, tile set and number  *)
(* of players, of restarts and of saves that fail.                         *)
(***************************************************************************)
EXTENDS TilePush, FiniteSetTheorems, TLAPS

IInv == TypeOK /\ TilesAreConserved /\ EndOfDeckIsNoticed /\ SavedLagsByRefusals

\* A game that is over keeps its board, pile and turn for one step.
FinalStep ==
  current # NoState /\ current' # NoState /\ current.gameOver =>
    /\ current'.board = current.board
    /\ current'.discardPile = current.discardPile
    /\ current'.turn = current.turn

-----------------------------------------------------------------------------
(* Squares and counts. *)

LEMMA SquareParts ==
  /\ Rows \in Nat /\ Columns \in Nat /\ Rows >= 1
  /\ \A q \in Squares : /\ q[1] \in 1 .. Rows /\ q[2] \in 1 .. Columns
                        /\ q = <<q[1], q[2]>>
  /\ \A r \in 1 .. Rows, c \in 1 .. Columns : <<r, c>> \in Squares
  BY BoardAssumption DEF Squares, Row, Column

LEMMA CountType ==
  ASSUME NEW board, NEW s
  PROVE  /\ IsFiniteSet({ q \in Squares : board[q] = s })
         /\ OnBoard(board, s) \in Nat
  <1>1. IsFiniteSet(Squares)
    <2>1. IsFiniteSet(Row) /\ IsFiniteSet(Column)
      BY BoardAssumption, FS_Interval DEF Row, Column
    <2> QED BY <2>1, FS_Product DEF Squares
  <1>2. IsFiniteSet({ q \in Squares : board[q] = s })
    BY <1>1, FS_Subset
  <1> QED BY <1>2, FS_CardinalityType DEF OnBoard

LEMMA NextSeatType ==
  ASSUME NEW p \in Seats
  PROVE  NextSeat(p) \in Seats
  BY SeatsAssumption DEF NextSeat, Seats

LEMMA BagOps ==
  ASSUME NEW bag \in Bags, NEW s \in Shapes
  PROVE  /\ Add(bag, s) \in Bags
         /\ bag[s] > 0 => Sub(bag, s) \in Bags
         /\ \A u \in Shapes : bag[u] \in Nat
         /\ \A u \in Shapes : Add(bag, s)[u] = IF u = s THEN bag[u] + 1 ELSE bag[u]
         /\ \A u \in Shapes : Sub(bag, s)[u] = IF u = s THEN bag[u] - 1 ELSE bag[u]
  BY DEF Bags, Add, Sub

-----------------------------------------------------------------------------
(* A push shifts a column: every tile of the board but the bottom one of    *)
(* the column is on the new board, one lower or where it was.               *)

LEMMA ShiftedSquares ==
  ASSUME NEW board \in [Squares -> Shapes \cup {Empty}],
         NEW row \in Row, NEW col \in Column, NEW tile \in Shapes
  PROVE  /\ Shifted(board, row, col, tile) \in [Squares -> Shapes \cup {Empty}]
         /\ Shifted(board, row, col, tile)[<<row, col>>] = tile
         /\ \A q \in Squares : q[2] # col \/ q[1] < row =>
              Shifted(board, row, col, tile)[q] = board[q]
         /\ \A q \in Squares : q[2] = col /\ q[1] > row =>
              /\ <<q[1] - 1, col>> \in Squares
              /\ Shifted(board, row, col, tile)[q] = board[<<q[1] - 1, col>>]
  <1> DEFINE new == Shifted(board, row, col, tile)
  <1>0. row \in 1 .. Rows /\ col \in 1 .. Columns /\ <<row, col>> \in Squares
    BY SquareParts DEF Row, Column
  <1>1. new[<<row, col>>] = tile
    BY <1>0, SquareParts DEF Shifted
  <1>2. ASSUME NEW q \in Squares, q[2] # col \/ q[1] < row PROVE new[q] = board[q]
    <2>1. new[q] = CASE q[2] # col \/ q[1] < row -> board[q]
                     [] q = <<row, col>>         -> tile
                     [] q[2] = col /\ q[1] > row -> board[<<q[1] - 1, col>>]
      BY DEF Shifted
    <2>2. q # <<row, col>> /\ ~(q[2] = col /\ q[1] > row)
      BY <1>0, <1>2, SquareParts
    <2> HIDE DEF new
    <2> QED BY <1>2, <2>1, <2>2
  <1>3. ASSUME NEW q \in Squares, q[2] = col, q[1] > row
        PROVE  <<q[1] - 1, col>> \in Squares /\ new[q] = board[<<q[1] - 1, col>>]
    <2>1. q[1] \in 1 .. Rows /\ q # <<row, col>> /\ ~(q[1] < row)
      BY <1>0, <1>3, SquareParts
    <2>2. q[1] - 1 \in 1 .. Rows
      BY <1>0, <1>3, <2>1, SquareParts
    <2>3. <<q[1] - 1, col>> \in Squares
      BY <1>0, <2>2, SquareParts
    <2>4. new[q] = board[<<q[1] - 1, col>>]
      <3>1. new[q] = CASE q[2] # col \/ q[1] < row -> board[q]
                       [] q = <<row, col>>         -> tile
                       [] q[2] = col /\ q[1] > row -> board[<<q[1] - 1, col>>]
        BY DEF Shifted
      <3>2. ~(q[2] # col \/ q[1] < row)
        BY <1>3, <2>1
      <3> HIDE DEF new
      <3> QED BY <1>3, <2>1, <3>1, <3>2
    <2> QED BY <2>3, <2>4
  <1> HIDE DEF new
  <1>4. ASSUME NEW q \in Squares PROVE new[q] \in Shapes \cup {Empty}
    <2>1. CASE q[2] # col \/ q[1] < row
      BY <1>2, <2>1
    <2>2. CASE q[2] = col /\ q[1] > row
      BY <1>3, <2>2
    <2>3. CASE q[2] = col /\ q[1] = row
      <3>1. q = <<row, col>>
        BY <2>3, SquareParts
      <3> QED BY <1>1, <3>1
    <2> QED BY <1>0, <2>1, <2>2, <2>3, SquareParts
  <1>5. new \in [Squares -> Shapes \cup {Empty}]
    BY <1>4, Zenon DEF new, Shifted
  <1> QED BY <1>1, <1>2, <1>3, <1>5 DEF new

LEMMA ShiftedCounts ==
  ASSUME NEW board \in [Squares -> Shapes \cup {Empty}],
         NEW row \in Row, NEW col \in Column, NEW tile \in Shapes, NEW s \in Shapes
  PROVE  OnBoard(Shifted(board, row, col, tile), s)
           + (IF PushedOut(board, col) = s THEN 1 ELSE 0)
         = OnBoard(board, s) + (IF tile = s THEN 1 ELSE 0)
  <1> DEFINE new == Shifted(board, row, col, tile)
             in  == <<row, col>>
             out == <<Rows, col>>
             S   == { q \in Squares : board[q] = s }
             T   == { q \in Squares : new[q] = s }
             f   == [q \in S \ {out} |->
                       IF q[2] = col /\ q[1] >= row THEN <<q[1] + 1, col>> ELSE q]
  <1>0. /\ row \in 1 .. Rows /\ col \in 1 .. Columns /\ in \in Squares /\ out \in Squares
        /\ Rows \in Nat
    BY SquareParts DEF Row, Column
  <1>1. /\ new[in] = tile
        /\ \A q \in Squares : q[2] # col \/ q[1] < row => new[q] = board[q]
        /\ \A q \in Squares : q[2] = col /\ q[1] > row =>
             <<q[1] - 1, col>> \in Squares /\ new[q] = board[<<q[1] - 1, col>>]
    BY ShiftedSquares
  <1> HIDE DEF new
  <1>2. ASSUME NEW q \in S \ {out}, q[2] = col, q[1] >= row
        PROVE  /\ f[q] = <<q[1] + 1, col>> /\ f[q] \in T \ {in}
               /\ f[q][1] = q[1] + 1 /\ f[q][2] = col
    <2>1. q[1] \in 1 .. Rows /\ q[1] # Rows
      BY <1>2, SquareParts
    <2>2. q[1] + 1 \in 1 .. Rows /\ q[1] + 1 > row
      BY <1>0, <1>2, <2>1
    <2>3. <<q[1] + 1, col>> \in Squares
      BY <1>0, <2>2, SquareParts
    <2>4. <<(q[1] + 1) - 1, col>> = q
      BY <1>2, <2>1, SquareParts
    <2>5. new[<<q[1] + 1, col>>] = s
      BY <1>1, <2>2, <2>3, <2>4
    <2>6. <<q[1] + 1, col>> # in
      BY <1>0, <2>2
    <2>7. f[q] = <<q[1] + 1, col>>
      BY <1>2
    <2> QED BY <2>3, <2>5, <2>6, <2>7
  <1>3. ASSUME NEW q \in S \ {out}, ~(q[2] = col /\ q[1] >= row)
        PROVE  f[q] = q /\ f[q] \in T \ {in}
    <2>1. q[1] \in 1 .. Rows
      BY SquareParts
    <2>2. q[2] # col \/ q[1] < row
      BY <1>0, <1>3, <2>1
    <2>3. new[q] = s /\ q # in
      BY <1>0, <1>1, <2>2
    <2>4. f[q] = q
      BY <1>3
    <2> QED BY <2>3, <2>4
  <1>4. f \in [S \ {out} -> T \ {in}]
    BY <1>2, <1>3
  <1>5. ASSUME NEW a \in S \ {out}, NEW b \in S \ {out}, f[a] = f[b] PROVE a = b
    <2>0. /\ a[1] \in 1 .. Rows /\ b[1] \in 1 .. Rows
          /\ a = <<a[1], a[2]>> /\ b = <<b[1], b[2]>>
      BY SquareParts
    <2> HIDE DEF f
    <2>1. CASE (a[2] = col /\ a[1] >= row) /\ (b[2] = col /\ b[1] >= row)
      <3>1. a[1] + 1 = b[1] + 1
        BY <1>2, <1>5, <2>1
      <3> QED BY <2>0, <2>1, <3>1
    <2>2. CASE (a[2] = col /\ a[1] >= row) /\ ~(b[2] = col /\ b[1] >= row)
      <3>1. b[1] = a[1] + 1 /\ b[2] = col
        BY <1>2, <1>3, <1>5, <2>2
      <3> QED BY <1>0, <2>0, <2>2, <3>1
    <2>3. CASE ~(a[2] = col /\ a[1] >= row) /\ (b[2] = col /\ b[1] >= row)
      <3>1. a[1] = b[1] + 1 /\ a[2] = col
        BY <1>2, <1>3, <1>5, <2>3
      <3> QED BY <1>0, <2>0, <2>3, <3>1
    <2>4. CASE ~(a[2] = col /\ a[1] >= row) /\ ~(b[2] = col /\ b[1] >= row)
      BY <1>3, <1>5, <2>4
    <2> QED BY <2>1, <2>2, <2>3, <2>4
  <1>6. ASSUME NEW t \in T \ {in} PROVE \E q \in S \ {out} : f[q] = t
    <2>0. t[1] \in 1 .. Rows /\ t[2] \in 1 .. Columns /\ t = <<t[1], t[2]>>
      BY SquareParts
    <2>1. CASE t[2] = col /\ t[1] > row
      <3> DEFINE q == <<t[1] - 1, col>>
      <3>1. q \in S
        BY <1>1, <2>1
      <3>2. q[1] = t[1] - 1 /\ q[2] = col /\ q[1] >= row /\ q # out
        BY <1>0, <2>0, <2>1
      <3>3. f[q] = <<q[1] + 1, col>>
        BY <1>2, <3>1, <3>2
      <3>4. <<q[1] + 1, col>> = t
        BY <2>0, <2>1, <3>2
      <3> QED BY <3>1, <3>2, <3>3, <3>4
    <2>2. CASE ~(t[2] = col /\ t[1] > row)
      <3>1. t[2] # col \/ t[1] < row
        BY <1>0, <2>0, <2>2
      <3>2. t \in S /\ t # out
        BY <1>0, <1>1, <3>1
      <3>3. ~(t[2] = col /\ t[1] >= row)
        BY <1>0, <2>0, <3>1
      <3> QED BY <1>3, <3>2, <3>3
    <2> QED BY <2>1, <2>2
  <1>7. f \in Bijection(S \ {out}, T \ {in})
    <2> HIDE DEF f, S, T
    <2> QED BY <1>4, <1>5, <1>6 DEF Bijection, Injection, Surjection, IsInjective
  <1>8. /\ IsFiniteSet(S) /\ IsFiniteSet(T)
        /\ Cardinality(S) = OnBoard(board, s) /\ Cardinality(T) = OnBoard(new, s)
        /\ Cardinality(S) \in Nat /\ Cardinality(T) \in Nat
    BY CountType DEF OnBoard
  <1>9. /\ out \in S <=> PushedOut(board, col) = s
        /\ in \in T <=> tile = s
    BY <1>0, <1>1 DEF PushedOut
  <1> HIDE DEF S, T, f, in, out
  <1>10. Cardinality(T \ {in}) = Cardinality(S \ {out})
    <2>1. IsFiniteSet(S \ {out})
      BY <1>8, FS_RemoveElement
    <2>2. ExistsBijection(S \ {out}, T \ {in})
      BY <1>7 DEF ExistsBijection
    <2> QED BY <2>1, <2>2, FS_Bijection
  <1>11. Cardinality(S \ {out}) = IF out \in S THEN Cardinality(S) - 1 ELSE Cardinality(S)
    BY <1>8, FS_RemoveElement
  <1>12. Cardinality(T \ {in}) = IF in \in T THEN Cardinality(T) - 1 ELSE Cardinality(T)
    BY <1>8, FS_RemoveElement
  <1>13. Cardinality(T) + (IF out \in S THEN 1 ELSE 0)
           = Cardinality(S) + (IF in \in T THEN 1 ELSE 0)
    BY <1>8, <1>10, <1>11, <1>12
  <1> QED BY <1>8, <1>9, <1>13 DEF new

-----------------------------------------------------------------------------
(* The invariant. *)

LEMMA InitInv == Init => IInv
  <1> SUFFICES ASSUME Init PROVE IInv
    OBVIOUS
  <1>1. NoTiles \in Bags /\ 0 \in 0 .. MaxRestarts /\ 0 \in 0 .. MaxFaults
    BY BoundsAssumption DEF NoTiles, Bags
  <1> QED BY <1>1
     DEF Init, IInv, TypeOK, TilesAreConserved, EndOfDeckIsNoticed, SavedLagsByRefusals

\* A save that succeeds stores the state, one that fails counts.
LEMMA SaveEffect ==
  ASSUME TypeOK, NEW st \in State \cup {NoState}, Save(st)
  PROVE  /\ saved' \in State \cup {NoState} /\ faults' \in 0 .. MaxFaults
         /\ faults' = 0 => saved' = st /\ faults = 0
  <1>1. faults \in Nat /\ MaxFaults \in Nat /\ faults <= MaxFaults
    BY BoundsAssumption DEF TypeOK
  <1>2. CASE saved' = st /\ UNCHANGED faults
    BY <1>1, <1>2 DEF TypeOK
  <1>3. CASE faults < MaxFaults /\ faults' = faults + 1 /\ UNCHANGED saved
    BY <1>1, <1>3 DEF TypeOK
  <1> QED BY <1>2, <1>3 DEF Save

LEMMA NewStateIsState ==
  ASSUME NEW st, NewState(st)
  PROVE  /\ st \in State /\ st.gameOver = FALSE
         /\ \A s \in Shapes : st.deck[s] + OnBoard(st.board, s) = CopiesPerType
         /\ st.discardPile = NoTiles
  <1>1. PICK bottom \in [Column -> Shapes \cup {Empty}] :
          LET board == [q \in Squares |-> IF q[1] = Rows THEN bottom[q[2]] ELSE Empty]
              deck  == [s \in Shapes |-> CopiesPerType - OnBoard(board, s)]
          IN  /\ \A s \in Shapes : deck[s] >= 0
              /\ st = [board |-> board, deck |-> deck, discardPile |-> NoTiles,
                       turn |-> 0, gameOver |-> FALSE]
    BY DEF NewState
  <1> DEFINE board == [q \in Squares |-> IF q[1] = Rows THEN bottom[q[2]] ELSE Empty]
             deck  == [s \in Shapes |-> CopiesPerType - OnBoard(board, s)]
  <1>2. board \in [Squares -> Shapes \cup {Empty}]
    BY SquareParts DEF Column
  <1> HIDE DEF board
  <1>3. \A s \in Shapes : OnBoard(board, s) \in Nat
    BY CountType
  <1>4. deck \in Bags
    BY <1>1, <1>3, BoardAssumption DEF Bags, board
  <1>5. NoTiles \in Bags
    BY DEF NoTiles, Bags
  <1>6. 0 \in Seats
    BY SeatsAssumption DEF Seats
  <1>7. st = [board |-> board, deck |-> deck, discardPile |-> NoTiles,
              turn |-> 0, gameOver |-> FALSE]
    BY <1>1 DEF board
  <1>8. \A s \in Shapes : deck[s] + OnBoard(board, s) = CopiesPerType
    BY <1>3, BoardAssumption
  <1> HIDE DEF deck
  <1> QED BY <1>2, <1>4, <1>5, <1>6, <1>7, <1>8 DEF State

LEMMA StartInv ==
  ASSUME IInv, StartGame
  PROVE  IInv'
  <1>1. CASE NewState(current') /\ lost' = NoTiles /\ refused' = FALSE /\ announced' = FALSE
    <2>1. /\ current' \in State /\ current'.gameOver = FALSE
          /\ \A s \in Shapes : current'.deck[s] + OnBoard(current'.board, s) = CopiesPerType
          /\ current'.discardPile = NoTiles
      BY <1>1, NewStateIsState
    <2>2. /\ saved' \in State \cup {NoState} /\ faults' \in 0 .. MaxFaults
          /\ faults' = 0 => saved' = current'
      BY <2>1, SaveEffect DEF StartGame, IInv
    <2>3. NoTiles \in Bags /\ \A s \in Shapes : NoTiles[s] = 0
      BY DEF NoTiles, Bags
    <2>4. TypeOK'
      BY <1>1, <2>1, <2>2, <2>3 DEF StartGame, IInv, TypeOK
    <2>5. TilesAreConserved'
      <3>1. ASSUME NEW s \in Shapes
            PROVE  current'.deck[s] + OnBoard(current'.board, s) + current'.discardPile[s]
                     + lost'[s] = CopiesPerType
        <4>1. current'.deck[s] \in Nat /\ OnBoard(current'.board, s) \in Nat
          BY <2>1, CountType DEF State, Bags
        <4> QED BY <1>1, <2>1, <2>3, <4>1
      <3> QED BY <3>1 DEF TilesAreConserved
    <2>6. SavedLagsByRefusals'
      BY <1>1, <2>1, <2>2 DEF SavedLagsByRefusals
    <2>7. EndOfDeckIsNoticed'
      <3>1. ASSUME IsEmpty(current'.deck), NEW s \in Shapes
            PROVE  CopiesPerType = OnBoard(current'.board, s)
        <4>1. current'.deck[s] = 0 /\ OnBoard(current'.board, s) \in Nat
          BY <3>1, CountType DEF IsEmpty
        <4> QED BY <2>1, <4>1
      <3> QED BY <2>1, <3>1 DEF EndOfDeckIsNoticed
    <2> QED BY <2>4, <2>5, <2>6, <2>7 DEF IInv
  <1>2. CASE UNCHANGED <<current, history>>
    <2>1. current' = NoState
      BY <1>2 DEF StartGame
    <2>2. saved' \in State \cup {NoState} /\ faults' \in 0 .. MaxFaults
      BY <2>1, SaveEffect DEF StartGame, IInv
    <2> QED BY <1>2, <2>1, <2>2
       DEF StartGame, history, IInv, TypeOK, TilesAreConserved, EndOfDeckIsNoticed,
           SavedLagsByRefusals
  <1> QED BY <1>1, <1>2 DEF StartGame

\* The fields of the state after a push, before and after the look at the end.
LEMMA PushedFields ==
  ASSUME NEW st \in State, NEW row \in Row, NEW col \in Column, NEW tile \in Shapes,
         st.deck[tile] > 0
  PROVE  LET new == Pushed(st, row, col, tile)
             out == PushedOut(st.board, col)
         IN  /\ new \in State
             /\ new.board = Shifted(st.board, row, col, tile)
             /\ new.deck = Sub(st.deck, tile)
             /\ new.discardPile = IF out = Empty THEN st.discardPile ELSE Add(st.discardPile, out)
             /\ new.gameOver = st.gameOver
  <1> DEFINE new == Pushed(st, row, col, tile)
             out == PushedOut(st.board, col)
             board == Shifted(st.board, row, col, tile)
             deck == Sub(st.deck, tile)
             pile == IF out = Empty THEN st.discardPile ELSE Add(st.discardPile, out)
             turn == IF tile = out THEN st.turn ELSE NextSeat(st.turn)
  <1>1. /\ st.board \in [Squares -> Shapes \cup {Empty}] /\ st.deck \in Bags
        /\ st.discardPile \in Bags /\ st.turn \in Seats /\ st.gameOver \in BOOLEAN
    BY DEF State
  <1>2. out \in Shapes \cup {Empty}
    <2>1. <<Rows, col>> \in Squares
      BY SquareParts DEF Column
    <2> QED BY <1>1, <2>1 DEF PushedOut
  <1>3. board \in [Squares -> Shapes \cup {Empty}]
    BY <1>1, ShiftedSquares
  <1>4. deck \in Bags /\ pile \in Bags
    BY <1>1, <1>2, BagOps
  <1>5. turn \in Seats
    BY <1>1, NextSeatType
  <1>6. new = [st EXCEPT !.board = board, !.deck = deck, !.discardPile = pile, !.turn = turn]
    BY DEF Pushed, Drawn
  <1> HIDE DEF board, deck, pile, turn, new, out
  <1>7. /\ new \in State /\ new.board = board /\ new.deck = deck /\ new.discardPile = pile
        /\ new.gameOver = st.gameOver
    BY <1>3, <1>4, <1>5, <1>6 DEF State
  <1> QED BY <1>7 DEF new, board, deck, pile, out

LEMMA OverFields ==
  ASSUME NEW st \in State
  PROVE  /\ IsGameOver(st) \in State
         /\ IsGameOver(st).board = st.board /\ IsGameOver(st).deck = st.deck
         /\ IsGameOver(st).discardPile = st.discardPile /\ IsGameOver(st).turn = st.turn
         /\ IsGameOver(st).gameOver <=> (st.gameOver \/ IsEmpty(st.deck))
  <1>1. IsGameOver(st) = [st EXCEPT !.gameOver = st.gameOver \/ IsEmpty(st.deck)]
    BY DEF IsGameOver
  <1>2. (st.gameOver \/ IsEmpty(st.deck)) \in BOOLEAN
    OBVIOUS
  <1> DEFINE over == st.gameOver \/ IsEmpty(st.deck)
  <1>3. over \in BOOLEAN
    BY <1>2
  <1>4. IsGameOver(st) = [st EXCEPT !.gameOver = over]
    BY <1>1
  <1>5. over <=> (st.gameOver \/ IsEmpty(st.deck))
    OBVIOUS
  <1> HIDE DEF over
  <1>6. /\ IsGameOver(st) \in State
        /\ IsGameOver(st).board = st.board /\ IsGameOver(st).deck = st.deck
        /\ IsGameOver(st).discardPile = st.discardPile /\ IsGameOver(st).turn = st.turn
        /\ IsGameOver(st).gameOver = over
    BY <1>3, <1>4 DEF State
  <1> QED BY <1>5, <1>6

\* A push adds the drawn tile to the board and the pushed one to the pile.
LEMMA PushInv ==
  ASSUME IInv, NEW row \in Row, NEW col \in Column, TilePush(row, col)
  PROVE  IInv'
  <1>1. PICK tile \in Shapes :
          /\ current.deck[tile] > 0
          /\ current' = IsGameOver(Pushed(current, row, col, tile))
          /\ announced' = (announced \/ current'.gameOver)
          /\ Save(current')
    BY DEF TilePush
  <1>2. /\ current \in State /\ current # NoState /\ refused' = FALSE
        /\ lost' = lost /\ restarts' = restarts
    BY DEF TilePush, IInv, TypeOK
  <1> DEFINE new == Pushed(current, row, col, tile)
             out == PushedOut(current.board, col)
  <1>3. /\ new \in State
        /\ new.board = Shifted(current.board, row, col, tile)
        /\ new.deck = Sub(current.deck, tile)
        /\ new.discardPile = IF out = Empty THEN current.discardPile
                                            ELSE Add(current.discardPile, out)
        /\ new.gameOver = current.gameOver
    BY <1>1, <1>2, PushedFields
  <1>4. /\ current' \in State /\ current'.board = new.board /\ current'.deck = new.deck
        /\ current'.discardPile = new.discardPile
        /\ current'.gameOver <=> (new.gameOver \/ IsEmpty(new.deck))
    BY <1>1, <1>3, OverFields
  <1>5. /\ saved' \in State \cup {NoState} /\ faults' \in 0 .. MaxFaults
        /\ faults' = 0 => saved' = current'
    BY <1>1, <1>4, SaveEffect DEF IInv
  <1>6. announced' \in BOOLEAN
    BY <1>1
  <1>7. TypeOK'
    BY <1>2, <1>4, <1>5, <1>6 DEF IInv, TypeOK
  <1>8. TilesAreConserved'
    <2>1. ASSUME NEW s \in Shapes
          PROVE  current'.deck[s] + OnBoard(current'.board, s) + current'.discardPile[s]
                   + lost'[s] = CopiesPerType
      <3>1. /\ current.board \in [Squares -> Shapes \cup {Empty}]
            /\ current.deck \in Bags /\ current.discardPile \in Bags /\ lost \in Bags
        BY <1>2 DEF State, IInv, TypeOK
      <3>2. /\ current.deck[s] \in Nat /\ current.discardPile[s] \in Nat /\ lost[s] \in Nat
            /\ OnBoard(current.board, s) \in Nat /\ OnBoard(new.board, s) \in Nat
        BY <3>1, CountType DEF Bags
      <3>3. current.deck[s] + OnBoard(current.board, s) + current.discardPile[s] + lost[s]
              = CopiesPerType
        BY <1>2 DEF IInv, TilesAreConserved
      <3>4. OnBoard(new.board, s) + (IF out = s THEN 1 ELSE 0)
              = OnBoard(current.board, s) + (IF tile = s THEN 1 ELSE 0)
        BY <1>3, <3>1, ShiftedCounts
      <3>5. new.deck[s] = IF s = tile THEN current.deck[s] - 1 ELSE current.deck[s]
        BY <1>3, <3>1, BagOps
      <3>6. new.discardPile[s] = IF s = out THEN current.discardPile[s] + 1
                                            ELSE current.discardPile[s]
        <4>1. out \in Shapes \cup {Empty}
          <5>1. <<Rows, col>> \in Squares
            BY SquareParts DEF Column
          <5> QED BY <3>1, <5>1 DEF PushedOut
        <4> HIDE DEF new, out
        <4>2. CASE out = Empty
          BY <1>3, <4>2, ShapesAssumption
        <4>3. CASE out \in Shapes
          <5>1. out # Empty
            BY <4>3, ShapesAssumption
          <5>2. new.discardPile = Add(current.discardPile, out)
            BY <1>3, <5>1
          <5>3. current.discardPile \in Bags /\ out \in Shapes
            BY <3>1, <4>3
          <5>4. Add(current.discardPile, out)[s] = IF s = out THEN current.discardPile[s] + 1
                                                         ELSE current.discardPile[s]
            BY <5>3 DEF Add, Bags
          <5> QED BY <5>2, <5>4
        <4> QED BY <4>1, <4>2, <4>3
      <3> HIDE DEF new, out
      <3> QED BY <1>2, <1>4, <3>2, <3>3, <3>4, <3>5, <3>6
    <2> QED BY <2>1 DEF TilesAreConserved
  <1>9. EndOfDeckIsNoticed'
    <2>1. new.gameOver => FALSE
      <3>1. current.deck[tile] # 0
        BY <1>1, <1>2
      <3> QED BY <1>2, <1>3, <3>1 DEF IInv, EndOfDeckIsNoticed, IsEmpty, TypeOK
    <2>2. current'.gameOver <=> IsEmpty(current'.deck)
      BY <1>4, <2>1
    <2>3. current'.gameOver => announced'
      BY <1>1
    <2> QED BY <2>2, <2>3 DEF EndOfDeckIsNoticed
  <1>10. SavedLagsByRefusals'
    BY <1>4, <1>5 DEF SavedLagsByRefusals
  <1> QED BY <1>7, <1>8, <1>9, <1>10 DEF IInv

\* A refused push takes a tile from the deck and puts it nowhere.
LEMMA RefusedInv ==
  ASSUME IInv, RefusedPush
  PROVE  IInv'
  <1>1. PICK tile \in Shapes :
          /\ current.deck[tile] > 0
          /\ current' = [current EXCEPT !.deck = Drawn(@, tile)]
          /\ lost' = Add(lost, tile)
    BY DEF RefusedPush
  <1>2. /\ current \in State /\ current # NoState /\ current.deck \in Bags /\ lost \in Bags
        /\ current.board \in [Squares -> Shapes \cup {Empty}] /\ current.discardPile \in Bags
    BY DEF RefusedPush, IInv, TypeOK, State
  <1>3. Sub(current.deck, tile) \in Bags /\ Add(lost, tile) \in Bags
    BY <1>1, <1>2, BagOps
  <1>4. /\ current' \in State /\ current'.deck = Sub(current.deck, tile)
        /\ current'.board = current.board /\ current'.discardPile = current.discardPile
        /\ current'.turn = current.turn /\ current'.gameOver = current.gameOver
    BY <1>1, <1>2, <1>3 DEF State, Drawn
  <1>5. /\ refused' = TRUE /\ announced' = announced
        /\ UNCHANGED <<saved, restarts, faults>>
    BY DEF RefusedPush
  <1>6. TypeOK'
    BY <1>1, <1>3, <1>4, <1>5 DEF IInv, TypeOK
  <1>7. TilesAreConserved'
    <2>1. ASSUME NEW s \in Shapes
          PROVE  current'.deck[s] + OnBoard(current'.board, s) + current'.discardPile[s]
                   + lost'[s] = CopiesPerType
      <3>1. /\ current.deck[s] \in Nat /\ current.discardPile[s] \in Nat /\ lost[s] \in Nat
            /\ OnBoard(current.board, s) \in Nat
        BY <1>2, CountType DEF Bags
      <3>2. current.deck[s] + OnBoard(current.board, s) + current.discardPile[s] + lost[s]
              = CopiesPerType
        BY <1>2 DEF IInv, TilesAreConserved
      <3>3. current'.deck[s] = IF s = tile THEN current.deck[s] - 1 ELSE current.deck[s]
        BY <1>2, <1>4, BagOps
      <3>4. lost'[s] = IF s = tile THEN lost[s] + 1 ELSE lost[s]
        BY <1>1, <1>2, BagOps
      <3> QED BY <1>4, <3>1, <3>2, <3>3, <3>4
    <2> QED BY <2>1 DEF TilesAreConserved
  <1>8. EndOfDeckIsNoticed'
    <2>1. ~current.gameOver
      <3>1. current.deck[tile] # 0
        BY <1>1, <1>2
      <3> QED BY <1>2, <3>1 DEF IInv, EndOfDeckIsNoticed, IsEmpty
    <2> QED BY <1>4, <1>5, <2>1 DEF EndOfDeckIsNoticed
  <1>9. SavedLagsByRefusals'
    BY <1>2, <1>4, <1>5 DEF IInv, SavedLagsByRefusals
  <1> QED BY <1>6, <1>7, <1>8, <1>9 DEF IInv

LEMMA EmptyDeckInv ==
  ASSUME IInv, PushOnEmptyDeck
  PROVE  IInv'
  <1>1. /\ current \in State /\ current # NoState /\ IsEmpty(current.deck)
        /\ current' = [current EXCEPT !.gameOver = TRUE]
        /\ UNCHANGED <<saved, lost, refused, announced, restarts, faults>>
    BY DEF PushOnEmptyDeck, history, IInv, TypeOK
  <1>2. /\ current' \in State /\ current'.deck = current.deck
        /\ current'.board = current.board /\ current'.discardPile = current.discardPile
        /\ current'.turn = current.turn
    BY <1>1 DEF State
  <1>3. TypeOK'
    BY <1>1, <1>2 DEF IInv, TypeOK
  <1>4. TilesAreConserved' /\ EndOfDeckIsNoticed' /\ SavedLagsByRefusals'
    BY <1>1, <1>2 DEF IInv, TilesAreConserved, EndOfDeckIsNoticed, SavedLagsByRefusals
  <1> QED BY <1>3, <1>4 DEF IInv

LEMMA ForceInv ==
  ASSUME IInv, ForceAction
  PROVE  IInv'
  <1>1. /\ current \in State /\ current # NoState /\ ~current.gameOver
        /\ current' = [current EXCEPT !.turn = NextSeat(@)]
        /\ UNCHANGED <<lost, refused, announced, restarts>>
    BY DEF ForceAction, history, IInv, TypeOK
  <1>2. NextSeat(current.turn) \in Seats
    BY <1>1, NextSeatType DEF State
  <1>3. /\ current' \in State /\ current'.deck = current.deck
        /\ current'.board = current.board /\ current'.discardPile = current.discardPile
        /\ current'.gameOver = current.gameOver
    BY <1>1, <1>2 DEF State
  <1>4. /\ saved' \in State \cup {NoState} /\ faults' \in 0 .. MaxFaults
        /\ faults' = 0 => saved' = current' /\ faults = 0
    BY <1>3, SaveEffect DEF ForceAction, IInv
  <1>5. TypeOK'
    BY <1>1, <1>3, <1>4 DEF IInv, TypeOK
  <1>6. TilesAreConserved' /\ EndOfDeckIsNoticed'
    BY <1>1, <1>3 DEF IInv, TilesAreConserved, EndOfDeckIsNoticed
  <1>7. SavedLagsByRefusals'
    BY <1>4 DEF SavedLagsByRefusals
  <1> QED BY <1>5, <1>6, <1>7 DEF IInv

LEMMA AskInv ==
  ASSUME IInv, CallerAsksIfOver
  PROVE  IInv'
  <1>1. /\ current \in State /\ current # NoState
        /\ current' = IsGameOver(current)
        /\ UNCHANGED <<saved, lost, refused, announced, restarts, faults>>
    BY DEF CallerAsksIfOver, history, IInv, TypeOK
  <1>2. /\ current' \in State /\ current'.deck = current.deck
        /\ current'.board = current.board /\ current'.discardPile = current.discardPile
        /\ current'.turn = current.turn
        /\ current'.gameOver <=> (current.gameOver \/ IsEmpty(current.deck))
    BY <1>1, OverFields
  <1>3. TypeOK'
    BY <1>1, <1>2 DEF IInv, TypeOK
  <1>4. TilesAreConserved'
    BY <1>1, <1>2 DEF IInv, TilesAreConserved
  <1>5. EndOfDeckIsNoticed'
    <2>1. IsEmpty(current.deck)' <=> IsEmpty(current.deck)
      BY <1>2 DEF IsEmpty
    <2> QED BY <1>1, <1>2, <2>1 DEF IInv, EndOfDeckIsNoticed
  <1>6. SavedLagsByRefusals'
    BY <1>1, <1>2 DEF IInv, SavedLagsByRefusals
  <1> QED BY <1>3, <1>4, <1>5, <1>6 DEF IInv

LEMMA NextInv == IInv /\ [Next]_vars => IInv'
  <1> SUFFICES ASSUME IInv, [Next]_vars PROVE IInv'
    OBVIOUS
  <1>1. CASE StartGame
    BY <1>1, StartInv
  <1>2. ASSUME NEW row \in Row, NEW col \in Column, TilePush(row, col) PROVE IInv'
    BY <1>2, PushInv
  <1>3. CASE RefusedPush
    BY <1>3, RefusedInv
  <1>4. CASE PushOnEmptyDeck
    BY <1>4, EmptyDeckInv
  <1>5. CASE ForceAction
    BY <1>5, ForceInv
  <1>6. CASE EndGame
    BY <1>6 DEF EndGame, IInv, TypeOK, TilesAreConserved, EndOfDeckIsNoticed,
                SavedLagsByRefusals
  <1>7. CASE Restart
    <2>1. restarts' \in 0 .. MaxRestarts
      BY <1>7, BoundsAssumption DEF Restart, IInv, TypeOK
    <2> QED BY <1>7, <2>1
       DEF Restart, history, IInv, TypeOK, TilesAreConserved, EndOfDeckIsNoticed,
           SavedLagsByRefusals
  <1>8. CASE UNCHANGED vars
    BY <1>8 DEF vars, history, IInv, TypeOK, TilesAreConserved, EndOfDeckIsNoticed,
                SavedLagsByRefusals
  <1>9. CASE CallerAsksIfOver
    BY <1>9, AskInv
  <1> QED BY <1>1, <1>2, <1>3, <1>4, <1>5, <1>6, <1>7, <1>8, <1>9 DEF Next

LEMMA Invariance == Spec => []IInv
  BY InitInv, NextInv, PTL DEF Spec

\* What ends a game keeps it as it is: pushes need a tile, timeouts a game.
LEMMA FinalStepHolds == IInv /\ [Next]_vars => FinalStep
  <1> SUFFICES ASSUME IInv, [Next]_vars, current # NoState, current' # NoState,
                      current.gameOver
               PROVE  /\ current'.board = current.board
                      /\ current'.discardPile = current.discardPile
                      /\ current'.turn = current.turn
    BY DEF FinalStep
  <1>1. \A s \in Shapes : current.deck[s] = 0
    BY DEF IInv, EndOfDeckIsNoticed, IsEmpty
  <1>2. current \in State
    BY DEF IInv, TypeOK
  <1>3. ~ \E row \in Row, col \in Column : TilePush(row, col)
    BY <1>1 DEF TilePush
  <1>4. ~RefusedPush /\ ~ForceAction /\ ~StartGame /\ ~Restart
    BY <1>1 DEF RefusedPush, ForceAction, StartGame, Restart
  <1>5. CASE PushOnEmptyDeck
    BY <1>2, <1>5 DEF PushOnEmptyDeck, State
  <1>6. CASE EndGame \/ UNCHANGED vars
    BY <1>6 DEF EndGame, vars
  <1>7. CASE CallerAsksIfOver
    BY <1>2, <1>7, OverFields DEF CallerAsksIfOver
  <1> QED BY <1>3, <1>4, <1>5, <1>6, <1>7 DEF Next

-----------------------------------------------------------------------------
\* The state and its saved copy are of their types.
THEOREM TypeCorrect == Spec => []TypeOK
  <1>1. IInv => TypeOK
    BY DEF IInv
  <1> QED BY <1>1, Invariance, PTL

\* Every tile is in the deck, on the board, in the pile, or was drawn by a
\* refused request; the shift of a column neither doubles nor drops one.
THEOREM TilesConserved == Spec => []TilesAreConserved
  <1>1. IInv => TilesAreConserved
    BY DEF IInv
  <1> QED BY <1>1, Invariance, PTL

\* A deck that is used up is a game that is over and announced, but for the
\* last tile of a refused request and for tiles that all fit in the first row.
THEOREM EndOfDeckNoticed == Spec => []EndOfDeckIsNoticed
  <1>1. IInv => EndOfDeckIsNoticed
    BY DEF IInv
  <1> QED BY <1>1, Invariance, PTL

\* Without failed saves the saved state lacks what refused requests did only.
THEOREM SavedLags == Spec => []SavedLagsByRefusals
  <1>1. IInv => SavedLagsByRefusals
    BY DEF IInv
  <1> QED BY <1>1, Invariance, PTL

\* A finished game's board, pile and turn stay.
THEOREM FinalBoard == Spec => FinalBoardStays
  <1>1. IInv /\ [Next]_vars => [FinalStep]_vars
    BY FinalStepHolds
  <1>2. Spec => [][FinalStep]_vars
    BY <1>1, Invariance, PTL DEF Spec
  <1> QED BY <1>2 DEF FinalBoardStays, FinalStep

=============================================================================
