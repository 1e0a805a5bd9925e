----------------------- MODULE MCHandGestureProcessor -----------------------
(***************************************************************************)
(* Model checking of HandGestureProcessor with the history of the frames   *)
(* it was shown, so that what it reports can be compared with what it saw. *)
(***************************************************************************)
EXTENDS HandGestureProcessor, Sequences, SequencesExt

\* The last Trigger inputs, newest last; "reset" stands for a call of reset().
VARIABLE seen

Remember(input) ==
    LET all == Append(seen, input)
    IN  seen' = IF Len(all) <= Trigger THEN all ELSE Tail(all)

MCInit == Init /\ seen = <<>>

MCNext ==
    \/ Reset /\ Remember("reset")
    \/ \E shape \in Shapes : ProcessPoints(shape) /\ Remember(shape)

MCSpec == MCInit /\ [][MCNext]_<<vars, seen>>

LastAll(shape) == Len(seen) = Trigger /\ ToSet(seen) = {shape}

\* The processor reports a confirmed palm exactly when the last Trigger frames
\* all showed that palm with no reset between them: neither early, nor late, nor
\* after an interruption (processPoints and reset together).
ConfirmedIffSeen ==
    /\ state = "openPalm" <=> LastAll("open")
    /\ state = "sidePalm" <=> LastAll("side")
    /\ state = "possibleOpenPalm" =>
           seen # <<>> /\ Last(seen) = "open" /\ ~LastAll("open")
=============================================================================
