---------------------------- MODULE SpiderProofs ----------------------------
(* The safety properties of Spider, for all values of its constants.        *)
EXTENDS Spider, FiniteSetTheorems, TLAPS

USE SpiderAssumption

\* The documents on their way can be counted.
LEMMA SendingFinite ==
  IsFiniteSet(Sending) /\ Cardinality(Sending) \in Nat
  BY FS_Subset, FS_CardinalityType DEF Sending

\* A request to colly marks the URL and can only wake its own, idle fetch.
LEMMA RequestEffect ==
  ASSUME TypeOK, Places, NEW u \in Urls, NEW c \in Contexts, CollyRequest(u, c)
  PROVE  /\ seen' = seen \cup {u}
         /\ fetch' \in [Urls -> FetchPoints \cup {"idle", "done"}]
         /\ reqCtx' \in [Urls -> Contexts]
         /\ \A w \in Urls : \/ fetch'[w] = fetch[w] /\ reqCtx'[w] = reqCtx[w]
                            \/ w = u /\ fetch[w] = "idle" /\ fetch'[w] = "ctx"
  <1> USE DEF TypeOK, FetchPoints
  <1>1. CASE u \in seen
    BY <1>1 DEF CollyRequest, collyVars
  <1>2. CASE u \notin seen
    <2>1. seen' = seen \cup {u} /\ fetch[u] = "idle"
      BY <1>2 DEF CollyRequest, Places
    <2>2. \/ UNCHANGED <<fetch, reqCtx>>
          \/ /\ fetch' = [fetch EXCEPT ![u] = "ctx"]
             /\ reqCtx' = [reqCtx EXCEPT ![u] = c]
      BY <1>2 DEF CollyRequest
    <2> QED
      BY <2>1, <2>2
  <1> QED
    BY <1>1, <1>2

\* The contexts of the requests of runPhases have a depth of at most MaxDepth.
LEMMA PhaseContextType == PhaseContext \in Contexts
  <1>1. 0 \in 0 .. MaxDepth
    OBVIOUS
  <1>2. RecrawlCtx \in Contexts /\ DepthCtx(0) \in Contexts
    BY <1>1 DEF RecrawlCtx, DepthCtx, Contexts
  <1> QED
    BY <1>2 DEF PhaseContext

\* So have those of the links: processLinks has tested the depth before.
LEMMA LinkContextType ==
  ASSUME TypeOK, Handed, NEW u \in Urls, toRequest[u] # {}
  PROVE  DepthCtx(reqCtx[u].depth + 1) \in Contexts
  <1>1. reqCtx[u].depth \in 0 .. MaxDepth /\ reqCtx[u].depth < MaxDepth
    BY DEF TypeOK, Handed, FollowsLinks, Contexts
  <1>2. reqCtx[u].depth + 1 \in 0 .. MaxDepth
    BY <1>1
  <1> QED
    BY <1>2 DEF DepthCtx, Contexts

\* Every step keeps the types: in particular the depth of a request never
\* passes MaxDepth and the WaitGroup is never decremented below zero.
LEMMA TypeStep == IInv /\ [Next]_vars => TypeOK'
  <1> SUFFICES ASSUME IInv, [Next]_vars PROVE TypeOK'
    OBVIOUS
  <1> USE DEF IInv, TypeOK
  <1>1. CASE User \/ MainStep
    <2> USE DEF Unmoved, phaseVars, collyVars, linkVars, queueVars, writerVars
    <2>1. CASE Pause
      BY <2>1 DEF Pause
    <2>2. CASE Resume
      BY <2>2 DEF Resume
    <2>3. CASE Stop
      BY <2>3 DEF Stop
    <2>4. CASE Enter
      BY <2>4 DEF Enter
    <2>5. CASE Exit
      BY <2>5 DEF Exit
    <2>6. CASE CloseChan
      BY <2>6 DEF CloseChan
    <2>7. CASE Report
      BY <2>7 DEF Report
    <2> QED
      BY <1>1, <2>1, <2>2, <2>3, <2>4, <2>5, <2>6, <2>7 DEF User, MainStep
  <1>2. CASE PhaseStep
    <2> USE DEF PhaseGoes, mainVars, collyVars, linkVars, queueVars, writerVars
    <2>1. CASE PhaseWait
      BY <2>1 DEF PhaseWait
    <2>2. CASE PhaseCheck
      BY <2>2 DEF PhaseCheck
    <2>3. CASE PhaseQuery
      BY <2>3 DEF PhaseQuery, StaleBatches
    <2>4. CASE PhaseRequest
      BY <2>4, PhaseContextType, RequestEffect DEF PhaseRequest
    <2>5. CASE PhaseGiveUp
      BY <2>5 DEF PhaseGiveUp
    <2>6. CASE PhaseLoopEnds
      BY <2>6 DEF PhaseLoopEnds
    <2>7. CASE PhaseCollected
      BY <2>7 DEF PhaseCollected
    <2>8. CASE PhaseBatchWritten
      BY <2>8 DEF PhaseBatchWritten
    <2>9. CASE PhaseClose
      BY <2>9 DEF PhaseClose
    <2> QED
      BY <1>2, <2>1, <2>2, <2>3, <2>4, <2>5, <2>6, <2>7, <2>8, <2>9 DEF PhaseStep
  <1>3. CASE WriterStep
    <2> USE DEF WriterGoes, mainVars, phaseVars, collyVars, linkVars, queueVars
    <2>1. CASE Receive
      BY <2>1 DEF Receive
    <2>2. CASE WriterExit
      BY <2>2 DEF WriterExit
    <2>3. CASE WriterWait
      BY <2>3 DEF WriterWait
    <2>4. CASE Saved
      BY <2>4 DEF Saved, Places
    <2>5. CASE SaveFailed
      BY <2>5 DEF SaveFailed, Places
    <2>6. CASE BatchDone
      BY <2>6, SendingFinite DEF BatchDone, BatchAccounting
    <2> QED
      BY <1>3, <2>1, <2>2, <2>3, <2>4, <2>5, <2>6 DEF WriterStep
  <1>4. CASE Age
    BY <1>4 DEF Age, mainVars, phaseVars, collyVars, linkVars, queueVars
  <1>5. ASSUME NEW u \in Urls, FetchStep(u) PROVE TypeOK'
    <2> USE DEF FetchGoes, FetchPoints, mainVars, phaseVars, collyVars, linkVars,
            queueVars, writerVars
    <2>1. CASE OnRequestCtx(u) \/ OnRequestPause(u)
      BY <2>1 DEF OnRequestCtx, OnRequestPause
    <2>7. CASE OnRequestCap(u) \/ OnError(u)
      BY <2>7 DEF OnRequestCap, OnError
    <2>2. CASE OnHTMLDocument(u)
      BY <2>2 DEF OnHTMLDocument
    <2>3. AfterDocument(u) \in {"links", "done"} /\ LinksOf(u) \subseteq Urls
      BY DEF AfterDocument, LinksOf
    <2>4. CASE OnHTMLOther(u)
      BY <2>3, <2>4 DEF OnHTMLOther
    <2>9. CASE LinksDone(u)
      BY <2>9 DEF LinksDone
    <2>5. CASE Send(u)
      BY <2>3, <2>5 DEF Send
    <2>6. ASSUME NEW v \in Urls, FollowLink(u, v) PROVE TypeOK'
      BY <2>6 DEF FollowLink
    <2>8. ASSUME NEW v \in Urls, RequestLink(u, v) PROVE TypeOK'
      BY <2>8, LinkContextType, RequestEffect DEF RequestLink
    <2> QED
      BY <1>5, <2>1, <2>2, <2>4, <2>5, <2>6, <2>7, <2>8, <2>9 DEF FetchStep
  <1>6. CASE UNCHANGED vars
    BY <1>6 DEF vars, mainVars, phaseVars, collyVars, linkVars, queueVars, writerVars
  <1> QED
    BY <1>1, <1>2, <1>3, <1>4, <1>5, <1>6 DEF Next

\* What a step of a fetch goroutine leaves alone.
LEMMA FetchFrame ==
  ASSUME Handed, NEW u \in Urls, FetchStep(u)
  PROVE  /\ u \in Active /\ Running
         /\ UNCHANGED <<main, paused, stopped, pauseMark, phase, todo, doneChan,
                        chanClosed, writer, cur, pageCount, stale>>
  <1> USE DEF FetchGoes, FetchPoints, Active, mainVars, phaseVars, writerVars
  <1>1. CASE OnRequestCtx(u) \/ OnRequestPause(u) \/ OnRequestCap(u) \/ OnError(u)
    BY <1>1, FetchStep(u) DEF FetchStep, OnRequestCtx, OnRequestPause, OnRequestCap, OnError
  <1>2. CASE OnHTMLDocument(u) \/ OnHTMLOther(u) \/ Send(u) \/ LinksDone(u)
    BY <1>2, FetchStep(u) DEF FetchStep, OnHTMLDocument, OnHTMLOther, Send, LinksDone
  <1>3. ASSUME NEW v \in Urls, FollowLink(u, v) \/ RequestLink(u, v)
        PROVE  /\ u \in Active /\ Running
               /\ UNCHANGED <<main, paused, stopped, pauseMark, phase, todo, doneChan,
                              chanClosed, writer, cur, pageCount, stale>>
    BY <1>3, FetchStep(u) DEF FetchStep, FollowLink, RequestLink, Handed
  <1> QED
    BY <1>1, <1>2, <1>3 DEF FetchStep

\* Every step keeps the actors synchronised.
LEMMA ControlStep == IInv /\ [Next]_vars => Control'
  <1> SUFFICES ASSUME IInv, [Next]_vars PROVE Control'
    OBVIOUS
  <1> USE DEF IInv, Control, Active, TypeOK, Running
  <1>1. CASE User \/ MainStep
    <2> USE DEF Unmoved, phaseVars, collyVars, linkVars, queueVars, writerVars
    <2>1. CASE Pause
      BY <2>1 DEF Pause
    <2>2. CASE Resume
      BY <2>2 DEF Resume
    <2>3. CASE Stop
      BY <2>3 DEF Stop
    <2>4. CASE Enter
      BY <2>4 DEF Enter
    <2>5. CASE Exit
      BY <2>5 DEF Exit
    <2>6. CASE CloseChan
      BY <2>6 DEF CloseChan
    <2>7. CASE Report
      BY <2>7 DEF Report
    <2> QED
      BY <1>1, <2>1, <2>2, <2>3, <2>4, <2>5, <2>6, <2>7 DEF User, MainStep
  <1>2. CASE PhaseStep
    <2> USE DEF PhaseGoes, mainVars, collyVars, linkVars, queueVars, writerVars
    <2>1. CASE PhaseWait
      BY <2>1 DEF PhaseWait
    <2>2. CASE PhaseCheck
      BY <2>2 DEF PhaseCheck
    <2>3. CASE PhaseQuery
      BY <2>3 DEF PhaseQuery
    <2>4. CASE PhaseRequest
      BY <2>4 DEF PhaseRequest
    <2>5. CASE PhaseGiveUp
      BY <2>5 DEF PhaseGiveUp
    <2>6. CASE PhaseLoopEnds
      BY <2>6 DEF PhaseLoopEnds
    <2>7. CASE PhaseCollected
      BY <2>7 DEF PhaseCollected, CollyIdle
    <2>8. CASE PhaseBatchWritten
      BY <2>8 DEF PhaseBatchWritten
    <2>9. CASE PhaseClose
      BY <2>9 DEF PhaseClose
    <2> QED
      BY <1>2, <2>1, <2>2, <2>3, <2>4, <2>5, <2>6, <2>7, <2>8, <2>9 DEF PhaseStep
  <1>3. CASE WriterStep
    <2> USE DEF WriterGoes, mainVars, phaseVars, collyVars, linkVars, queueVars
    <2>1. CASE Receive
      BY <2>1 DEF Receive
    <2>2. CASE WriterExit
      BY <2>2 DEF WriterExit
    <2>3. CASE WriterWait
      BY <2>3 DEF WriterWait
    <2>4. CASE Saved
      BY <2>4 DEF Saved
    <2>5. CASE SaveFailed
      BY <2>5 DEF SaveFailed
    <2>6. CASE BatchDone
      <3>1. batchWG # 0
        BY <2>6, SendingFinite DEF BatchAccounting, BatchDone
      <3> QED
        BY <2>6, <3>1 DEF BatchDone
    <2> QED
      BY <1>3, <2>1, <2>2, <2>3, <2>4, <2>5, <2>6 DEF WriterStep
  <1>4. CASE Age
    BY <1>4 DEF Age, mainVars, phaseVars, collyVars, linkVars, queueVars
  <1>5. ASSUME NEW u \in Urls, FetchStep(u) PROVE Control'
    <2>1. Active # {}
      BY <1>5, FetchFrame
    <2> QED
      BY <1>5, <2>1, FetchFrame
  <1>6. CASE UNCHANGED vars
    BY <1>6 DEF vars, mainVars, phaseVars, collyVars, linkVars, queueVars,
       writerVars
  <1> QED
    BY <1>1, <1>2, <1>3, <1>4, <1>5, <1>6 DEF Next

\* Every step keeps the WaitGroup equal to the documents on their way.
LEMMA BatchStep == IInv /\ [Next]_vars => BatchAccounting'
  <1> SUFFICES ASSUME IInv, [Next]_vars PROVE BatchAccounting'
    OBVIOUS
  <1> USE DEF IInv, BatchAccounting
  <1>1. CASE User \/ MainStep
    <2>1. UNCHANGED <<fetch, saveChan, batchWG, writer>>
      BY <1>1 DEF User, MainStep, Pause, Resume, Stop, Enter, Exit, CloseChan, Report,
           Unmoved, collyVars, queueVars, writerVars
    <2> QED
      BY <2>1 DEF Sending
  <1>2. CASE PhaseStep
    <2> USE DEF PhaseGoes, mainVars, collyVars, linkVars, queueVars, writerVars
    <2>1. CASE PhaseWait
      <3>1. Sending' = Sending
        BY <2>1 DEF PhaseWait, Sending
      <3> QED
        BY <2>1, <3>1 DEF PhaseWait
    <2>2. CASE PhaseCheck
      <3>1. Sending' = Sending
        BY <2>2 DEF PhaseCheck, Sending
      <3> QED
        BY <2>2, <3>1 DEF PhaseCheck
    <2>3. CASE PhaseQuery
      <3>1. Sending' = Sending
        BY <2>3 DEF PhaseQuery, Sending
      <3> QED
        BY <2>3, <3>1 DEF PhaseQuery
    <2>4. CASE PhaseRequest
      <3>1. Sending' = Sending
        BY <2>4, PhaseContextType, RequestEffect DEF PhaseRequest, Sending, TypeOK
      <3> QED
        BY <2>4, <3>1 DEF PhaseRequest
    <2>5. CASE PhaseGiveUp
      <3>1. Sending' = Sending
        BY <2>5 DEF PhaseGiveUp, Sending
      <3> QED
        BY <2>5, <3>1 DEF PhaseGiveUp
    <2>6. CASE PhaseLoopEnds
      <3>1. Sending' = Sending
        BY <2>6 DEF PhaseLoopEnds, Sending
      <3> QED
        BY <2>6, <3>1 DEF PhaseLoopEnds
    <2>7. CASE PhaseCollected
      <3>1. Sending' = Sending
        BY <2>7 DEF PhaseCollected, Sending
      <3> QED
        BY <2>7, <3>1 DEF PhaseCollected
    <2>8. CASE PhaseBatchWritten
      <3>1. Sending' = Sending
        BY <2>8 DEF PhaseBatchWritten, Sending
      <3> QED
        BY <2>8, <3>1 DEF PhaseBatchWritten
    <2>9. CASE PhaseClose
      <3>1. Sending' = Sending
        BY <2>9 DEF PhaseClose, Sending
      <3> QED
        BY <2>9, <3>1 DEF PhaseClose
    <2> QED
      BY <1>2, <2>1, <2>2, <2>3, <2>4, <2>5, <2>6, <2>7, <2>8, <2>9 DEF PhaseStep
  <1>3. CASE WriterStep
    <2> USE DEF WriterGoes, mainVars, phaseVars, collyVars, linkVars, queueVars
    <2>1. CASE Receive
      <3>1. Sending' = Sending
        BY <2>1 DEF Receive, Sending
      <3>2. Len(saveChan') = Len(saveChan) - 1 /\ Len(saveChan) \in Nat
        BY <2>1 DEF Receive, TypeOK
      <3> QED
        BY <2>1, <3>1, <3>2, SendingFinite DEF Receive, TypeOK
    <2>2. CASE WriterExit
      <3>1. Sending' = Sending
        BY <2>2 DEF WriterExit, Sending
      <3> QED
        BY <2>2, <3>1, SendingFinite DEF WriterExit, TypeOK
    <2>3. CASE WriterWait
      <3>1. Sending' = Sending
        BY <2>3 DEF WriterWait, Sending
      <3> QED
        BY <2>3, <3>1, SendingFinite DEF WriterWait, TypeOK
    <2>4. CASE Saved
      <3>1. Sending' = Sending
        BY <2>4 DEF Saved, Sending
      <3> QED
        BY <2>4, <3>1, SendingFinite DEF Saved, TypeOK
    <2>5. CASE SaveFailed
      <3>1. Sending' = Sending
        BY <2>5 DEF SaveFailed, Sending
      <3> QED
        BY <2>5, <3>1, SendingFinite DEF SaveFailed, TypeOK
    <2>6. CASE BatchDone
      <3>1. Sending' = Sending
        BY <2>6 DEF BatchDone, Sending
      <3> QED
        BY <2>6, <3>1, SendingFinite DEF BatchDone, TypeOK
    <2> QED
      BY <1>3, <2>1, <2>2, <2>3, <2>4, <2>5, <2>6 DEF WriterStep
  <1>4. CASE Age
    <2>1. Sending' = Sending
      BY <1>4 DEF Age, Sending, collyVars
    <2> QED
      BY <1>4, <2>1 DEF Age, collyVars, queueVars
  <1>5. ASSUME NEW u \in Urls, FetchStep(u) PROVE BatchAccounting'
    <2> USE DEF FetchGoes, mainVars, phaseVars, collyVars, linkVars,
            queueVars, writerVars
    <2>1. CASE OnRequestCtx(u)
      <3>1. Sending' = Sending
        BY <2>1 DEF OnRequestCtx, Sending, TypeOK
      <3> QED
        BY <2>1, <3>1 DEF OnRequestCtx
    <2>2. CASE OnRequestPause(u)
      <3>1. Sending' = Sending
        BY <2>2 DEF OnRequestPause, Sending, TypeOK
      <3> QED
        BY <2>2, <3>1 DEF OnRequestPause
    <2>3. CASE OnRequestCap(u)
      <3>1. Sending' = Sending
        BY <2>3 DEF OnRequestCap, Sending, TypeOK
      <3> QED
        BY <2>3, <3>1 DEF OnRequestCap
    <2>4. CASE OnError(u)
      <3>1. Sending' = Sending
        BY <2>4 DEF OnError, Sending, TypeOK
      <3> QED
        BY <2>4, <3>1 DEF OnError
    <2>5. CASE OnHTMLDocument(u)
      <3>1. u \notin Sending /\ Sending' = Sending \cup {u}
        BY <2>5 DEF OnHTMLDocument, Sending, TypeOK
      <3>2. Cardinality(Sending') = Cardinality(Sending) + 1
        BY <3>1, SendingFinite, FS_AddElement
      <3> QED
        BY <2>5, <3>2, SendingFinite DEF OnHTMLDocument, TypeOK
    <2>6. CASE OnHTMLOther(u)
      <3>1. Sending' = Sending
        BY <2>6 DEF OnHTMLOther, Sending, TypeOK, AfterDocument
      <3> QED
        BY <2>6, <3>1 DEF OnHTMLOther
    <2>7. CASE Send(u)
      <3>1. u \in Sending /\ Sending' = Sending \ {u}
        BY <2>7 DEF Send, Sending, TypeOK, AfterDocument
      <3>2. Cardinality(Sending') = Cardinality(Sending) - 1
        BY <3>1, SendingFinite, FS_RemoveElement
      <3>3. Len(saveChan') = Len(saveChan) + 1 /\ Len(saveChan) \in Nat
        BY <2>7 DEF Send, TypeOK
      <3> QED
        BY <2>7, <3>2, <3>3, SendingFinite DEF Send, TypeOK
    <2>8. CASE LinksDone(u)
      <3>1. Sending' = Sending
        BY <2>8 DEF LinksDone, Sending, TypeOK
      <3> QED
        BY <2>8, <3>1 DEF LinksDone
    <2>9. ASSUME NEW v \in Urls, FollowLink(u, v) PROVE BatchAccounting'
      <3>1. Sending' = Sending
        BY <2>9 DEF FollowLink, Sending
      <3> QED
        BY <2>9, <3>1 DEF FollowLink
    <2>10. ASSUME NEW v \in Urls, RequestLink(u, v) PROVE BatchAccounting'
      <3>1. Sending' = Sending
        BY <2>10, LinkContextType, RequestEffect DEF RequestLink, Sending, TypeOK
      <3> QED
        BY <2>10, <3>1 DEF RequestLink
    <2> QED
      BY <1>5, <2>1, <2>2, <2>3, <2>4, <2>5, <2>6, <2>7, <2>8, <2>9, <2>10
         DEF FetchStep
  <1>6. CASE UNCHANGED vars
    <2>1. Sending' = Sending
      BY <1>6 DEF vars, collyVars, Sending
    <2> QED
      BY <1>6, <2>1 DEF vars, queueVars, writerVars
  <1> QED
    BY <1>1, <1>2, <1>3, <1>4, <1>5, <1>6 DEF Next

SavedPages == {u \in Urls : outcome[u] = "saved"}

\* The document in the writer's hand is still to be written.
LEMMA InHandQueued ==
  ASSUME Places, writer \in {"pause", "save"}
  PROVE  cur \in Urls /\ outcome[cur] = "queued"
  BY DEF Places, NoDocumentLost, Unwritten, InHand

\* Every step keeps the counters of the report exact.
LEMMA CountedStep == IInv /\ [Next]_vars => Counted'
  <1> SUFFICES ASSUME IInv, [Next]_vars PROVE Counted'
    OBVIOUS
  <1> USE DEF IInv, Counted
  <1>1. CASE User \/ MainStep
    <2>1. UNCHANGED <<outcome, pageCount>>
      BY <1>1 DEF User, MainStep, Pause, Resume, Stop, Enter, Exit, CloseChan, Report,
           Unmoved, writerVars
    <2> QED
      BY <2>1
  <1>2. CASE PhaseStep
    <2> USE DEF PhaseGoes, mainVars, collyVars, linkVars, queueVars, writerVars
    <2>1. CASE PhaseWait
      <3>1. SavedPages' = SavedPages
        BY <2>1 DEF PhaseWait, SavedPages
      <3> QED
        BY <2>1, <3>1 DEF PhaseWait, SavedPages
    <2>2. CASE PhaseCheck
      <3>1. SavedPages' = SavedPages
        BY <2>2 DEF PhaseCheck, SavedPages
      <3> QED
        BY <2>2, <3>1 DEF PhaseCheck, SavedPages
    <2>3. CASE PhaseQuery
      <3>1. SavedPages' = SavedPages
        BY <2>3 DEF PhaseQuery, SavedPages
      <3> QED
        BY <2>3, <3>1 DEF PhaseQuery, SavedPages
    <2>4. CASE PhaseRequest
      <3>1. SavedPages' = SavedPages
        BY <2>4 DEF PhaseRequest, SavedPages
      <3> QED
        BY <2>4, <3>1 DEF PhaseRequest, SavedPages
    <2>5. CASE PhaseGiveUp
      <3>1. SavedPages' = SavedPages
        BY <2>5 DEF PhaseGiveUp, SavedPages
      <3> QED
        BY <2>5, <3>1 DEF PhaseGiveUp, SavedPages
    <2>6. CASE PhaseLoopEnds
      <3>1. SavedPages' = SavedPages
        BY <2>6 DEF PhaseLoopEnds, SavedPages
      <3> QED
        BY <2>6, <3>1 DEF PhaseLoopEnds, SavedPages
    <2>7. CASE PhaseCollected
      <3>1. SavedPages' = SavedPages
        BY <2>7 DEF PhaseCollected, SavedPages
      <3> QED
        BY <2>7, <3>1 DEF PhaseCollected, SavedPages
    <2>8. CASE PhaseBatchWritten
      <3>1. SavedPages' = SavedPages
        BY <2>8 DEF PhaseBatchWritten, SavedPages
      <3> QED
        BY <2>8, <3>1 DEF PhaseBatchWritten, SavedPages
    <2>9. CASE PhaseClose
      <3>1. SavedPages' = SavedPages
        BY <2>9 DEF PhaseClose, SavedPages
      <3> QED
        BY <2>9, <3>1 DEF PhaseClose, SavedPages
    <2> QED
      BY <1>2, <2>1, <2>2, <2>3, <2>4, <2>5, <2>6, <2>7, <2>8, <2>9 DEF PhaseStep
  <1>3. CASE WriterStep
    <2> USE DEF WriterGoes, mainVars, phaseVars, collyVars, linkVars, queueVars
    <2>1. CASE Receive
      <3>1. SavedPages' = SavedPages
        BY <2>1 DEF Receive, SavedPages
      <3> QED
        BY <2>1, <3>1 DEF Receive, SavedPages
    <2>2. CASE WriterExit
      <3>1. SavedPages' = SavedPages
        BY <2>2 DEF WriterExit, SavedPages
      <3> QED
        BY <2>2, <3>1 DEF WriterExit, SavedPages
    <2>3. CASE WriterWait
      <3>1. SavedPages' = SavedPages
        BY <2>3 DEF WriterWait, SavedPages
      <3> QED
        BY <2>3, <3>1 DEF WriterWait, SavedPages
    <2>4. CASE Saved
      <3>1. cur \in Urls /\ outcome[cur] = "queued"
        BY <2>4, InHandQueued DEF Saved
      <3>2. cur \notin SavedPages /\ SavedPages' = SavedPages \cup {cur}
        BY <2>4, <3>1 DEF Saved, SavedPages, TypeOK
      <3>3. IsFiniteSet(SavedPages)
        BY FS_Subset DEF SavedPages
      <3>4. Cardinality(SavedPages') = Cardinality(SavedPages) + 1
        BY <3>2, <3>3, FS_AddElement
      <3> QED
        BY <2>4, <3>4 DEF Saved, SavedPages
    <2>5. CASE SaveFailed
      <3>1. cur \in Urls /\ outcome[cur] = "queued"
        BY <2>5, InHandQueued DEF SaveFailed
      <3>2. SavedPages' = SavedPages
        BY <2>5, <3>1 DEF SaveFailed, SavedPages, TypeOK
      <3> QED
        BY <2>5, <3>2 DEF SaveFailed, SavedPages
    <2>6. CASE BatchDone
      <3>1. SavedPages' = SavedPages
        BY <2>6 DEF BatchDone, SavedPages
      <3> QED
        BY <2>6, <3>1 DEF BatchDone, SavedPages
    <2> QED
      BY <1>3, <2>1, <2>2, <2>3, <2>4, <2>5, <2>6 DEF WriterStep
  <1>4. CASE Age
    BY <1>4 DEF Age, mainVars, phaseVars, collyVars, linkVars, queueVars
  <1>5. ASSUME NEW u \in Urls, FetchStep(u) PROVE Counted'
    <2> USE DEF FetchGoes, mainVars, phaseVars, collyVars, linkVars,
            queueVars, writerVars
    <2>1. CASE OnRequestCtx(u)
      <3>1. SavedPages' = SavedPages
        BY <2>1 DEF OnRequestCtx, SavedPages
      <3> QED
        BY <2>1, <3>1 DEF OnRequestCtx, SavedPages
    <2>2. CASE OnRequestPause(u)
      <3>1. SavedPages' = SavedPages
        BY <2>2 DEF OnRequestPause, SavedPages
      <3> QED
        BY <2>2, <3>1 DEF OnRequestPause, SavedPages
    <2>3. CASE OnRequestCap(u)
      <3>1. SavedPages' = SavedPages
        BY <2>3 DEF OnRequestCap, SavedPages
      <3> QED
        BY <2>3, <3>1 DEF OnRequestCap, SavedPages
    <2>4. CASE OnError(u)
      <3>1. SavedPages' = SavedPages
        BY <2>4 DEF OnError, SavedPages
      <3> QED
        BY <2>4, <3>1 DEF OnError, SavedPages
    <2>5. CASE OnHTMLDocument(u)
      <3>1. SavedPages' = SavedPages
        BY <2>5 DEF OnHTMLDocument, SavedPages, TypeOK, Places
      <3> QED
        BY <2>5, <3>1 DEF OnHTMLDocument, SavedPages
    <2>6. CASE OnHTMLOther(u)
      <3>1. SavedPages' = SavedPages
        BY <2>6 DEF OnHTMLOther, SavedPages
      <3> QED
        BY <2>6, <3>1 DEF OnHTMLOther, SavedPages
    <2>7. CASE Send(u)
      <3>1. SavedPages' = SavedPages
        BY <2>7 DEF Send, SavedPages
      <3> QED
        BY <2>7, <3>1 DEF Send, SavedPages
    <2>8. CASE LinksDone(u)
      <3>1. SavedPages' = SavedPages
        BY <2>8 DEF LinksDone, SavedPages
      <3> QED
        BY <2>8, <3>1 DEF LinksDone, SavedPages
    <2>9. ASSUME NEW v \in Urls, FollowLink(u, v) PROVE Counted'
      <3>1. SavedPages' = SavedPages
        BY <2>9 DEF FollowLink, SavedPages
      <3> QED
        BY <2>9, <3>1 DEF FollowLink, SavedPages
    <2>10. ASSUME NEW v \in Urls, RequestLink(u, v) PROVE Counted'
      <3>1. SavedPages' = SavedPages
        BY <2>10 DEF RequestLink, SavedPages
      <3> QED
        BY <2>10, <3>1 DEF RequestLink, SavedPages
    <2> QED
      BY <1>5, <2>1, <2>2, <2>3, <2>4, <2>5, <2>6, <2>7, <2>8, <2>9, <2>10
         DEF FetchStep
  <1>6. CASE UNCHANGED vars
    BY <1>6 DEF vars, mainVars, phaseVars, collyVars, linkVars, queueVars,
       writerVars
  <1> QED
    BY <1>1, <1>2, <1>3, <1>4, <1>5, <1>6 DEF Next

\* Every step keeps the writer within the document it held at the pause.
LEMMA PauseStep == IInv /\ [Next]_vars => PauseWindow'
  <1> SUFFICES ASSUME IInv, [Next]_vars PROVE PauseWindow'
    OBVIOUS
  <1> USE DEF IInv, PauseWindow, TypeOK
  <1>1. CASE User \/ MainStep
    <2> USE DEF Unmoved, phaseVars, collyVars, linkVars, queueVars, writerVars
    <2>1. CASE Pause
      BY <2>1 DEF Pause
    <2>2. CASE Resume
      BY <2>2 DEF Resume
    <2>3. CASE Stop
      BY <2>3 DEF Stop
    <2>4. CASE Enter
      BY <2>4 DEF Enter
    <2>5. CASE Exit
      BY <2>5 DEF Exit
    <2>6. CASE CloseChan
      BY <2>6 DEF CloseChan
    <2>7. CASE Report
      BY <2>7 DEF Report
    <2> QED
      BY <1>1, <2>1, <2>2, <2>3, <2>4, <2>5, <2>6, <2>7 DEF User, MainStep
  <1>2. CASE PhaseStep
    <2> USE DEF PhaseGoes, mainVars, collyVars, linkVars, queueVars, writerVars
    <2>1. CASE PhaseWait
      BY <2>1 DEF PhaseWait
    <2>2. CASE PhaseCheck
      BY <2>2 DEF PhaseCheck
    <2>3. CASE PhaseQuery
      BY <2>3 DEF PhaseQuery
    <2>4. CASE PhaseRequest
      BY <2>4 DEF PhaseRequest
    <2>5. CASE PhaseGiveUp
      BY <2>5 DEF PhaseGiveUp
    <2>6. CASE PhaseLoopEnds
      BY <2>6 DEF PhaseLoopEnds
    <2>7. CASE PhaseCollected
      BY <2>7 DEF PhaseCollected
    <2>8. CASE PhaseBatchWritten
      BY <2>8 DEF PhaseBatchWritten
    <2>9. CASE PhaseClose
      BY <2>9 DEF PhaseClose
    <2> QED
      BY <1>2, <2>1, <2>2, <2>3, <2>4, <2>5, <2>6, <2>7, <2>8, <2>9 DEF PhaseStep
  <1>3. CASE WriterStep
    <2> USE DEF WriterGoes, mainVars, phaseVars, collyVars, linkVars, queueVars
    <2>1. CASE Receive
      BY <2>1 DEF Receive
    <2>2. CASE WriterExit
      BY <2>2 DEF WriterExit
    <2>3. CASE WriterWait
      BY <2>3 DEF WriterWait
    <2>4. CASE Saved
      BY <2>4 DEF Saved
    <2>5. CASE SaveFailed
      BY <2>5 DEF SaveFailed
    <2>6. CASE BatchDone
      BY <2>6 DEF BatchDone
    <2> QED
      BY <1>3, <2>1, <2>2, <2>3, <2>4, <2>5, <2>6 DEF WriterStep
  <1>4. CASE Age
    BY <1>4 DEF Age, mainVars, phaseVars, collyVars, linkVars, queueVars
  <1>5. ASSUME NEW u \in Urls, FetchStep(u) PROVE PauseWindow'
    BY <1>5, FetchFrame DEF IInv
  <1>6. CASE UNCHANGED vars
    BY <1>6 DEF vars, mainVars, phaseVars, collyVars, linkVars, queueVars,
       writerVars
  <1> QED
    BY <1>1, <1>2, <1>3, <1>4, <1>5, <1>6 DEF Next

\* Every step keeps count of the URLs handed to colly.
LEMMA HandedStep == IInv /\ [Next]_vars => Handed'
  <1> SUFFICES ASSUME IInv, [Next]_vars PROVE Handed'
    OBVIOUS
  <1> USE DEF IInv, Handed
  <1>1. CASE User \/ MainStep
    <2>1. UNCHANGED <<phase, todo, seen, fetch, reqCtx, visited, toFollow, toRequest>> /\ (stopped => stopped')
      BY <1>1 DEF User, MainStep, Pause, Resume, Stop, Enter, Exit, CloseChan, Report,
           Unmoved, phaseVars, collyVars, linkVars
    <2> QED
      BY <2>1 DEF FollowsLinks
  <1>2. CASE PhaseStep
    <2> USE DEF PhaseGoes, mainVars, collyVars, linkVars, queueVars, writerVars
    <2>1. CASE PhaseWait
      BY <2>1 DEF PhaseWait, FollowsLinks
    <2>2. CASE PhaseCheck
      BY <2>2 DEF PhaseCheck, FollowsLinks
    <2>3. CASE PhaseQuery
      BY <2>3 DEF PhaseQuery, FollowsLinks
    <2>4. CASE PhaseRequest
      BY <2>4, PhaseContextType, RequestEffect DEF PhaseRequest, FollowsLinks, TypeOK
    <2>5. CASE PhaseGiveUp
      BY <2>5 DEF PhaseGiveUp, FollowsLinks
    <2>6. CASE PhaseLoopEnds
      BY <2>6 DEF PhaseLoopEnds, FollowsLinks
    <2>7. CASE PhaseCollected
      BY <2>7 DEF PhaseCollected, FollowsLinks
    <2>8. CASE PhaseBatchWritten
      BY <2>8 DEF PhaseBatchWritten, FollowsLinks
    <2>9. CASE PhaseClose
      BY <2>9 DEF PhaseClose, FollowsLinks
    <2> QED
      BY <1>2, <2>1, <2>2, <2>3, <2>4, <2>5, <2>6, <2>7, <2>8, <2>9 DEF PhaseStep
  <1>3. CASE WriterStep
    <2>1. UNCHANGED <<phase, todo, seen, fetch, reqCtx, visited, toFollow, toRequest,
                     stopped>>
      BY <1>3 DEF WriterStep, Receive, WriterExit, WriterWait, Saved, SaveFailed, BatchDone,
           WriterGoes, mainVars, phaseVars, collyVars, linkVars
    <2> QED
      BY <2>1 DEF FollowsLinks
  <1>4. CASE Age
    <2>1. UNCHANGED <<phase, todo, seen, fetch, reqCtx, visited, toFollow, toRequest,
                     stopped>>
      BY <1>4 DEF Age, mainVars, phaseVars, collyVars, linkVars
    <2> QED
      BY <2>1 DEF FollowsLinks
  <1>5. ASSUME NEW u \in Urls, FetchStep(u) PROVE Handed'
    <2> USE DEF FetchGoes, mainVars, phaseVars, collyVars, linkVars,
            queueVars, writerVars
    <2>1. CASE OnRequestCtx(u)
      BY <2>1 DEF OnRequestCtx, FollowsLinks, TypeOK
    <2>2. CASE OnRequestPause(u)
      BY <2>2 DEF OnRequestPause, FollowsLinks, TypeOK
    <2>3. CASE OnRequestCap(u)
      BY <2>3 DEF OnRequestCap, FollowsLinks, TypeOK
    <2>4. CASE OnError(u)
      BY <2>4 DEF OnError, FollowsLinks, TypeOK
    <2>5. CASE OnHTMLDocument(u)
      BY <2>5 DEF OnHTMLDocument, FollowsLinks, TypeOK
    <2>6. CASE OnHTMLOther(u)
      BY <2>6 DEF OnHTMLOther, FollowsLinks, TypeOK, AfterDocument, LinksOf
    <2>7. CASE Send(u)
      BY <2>7 DEF Send, FollowsLinks, TypeOK, AfterDocument, LinksOf
    <2>8. CASE LinksDone(u)
      BY <2>8 DEF LinksDone, FollowsLinks, TypeOK
    <2>9. ASSUME NEW v \in Urls, FollowLink(u, v) PROVE Handed'
      BY <2>9 DEF FollowLink, FollowsLinks, TypeOK
    <2>10. ASSUME NEW v \in Urls, RequestLink(u, v) PROVE Handed'
      <3>1. /\ seen' = seen \cup {v}
            /\ \A w \in Urls : fetch[w] = "links" => fetch'[w] = "links" /\ reqCtx'[w] = reqCtx[w]
        BY <2>10, LinkContextType, RequestEffect DEF RequestLink
      <3>2. /\ UNCHANGED <<visited, toFollow, phase, todo, stopped>>
            /\ toRequest' = [toRequest EXCEPT ![u] = @ \ {v}]
        BY <2>10 DEF RequestLink
      <3>3. \A w \in Urls : toFollow'[w] # {} \/ toRequest'[w] # {}
              => fetch'[w] = "links" /\ FollowsLinks(w)'
        BY <3>1, <3>2 DEF FollowsLinks, TypeOK
      <3>4. \A w \in visited' : Kind[w] # "unknown" =>
              w \in seen' \/ \E x \in Urls : w \in toRequest'[x]
        BY <3>1, <3>2 DEF TypeOK
      <3> QED
        BY <3>1, <3>2, <3>3, <3>4
    <2> QED
      BY <1>5, <2>1, <2>2, <2>3, <2>4, <2>5, <2>6, <2>7, <2>8, <2>9, <2>10
         DEF FetchStep
  <1>6. CASE UNCHANGED vars
    <2>1. UNCHANGED <<phase, todo, seen, fetch, reqCtx, visited, toFollow, toRequest,
                     stopped>>
      BY <1>6 DEF vars, mainVars, phaseVars, collyVars, linkVars
    <2> QED
      BY <2>1 DEF FollowsLinks
  <1> QED
    BY <1>1, <1>2, <1>3, <1>4, <1>5, <1>6 DEF Next

\* What NoDocumentLost depends on.
LEMMA KeepPlaces ==
  ASSUME NoDocumentLost, Sending' = Sending, UNCHANGED <<saveChan, outcome>>,
         InHand' = InHand
  PROVE  NoDocumentLost'
  BY DEF NoDocumentLost, Unwritten, Queued, EachOnce

\* A send adds one document to the channel and repeats none.
LEMMA QueueAppend ==
  ASSUME TypeOK, NEW u \in Urls, saveChan' = Append(saveChan, u)
  PROVE  /\ Queued' = Queued \cup {u}
         /\ u \notin Queued /\ EachOnce => EachOnce'
  <1> USE DEF TypeOK, Queued, EachOnce
  <1>1. saveChan' \in Seq(Urls) /\ Len(saveChan') = Len(saveChan) + 1
    OBVIOUS
  <1>2. \A i \in 1 .. Len(saveChan) : saveChan'[i] = saveChan[i]
    OBVIOUS
  <1>3. saveChan'[Len(saveChan) + 1] = u
    OBVIOUS
  <1>4. DOMAIN saveChan = 1 .. Len(saveChan) /\ DOMAIN saveChan' = 1 .. Len(saveChan')
    BY <1>1
  <1>5. Queued' = Queued \cup {u}
    BY <1>1, <1>2, <1>3, <1>4
  <1> QED
    BY <1>1, <1>2, <1>3, <1>4, <1>5

\* A receive takes the first document, and no other, out of the channel.
LEMMA QueueTail ==
  ASSUME TypeOK, saveChan # <<>>, saveChan' = Tail(saveChan),
         EachOnce
  PROVE  /\ Head(saveChan) \in Queued /\ Queued' = Queued \ {Head(saveChan)}
         /\ EachOnce'
  <1> USE DEF TypeOK, Queued, EachOnce
  <1>1. /\ saveChan \in Seq(Urls) /\ Len(saveChan) \in Nat \ {0}
        /\ saveChan' \in Seq(Urls) /\ Len(saveChan') = Len(saveChan) - 1
    OBVIOUS
  <1>2. \A i \in 1 .. Len(saveChan') : saveChan'[i] = saveChan[i + 1]
    OBVIOUS
  <1>3. Head(saveChan) = saveChan[1]
    OBVIOUS
  <1>4. DOMAIN saveChan = 1 .. Len(saveChan) /\ DOMAIN saveChan' = 1 .. Len(saveChan')
    BY <1>1
  <1>5. \A k \in 2 .. Len(saveChan) : k - 1 \in DOMAIN saveChan' /\ saveChan'[k - 1] = saveChan[k]
    BY <1>1, <1>2, <1>4
  <1>6. EachOnce'
    BY <1>1, <1>2, <1>4
  <1>7. ASSUME NEW d \in Queued, d # Head(saveChan) PROVE d \in Queued'
    <2>1. PICK k \in DOMAIN saveChan : saveChan[k] = d
      OBVIOUS
    <2>2. k \in 2 .. Len(saveChan)
      BY <1>1, <1>3, <1>4, <1>7, <2>1
    <2> QED
      BY <1>5, <2>1, <2>2
  <1>8. ASSUME NEW d \in Queued' PROVE d \in Queued /\ d # Head(saveChan)
    <2>1. PICK k \in DOMAIN saveChan' : saveChan'[k] = d
      OBVIOUS
    <2>2. k + 1 \in DOMAIN saveChan /\ saveChan[k + 1] = d /\ k + 1 # 1 /\ 1 \in DOMAIN saveChan
      BY <1>1, <1>2, <1>4, <2>1
    <2> QED
      BY <1>3, <2>2
  <1>9. Head(saveChan) \in Queued
    BY <1>1, <1>3, <1>4
  <1> HIDE DEF Queued, EachOnce
  <1> QED
    BY <1>6, <1>7, <1>8, <1>9

\* Every step keeps each document in exactly one place.
LEMMA PlacesStep == IInv /\ [Next]_vars => Places'
  <1> SUFFICES ASSUME IInv, [Next]_vars PROVE Places'
    OBVIOUS
  <1> USE DEF IInv, Places
  <1>1. CASE User \/ MainStep
    <2>1. UNCHANGED <<seen, fetch, saveChan, writer, cur, outcome>>
      BY <1>1 DEF User, MainStep, Pause, Resume, Stop, Enter, Exit, CloseChan, Report,
           Unmoved, collyVars, queueVars, writerVars
    <2> QED
      BY <2>1, KeepPlaces DEF Sending, InHand
  <1>2. CASE PhaseStep
    <2> USE DEF PhaseGoes, mainVars, collyVars, linkVars, queueVars, writerVars
    <2>1. CASE PhaseWait
      <3>1. Sending' = Sending
        BY <2>1 DEF PhaseWait, Sending
      <3>2. NoDocumentLost'
        BY <2>1, <3>1, KeepPlaces DEF PhaseWait, InHand
      <3> QED
        BY <2>1, <3>2 DEF PhaseWait
    <2>2. CASE PhaseCheck
      <3>1. Sending' = Sending
        BY <2>2 DEF PhaseCheck, Sending
      <3>2. NoDocumentLost'
        BY <2>2, <3>1, KeepPlaces DEF PhaseCheck, InHand
      <3> QED
        BY <2>2, <3>2 DEF PhaseCheck
    <2>3. CASE PhaseQuery
      <3>1. Sending' = Sending
        BY <2>3 DEF PhaseQuery, Sending
      <3>2. NoDocumentLost'
        BY <2>3, <3>1, KeepPlaces DEF PhaseQuery, InHand
      <3> QED
        BY <2>3, <3>2 DEF PhaseQuery
    <2>4. CASE PhaseRequest
      <3>1. Sending' = Sending
        BY <2>4, PhaseContextType, RequestEffect DEF PhaseRequest, Sending, TypeOK
      <3>2. NoDocumentLost'
        BY <2>4, <3>1, KeepPlaces DEF PhaseRequest, InHand
      <3> QED
        BY <2>4, <3>2, PhaseContextType, RequestEffect DEF PhaseRequest, TypeOK
    <2>5. CASE PhaseGiveUp
      <3>1. Sending' = Sending
        BY <2>5 DEF PhaseGiveUp, Sending
      <3>2. NoDocumentLost'
        BY <2>5, <3>1, KeepPlaces DEF PhaseGiveUp, InHand
      <3> QED
        BY <2>5, <3>2 DEF PhaseGiveUp
    <2>6. CASE PhaseLoopEnds
      <3>1. Sending' = Sending
        BY <2>6 DEF PhaseLoopEnds, Sending
      <3>2. NoDocumentLost'
        BY <2>6, <3>1, KeepPlaces DEF PhaseLoopEnds, InHand
      <3> QED
        BY <2>6, <3>2 DEF PhaseLoopEnds
    <2>7. CASE PhaseCollected
      <3>1. Sending' = Sending
        BY <2>7 DEF PhaseCollected, Sending
      <3>2. NoDocumentLost'
        BY <2>7, <3>1, KeepPlaces DEF PhaseCollected, InHand
      <3> QED
        BY <2>7, <3>2 DEF PhaseCollected
    <2>8. CASE PhaseBatchWritten
      <3>1. Sending' = Sending
        BY <2>8 DEF PhaseBatchWritten, Sending
      <3>2. NoDocumentLost'
        BY <2>8, <3>1, KeepPlaces DEF PhaseBatchWritten, InHand
      <3> QED
        BY <2>8, <3>2 DEF PhaseBatchWritten
    <2>9. CASE PhaseClose
      <3>1. Sending' = Sending
        BY <2>9 DEF PhaseClose, Sending
      <3>2. NoDocumentLost'
        BY <2>9, <3>1, KeepPlaces DEF PhaseClose, InHand
      <3> QED
        BY <2>9, <3>2 DEF PhaseClose
    <2> QED
      BY <1>2, <2>1, <2>2, <2>3, <2>4, <2>5, <2>6, <2>7, <2>8, <2>9 DEF PhaseStep
  <1>3. CASE WriterStep
    <2> USE DEF WriterGoes, mainVars, phaseVars, collyVars, linkVars, queueVars
    <2>1. CASE Receive
      <3> USE DEF Receive
      <3>1. UNCHANGED <<Sending, outcome>>
        BY <2>1 DEF Sending
      <3>2. /\ Head(saveChan) \in Queued /\ Queued' = Queued \ {Head(saveChan)}
            /\ EachOnce'
        BY <2>1, QueueTail DEF NoDocumentLost
      <3>3. InHand = {} /\ InHand' = {Head(saveChan)}
        BY <2>1 DEF InHand
      <3>4. NoDocumentLost'
        BY <3>1, <3>2, <3>3 DEF NoDocumentLost, Unwritten
      <3>5. Head(saveChan) \in Urls
        BY <3>2 DEF Queued, TypeOK
      <3> QED
        BY <2>1, <3>4, <3>5
    <2>2. CASE WriterExit
      <3>1. Sending' = Sending
        BY <2>2 DEF WriterExit, Sending
      <3>2. NoDocumentLost'
        BY <2>2, <3>1, KeepPlaces DEF WriterExit, InHand
      <3> QED
        BY <2>2, <3>2 DEF WriterExit
    <2>3. CASE WriterWait
      <3>1. Sending' = Sending
        BY <2>3 DEF WriterWait, Sending
      <3>2. NoDocumentLost'
        BY <2>3, <3>1, KeepPlaces DEF WriterWait, InHand
      <3> QED
        BY <2>3, <3>2 DEF WriterWait
    <2>4. CASE Saved
      <3> USE DEF Saved
      <3>1. UNCHANGED <<Sending, Queued, EachOnce>>
        BY <2>4 DEF Sending, Queued, EachOnce
      <3>2. InHand = {cur} /\ InHand' = {} /\ cur \in Urls
        BY <2>4 DEF InHand
      <3>3. outcome' = [outcome EXCEPT ![cur] = "saved"]
        BY <2>4
      <3>4. NoDocumentLost'
        BY <3>1, <3>2, <3>3 DEF NoDocumentLost, Unwritten, TypeOK
      <3>5. outcome[cur] = "queued"
        BY <2>4, InHandQueued
      <3> QED
        BY <2>4, <3>2, <3>3, <3>4, <3>5 DEF TypeOK
    <2>5. CASE SaveFailed
      <3> USE DEF SaveFailed
      <3>1. UNCHANGED <<Sending, Queued, EachOnce>>
        BY <2>5 DEF Sending, Queued, EachOnce
      <3>2. InHand = {cur} /\ InHand' = {} /\ cur \in Urls
        BY <2>5 DEF InHand
      <3>3. outcome' = [outcome EXCEPT ![cur] = "failed"]
        BY <2>5
      <3>4. NoDocumentLost'
        BY <3>1, <3>2, <3>3 DEF NoDocumentLost, Unwritten, TypeOK
      <3>5. outcome[cur] = "queued"
        BY <2>5, InHandQueued
      <3> QED
        BY <2>5, <3>2, <3>3, <3>4, <3>5 DEF TypeOK
    <2>6. CASE BatchDone
      <3>1. Sending' = Sending
        BY <2>6 DEF BatchDone, Sending
      <3>2. NoDocumentLost'
        BY <2>6, <3>1, KeepPlaces DEF BatchDone, InHand
      <3> QED
        BY <2>6, <3>2 DEF BatchDone
    <2> QED
      BY <1>3, <2>1, <2>2, <2>3, <2>4, <2>5, <2>6 DEF WriterStep
  <1>4. CASE Age
    <2>1. UNCHANGED <<seen, fetch, saveChan, writer, cur, outcome>>
      BY <1>4 DEF Age, collyVars, queueVars
    <2> QED
      BY <2>1, KeepPlaces DEF Sending, InHand
  <1>5. ASSUME NEW u \in Urls, FetchStep(u) PROVE Places'
    <2> USE DEF FetchGoes, mainVars, phaseVars, collyVars, linkVars,
            queueVars, writerVars
    <2>1. CASE OnRequestCtx(u)
      <3>1. Sending' = Sending
        BY <2>1 DEF OnRequestCtx, Sending, TypeOK
      <3>2. NoDocumentLost'
        BY <2>1, <3>1, KeepPlaces DEF OnRequestCtx, InHand
      <3> QED
        BY <2>1, <3>2 DEF OnRequestCtx, TypeOK
    <2>2. CASE OnRequestPause(u)
      <3>1. Sending' = Sending
        BY <2>2 DEF OnRequestPause, Sending, TypeOK
      <3>2. NoDocumentLost'
        BY <2>2, <3>1, KeepPlaces DEF OnRequestPause, InHand
      <3> QED
        BY <2>2, <3>2 DEF OnRequestPause, TypeOK
    <2>3. CASE OnRequestCap(u)
      <3>1. Sending' = Sending
        BY <2>3 DEF OnRequestCap, Sending, TypeOK
      <3>2. NoDocumentLost'
        BY <2>3, <3>1, KeepPlaces DEF OnRequestCap, InHand
      <3> QED
        BY <2>3, <3>2 DEF OnRequestCap, TypeOK
    <2>4. CASE OnError(u)
      <3>1. Sending' = Sending
        BY <2>4 DEF OnError, Sending, TypeOK
      <3>2. NoDocumentLost'
        BY <2>4, <3>1, KeepPlaces DEF OnError, InHand
      <3> QED
        BY <2>4, <3>2 DEF OnError, TypeOK
    <2>5. CASE OnHTMLDocument(u)
      <3> USE DEF OnHTMLDocument
      <3>1. outcome[u] = "none" /\ u \notin Unwritten
        BY <2>5 DEF NoDocumentLost
      <3>2. Sending' = Sending \cup {u}
        BY <2>5 DEF Sending, TypeOK
      <3>3. UNCHANGED <<Queued, InHand, EachOnce>>
        BY <2>5 DEF Queued, InHand, EachOnce
      <3>4. outcome' = [outcome EXCEPT ![u] = "queued"]
        BY <2>5
      <3>5. NoDocumentLost'
        BY <3>1, <3>2, <3>3, <3>4 DEF NoDocumentLost, Unwritten, TypeOK
      <3> QED
        BY <2>5, <3>5 DEF TypeOK
    <2>6. CASE OnHTMLOther(u)
      <3>1. Sending' = Sending
        BY <2>6 DEF OnHTMLOther, Sending, TypeOK, AfterDocument
      <3>2. NoDocumentLost'
        BY <2>6, <3>1, KeepPlaces DEF OnHTMLOther, InHand
      <3> QED
        BY <2>6, <3>2 DEF OnHTMLOther, TypeOK, AfterDocument
    <2>7. CASE Send(u)
      <3> USE DEF Send
      <3>1. u \in Sending /\ Sending' = Sending \ {u}
        BY <2>7 DEF Sending, TypeOK, AfterDocument
      <3>2. Queued' = Queued \cup {u} /\ EachOnce'
        BY <2>7, <3>1, QueueAppend DEF NoDocumentLost
      <3>3. UNCHANGED <<InHand, outcome>>
        BY <2>7 DEF InHand
      <3>4. NoDocumentLost'
        BY <3>1, <3>2, <3>3 DEF NoDocumentLost, Unwritten
      <3> QED
        BY <2>7, <3>4 DEF TypeOK, AfterDocument
    <2>8. CASE LinksDone(u)
      <3>1. Sending' = Sending
        BY <2>8 DEF LinksDone, Sending, TypeOK
      <3>2. NoDocumentLost'
        BY <2>8, <3>1, KeepPlaces DEF LinksDone, InHand
      <3> QED
        BY <2>8, <3>2 DEF LinksDone, TypeOK
    <2>9. ASSUME NEW v \in Urls, FollowLink(u, v) PROVE Places'
      <3>1. Sending' = Sending
        BY <2>9 DEF FollowLink, Sending
      <3>2. NoDocumentLost'
        BY <2>9, <3>1, KeepPlaces DEF FollowLink, InHand
      <3> QED
        BY <2>9, <3>2 DEF FollowLink
    <2>10. ASSUME NEW v \in Urls, RequestLink(u, v) PROVE Places'
      <3>1. Sending' = Sending
        BY <2>10, LinkContextType, RequestEffect DEF RequestLink, Sending, TypeOK
      <3>2. NoDocumentLost'
        BY <2>10, <3>1, KeepPlaces DEF RequestLink, InHand
      <3> QED
        BY <2>10, <3>2, LinkContextType, RequestEffect DEF RequestLink, TypeOK
    <2> QED
      BY <1>5, <2>1, <2>2, <2>3, <2>4, <2>5, <2>6, <2>7, <2>8, <2>9, <2>10
         DEF FetchStep
  <1>6. CASE UNCHANGED vars
    <2>1. UNCHANGED <<seen, fetch, saveChan, writer, cur, outcome>>
      BY <1>6 DEF vars, collyVars, queueVars, writerVars
    <2> QED
      BY <2>1, KeepPlaces DEF Sending, InHand
  <1> QED
    BY <1>1, <1>2, <1>3, <1>4, <1>5, <1>6 DEF Next

\* The inductive invariant holds initially ...
LEMMA InitInv == Init => IInv
  <1> SUFFICES ASSUME Init PROVE IInv
    OBVIOUS
  <1> USE DEF Init
  <1>1. DepthCtx(0) \in Contexts
    <2>1. 0 \in 0 .. MaxDepth
      OBVIOUS
    <2> QED
      BY <2>1 DEF DepthCtx, Contexts
  <1>2. TypeOK
    <2>1. /\ fetch \in [Urls -> FetchPoints \cup {"idle", "done"}]
          /\ reqCtx \in [Urls -> Contexts] /\ toFollow \in [Urls -> SUBSET Urls]
          /\ toRequest \in [Urls -> SUBSET Urls]
          /\ outcome \in [Urls -> {"none", "queued", "saved", "failed"}]
      BY <1>1
    <2>2. saveChan \in Seq(Urls) /\ stale \subseteq Urls
      OBVIOUS
    <2> QED
      BY <2>1, <2>2 DEF TypeOK
  <1>3. Active = {} /\ Sending = {} /\ Queued = {} /\ InHand = {} /\ SavedPages = {}
    BY DEF Active, FetchPoints, Sending, Queued, InHand, SavedPages
  <1>4. BatchAccounting /\ Counted
    <2>1. Cardinality({}) = 0 /\ Len(saveChan) = 0
      BY FS_EmptySet
    <2>2. BatchAccounting
      BY <1>3, <2>1 DEF BatchAccounting
    <2>3. Counted
      BY <1>3, <2>1, Zenon DEF Counted, SavedPages
    <2> QED
      BY <2>2, <2>3
  <1>5. Control /\ PauseWindow /\ Handed
    BY <1>3 DEF Control, PauseWindow, Handed
  <1>6. Places
    BY <1>3 DEF Places, NoDocumentLost, Unwritten, EachOnce
  <1> QED
    BY <1>2, <1>4, <1>5, <1>6 DEF IInv

\* ... and is kept by every step.
THEOREM Invariance == Spec => []IInv
  <1>1. IInv /\ [Next]_vars => IInv'
    BY TypeStep, ControlStep, BatchStep, PlacesStep, CountedStep, PauseStep,
       HandedStep DEF IInv
  <1> QED
    BY InitInv, <1>1, PTL DEF Spec

\* The state of the crawler is always well typed: no request is deeper than
\* MaxDepth and the counter of batchWG is never negative.
THEOREM TypeCorrect == Spec => []TypeOK
  <1>1. IInv => TypeOK
    BY DEF IInv
  <1> QED
    BY Invariance, <1>1, PTL

\* batchWG always counts exactly the documents on their way.
THEOREM BatchCounts == Spec => []BatchAccounting
  <1>1. IInv => BatchAccounting
    BY DEF IInv
  <1> QED
    BY Invariance, <1>1, PTL

\* saveChan is only closed when no fetch goroutine is left, whatever is
\* pressed and whenever: the crawler never panics on a send.
THEOREM ClosedSafely == Spec => []NoSendOnClosedChannel
  <1>1. IInv => NoSendOnClosedChannel
    BY DEF IInv, Control, NoSendOnClosedChannel
  <1> QED
    BY Invariance, <1>1, PTL

\* An empty WaitGroup means that no document is on its way.
LEMMA NothingOnItsWay ==
  ASSUME IInv, batchWG = 0
  PROVE  Unwritten = {}
  <1>1. Cardinality(Sending) = 0 /\ Len(saveChan) = 0 /\ writer \notin {"pause", "save"}
    BY SendingFinite DEF IInv, BatchAccounting, TypeOK
  <1>2. Sending = {}
    BY <1>1, SendingFinite, FS_EmptySet
  <1>3. Queued = {}
    BY <1>1 DEF IInv, TypeOK, Queued
  <1> QED
    BY <1>1, <1>2, <1>3 DEF Unwritten, InHand

\* Phase 1 asks the database again, and discovery starts, only when the
\* previous batch of recrawled pages is completely written.
THEOREM BarrierHolds == Spec => []RecrawlBarrier
  <1>1. IInv => RecrawlBarrier
    BY NothingOnItsWay DEF IInv, Control, RecrawlBarrier
  <1> QED
    BY Invariance, <1>1, PTL

\* Add is never called while runPhases waits for batchWG.
THEOREM AddBeforeWait == Spec => NoAddDuringWait
  <1>1. IInv /\ [Next]_vars => [phase = "batchWait" => batchWG' <= batchWG]_vars
    <2> SUFFICES ASSUME IInv, Next, phase = "batchWait" PROVE batchWG' <= batchWG
      OBVIOUS
    <2>1. batchWG \in Nat /\ Active = {}
      BY DEF IInv, TypeOK, Control
    <2>2. CASE User \/ MainStep \/ Age
      <3>1. batchWG' = batchWG
        BY <2>2 DEF User, MainStep, Age, Pause, Resume, Stop, Enter, Exit, CloseChan,
           Report, Unmoved, queueVars
      <3> QED
        BY <2>1, <3>1
    <2>3. CASE PhaseStep
      <3>1. batchWG' = batchWG
        BY <2>3 DEF PhaseStep, PhaseWait, PhaseCheck, PhaseQuery, PhaseRequest,
           PhaseGiveUp, PhaseLoopEnds, PhaseCollected, PhaseBatchWritten, PhaseClose,
           PhaseGoes, queueVars
      <3> QED
        BY <2>1, <3>1
    <2>4. CASE WriterStep
      <3>1. batchWG' = batchWG \/ batchWG' = batchWG - 1
        BY <2>4 DEF WriterStep, Receive, WriterExit, WriterWait, Saved, SaveFailed,
           BatchDone, queueVars
      <3> QED
        BY <2>1, <3>1
    <2>5. \A u \in Urls : ~FetchStep(u)
      BY <2>1, FetchFrame DEF IInv
    <2> QED
      BY <2>2, <2>3, <2>4, <2>5 DEF Next
  <1> QED
    BY Invariance, <1>1, PTL DEF Spec, NoAddDuringWait

\* When the writer has ended, every document made from a page is settled.
LEMMA WriterGone ==
  ASSUME IInv, writer = "exit"
  PROVE  Unwritten = {} /\ \A u \in Urls : outcome[u] # "queued"
  <1>1. writer = "exit" /\ saveChan = <<>> /\ Active = {}
    BY DEF IInv, TypeOK, Control
  <1>2. Unwritten = {}
    BY <1>1 DEF Unwritten, Sending, Queued, InHand, Active, FetchPoints
  <1> QED
    BY <1>2 DEF IInv, Places, NoDocumentLost

\* The report comes after the last document and counts the written pages.
THEOREM ReportIsComplete == Spec => []ReportComplete
  <1>1. IInv => ReportComplete
    BY WriterGone DEF ReportComplete, IInv, Control, Counted
  <1> QED
    BY Invariance, <1>1, PTL

\* A pause lets the writer finish at most one document.
THEOREM PauseIsPrompt == Spec => []PauseHoldsWriter
  <1>1. IInv => PauseHoldsWriter
    BY DEF IInv, TypeOK, PauseWindow, PauseHoldsWriter
  <1> QED
    BY Invariance, <1>1, PTL

\* Each queued document is in exactly one place until it is written.
THEOREM DocumentsKept == Spec => []NoDocumentLost
  <1>1. IInv => NoDocumentLost
    BY DEF IInv, Places
  <1> QED
    BY Invariance, <1>1, PTL

\* At the end of an unstopped crawl every known link was handed to colly.
THEOREM DiscoveryIsClosed == Spec => []DiscoveryClosed
  <1>1. IInv => DiscoveryClosed
    <2> SUFFICES ASSUME IInv, phase = "ended", ~stopped PROVE DiscoveryClosed
      BY DEF DiscoveryClosed
    <2>1. Active = {} /\ Handed
      BY DEF IInv, Control
    <2>2. \A u \in Urls : toFollow[u] = {} /\ toRequest[u] = {}
      BY <2>1 DEF Handed, Active, FetchPoints
    <2> QED
      BY <2>1, <2>2 DEF Handed, DiscoveryClosed
  <1> QED
    BY Invariance, <1>1, PTL

\* While the person does nothing and the crawler is not paused, some goroutine can move
\* until all is done: the senders on a full saveChan, the writer, collector.Wait and
\* batchWG.Wait of spider.go never wait for each other.
THEOREM NoGoroutineStuck == Spec => []NoneStuck
  <1>1. IInv => NoneStuck
    <2> SUFFICES ASSUME IInv, main = "scan", ~CanMove, ~paused
                 PROVE  Finished
      BY DEF NoneStuck
    <2>1. TypeOK /\ Control /\ BatchAccounting /\ NoDocumentLost
      BY DEF IInv, Places
    <2>2. writer = "recv" /\ saveChan = <<>>
      <3>1. writer # "exit"
        BY <2>1 DEF Control
      <3> QED
        BY <2>1, <3>1 DEF CanMove, WriterCanMove, TypeOK
    <2>3. Len(saveChan) = 0 /\ 0 < ChanCap
      BY <2>2, SpiderAssumption
    <2>4. \A u \in Urls : fetch[u] \notin FetchPoints
      BY <2>3 DEF CanMove, FetchCanMove, FetchPoints
    <2>5. Active = {} /\ Sending = {}
      BY <2>4 DEF Active, Sending, FetchPoints
    <2>6. Queued = {} /\ InHand = {}
      BY <2>2 DEF Queued, InHand
    <2>7. batchWG = 0
      <3>1. Cardinality({}) = 0
        BY FS_EmptySet
      <3> QED
        BY <2>1, <2>2, <2>3, <2>5, <3>1 DEF BatchAccounting
    <2>8. phase = "ended"
      BY <2>1, <2>5, <2>7 DEF CanMove, PhaseCanMove, CollyIdle, TypeOK
    <2> QED
      BY <2>1, <2>5, <2>6, <2>8 DEF Control, Finished, Unwritten
  <1> QED
    BY <1>1, Invariance, PTL

\* Every step of the crawler is a step of the pipeline or none.
LEMMA PipelineStep ==
  IInv /\ IInv' /\ [Next]_vars => [Pipeline!Next]_(Pipeline!docVars)
  <1> SUFFICES ASSUME IInv, IInv', [Next]_vars
               PROVE  [Pipeline!Next]_(Pipeline!docVars)
    OBVIOUS
  <1> DEFINE Same == UNCHANGED <<outcome, pageCount, End>>
  <1> USE DEF End
  <1>1. Same => [Pipeline!Next]_(Pipeline!docVars)
    BY DEF Pipeline!docVars
  <1>2. CASE User \/ CloseChan
    <2>1. Same
      BY <1>2 DEF User, Pause, Resume, Stop, Enter, CloseChan, Unmoved, writerVars
    <2> QED
      BY <1>1, <2>1
  <1>3. CASE Exit
    <2>1. Pipeline!Abandon
      BY <1>3 DEF Exit, Unmoved, writerVars, Pipeline!Abandon
    <2> QED
      BY <2>1 DEF Pipeline!Next
  <1>4. CASE Report
    <2>1. UNCHANGED <<outcome, pageCount>> /\ main = "waitSave" /\ main' = "reported"
      BY <1>4 DEF Report, Unmoved, writerVars
    <2>2. \A u \in Urls : outcome[u] # "queued"
      BY <1>4, WriterGone DEF Report
    <2>3. Pipeline!Report
      BY <2>1, <2>2 DEF Pipeline!Report
    <2> QED
      BY <2>3 DEF Pipeline!Next
  <1>5. CASE PhaseStep
    <2>1. Same
      BY <1>5 DEF PhaseStep, PhaseWait, PhaseCheck, PhaseQuery, PhaseRequest,
         PhaseGiveUp, PhaseLoopEnds, PhaseCollected, PhaseBatchWritten, PhaseClose,
         PhaseGoes, mainVars, writerVars
    <2> QED
      BY <1>1, <2>1
  <1>6. CASE WriterStep
    <2>1. End = "open" /\ UNCHANGED End
      BY <1>6 DEF WriterStep, Running, Receive, WriterExit, WriterWait, Saved,
         SaveFailed, BatchDone, WriterGoes, mainVars
    <2>2. CASE Saved
      <3>1. Pipeline!Write(cur) /\ cur \in Urls
        BY <2>1, <2>2, InHandQueued DEF Saved, IInv, Pipeline!Write
      <3> QED
        BY <3>1 DEF Pipeline!Next
    <2>3. CASE SaveFailed
      <3>1. Pipeline!Refuse(cur) /\ cur \in Urls
        BY <2>1, <2>3, InHandQueued DEF SaveFailed, IInv, Pipeline!Refuse
      <3> QED
        BY <3>1 DEF Pipeline!Next
    <2>4. CASE Receive \/ WriterExit \/ WriterWait \/ BatchDone
      BY <1>1, <2>1, <2>4 DEF Receive, WriterExit, WriterWait, BatchDone
    <2> QED
      BY <1>6, <2>2, <2>3, <2>4 DEF WriterStep
  <1>7. CASE Age \/ UNCHANGED vars
    <2>1. Same
      BY <1>7 DEF Age, vars, mainVars, writerVars
    <2> QED
      BY <1>1, <2>1
  <1>8. ASSUME NEW u \in Urls, FetchStep(u)
        PROVE  [Pipeline!Next]_(Pipeline!docVars)
    <2>1. End = "open" /\ UNCHANGED <<pageCount, End>>
      BY <1>8, FetchFrame DEF Running, IInv, TypeOK
    <2>2. CASE OnHTMLDocument(u)
      <3>1. Pipeline!Queue(u)
        BY <2>1, <2>2 DEF OnHTMLDocument, IInv, Places, Pipeline!Queue
      <3> QED
        BY <3>1 DEF Pipeline!Next
    <2>3. CASE outcome' = outcome
      BY <1>1, <2>1, <2>3
    <2>4. OnHTMLDocument(u) \/ outcome' = outcome
      BY <1>8 DEF FetchStep, OnRequestCtx, OnRequestPause, OnRequestCap, OnError,
         OnHTMLOther, Send, FollowLink, RequestLink, LinksDone
    <2> QED
      BY <2>2, <2>3, <2>4
  <1> QED
    BY <1>2, <1>3, <1>4, <1>5, <1>6, <1>7, <1>8 DEF Next, MainStep

\* The crawler implements the abstract pipeline.
THEOREM Refinement == Spec => ImplementsPipeline
  <1>1. Init => Pipeline!Init
    BY DEF Init, Pipeline!Init, End
  <1>2. IInv /\ IInv' /\ [Next]_vars => [Pipeline!Next]_(Pipeline!docVars)
    BY PipelineStep
  <1> QED
    BY <1>1, <1>2, Invariance, PTL DEF Spec, ImplementsPipeline, Pipeline!Spec
=============================================================================
