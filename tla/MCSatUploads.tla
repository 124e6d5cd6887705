---------------------------- MODULE MCSatUploads ----------------------------
(***************************************************************************)
(* Uploads of a Satellite run r on two hosts.  With partial responses h1   *)
(* is reported in three steps: First, Batch with two updates at once, and  *)
(* Last, which also has the only update of h2 and completes the run; with  *)
(* full responses FullFirst and FullLast repeat what was already sent.     *)
(* Other uploads report the run canceled, have a sequence number too large *)
(* for its column, or a completed event without a status.                  *)
(***************************************************************************)
EXTENDS PlaybookEvents

upd(h, n) == [type |-> "playbook_run_update", status |-> Nil, host |-> h,
              sequence |-> n, console |-> n]
fin(h, s) == [type |-> "playbook_run_finished", status |-> s, host |-> h,
              sequence |-> NoSeq, console |-> NoText]
cmp(s) == [type |-> "playbook_run_completed", status |-> s, host |-> Nil,
           sequence |-> NoSeq, console |-> NoText]

sat(r, evs) == [run |-> r, kind |-> "sat", events |-> evs]

First(r) == sat(r, <<upd("h1", 0)>>)
Batch(r) == sat(r, <<upd("h1", 2), upd("h1", 1)>>)
Last(r) == sat(r, <<upd("h1", 3), upd("h2", 0), fin("h1", "success"), fin("h2", "success"),
                    cmp("success")>>)
Canceled(r) == sat(r, <<cmp("canceled"), fin("h1", "canceled")>>)
Overflow(r) == sat(r, <<upd("h1", 1), upd("h2", 4)>>)
NoStatus(r) == sat(r, <<cmp(Nil)>>)
FullFirst(r) == sat(r, <<upd("h1", 0), upd("h2", 0)>>)
FullLast(r) == sat(r, <<upd("h1", 0), upd("h1", 1), upd("h2", 0), fin("h1", "failure"),
                        fin("h2", "success")>>)

FullUploads(r) == {FullFirst(r), FullLast(r), Canceled(r), NoStatus(r)}
=============================================================================
