---------------------------- MODULE MCMessageLog ----------------------------
(* Three ranks.  In region 0 all ranks meet once and a pair exchanges a      *)
(* message; after it there is a checkpoint.  In region 1 a pair exchanges    *)
(* its first message, which the checkpoint's logs know nothing of, and ranks *)
(* 0 and 1 can leave the reduction and go on to region 2 before rank 2.      *)
EXTENDS MessageLog

MCProgram ==
  << << <<SendTo(1), Allreduce>>, <<RecvFrom(0), Allreduce>>, <<Allreduce>> >>,
     << <<Reduce(2)>>, <<SendTo(2), Reduce(2)>>, <<RecvFrom(1), Reduce(2)>> >>,
     << <<SendTo(1)>>, <<RecvFrom(0)>>, << >> >> >>

(* Region 0 again, and after its checkpoint a reduction that ranks 0 and 1 can *)
(* leave before rank 2, to exchange a message.                                 *)
MCTwoRegions ==
  << << <<SendTo(1), Allreduce>>, <<RecvFrom(0), Allreduce>>, <<Allreduce>> >>,
     << <<Reduce(2), SendTo(1)>>, <<Reduce(2), RecvFrom(0)>>, <<Reduce(2)>> >> >>

(* The first message between ranks 1 and 2 comes two regions after the checkpoint. *)
MCLatePartner ==
  << << <<SendTo(1), Barrier>>, <<RecvFrom(0), Barrier>>, <<Barrier>> >>,
     << << >>, << >>, << >> >>,
     << << >>, <<SendTo(2)>>, <<RecvFrom(1)>> >> >>

(* A rank replies to a partner whose first message it has not received yet. *)
MCEarlyReply ==
  << << <<Barrier>>, <<Barrier>>, <<Barrier>> >>,
     << <<Barrier>>, <<SendTo(2), Barrier>>, <<Barrier, RecvFrom(1)>> >> >>

(* A chain of messages without collectives. *)
MCChain ==
  << << <<SendTo(1)>>, <<RecvFrom(0), SendTo(2)>>, <<RecvFrom(1)>> >>,
     << <<SendTo(1)>>, <<RecvFrom(0)>>, << >> >> >>
=============================================================================
