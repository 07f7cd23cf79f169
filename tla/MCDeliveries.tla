---------------------------- MODULE MCDeliveries ----------------------------
(* What leaves the platform by way of the queue: a notification or a webhook *)
(* delivery.  A behaviour has one of them at most, since neither touches the *)
(* other.                                                                    *)
(*                                                                           *)
(* Two workers and two jobs, with two attempts and one.  Either job may be   *)
(* the first job of the row, the one an operator's retry creates for it, or  *)
(* a job of another type.  To keep the instance small, a process ends or an  *)
(* acknowledgement is lost, and where two requeues may overlap there is one  *)
(* job and no webhook delivery.                                              *)
EXTENDS Notification, WebhookDelivery, TLC

CONSTANTS j1, j2, w1, w2, a1, a2

MCPriority == j1 :> 0 @@ j2 :> -5

MCPolicyMax == j1 :> 2 @@ j2 :> 1

TwoRequeues == adm[a2].job # NoJob \/ revivals > 1

SmallEnough ==
    /\ crashes + lostAcks <= 1
    /\ TwoRequeues => job[j2].status = "ABSENT" /\ delivery.status = "ABSENT"
    /\ ~resending[a2] /\ ~retrying[a2]

DeliveriesInit == NoticeInit /\ DeliveryInit

\* The steps from the creation of a delivery on, and the others.
DeliveryStep(action) ==
    /\ notice.status = "ABSENT" /\ \A j \in Jobs : type[j] = "other"
    /\ action /\ UNCHANGED noticeVars
    /\ delivery'.status # "ABSENT"

NoticeStep(action) ==
    delivery.status = "ABSENT" /\ action /\ UNCHANGED deliveryVars

DeliveriesNext ==
    (NoticeStep(NoticeNext) \/ DeliveryStep(DeliveryNext)) /\ SmallEnough'

deliveriesVars == <<vars, noticeVars, deliveryVars>>

\* The fairness of both: a job and a worker of the one or of the other.
DeliveriesFairness ==
    /\ \A j \in Jobs :
          WF_deliveriesVars(NoticeStep(NoticeBecomesDue(j))
                            \/ DeliveryStep(DeliveryBecomesDue(j)))
    /\ \A w \in Workers :
          WF_deliveriesVars(NoticeStep(NoticeWorkerStep(w))
                            \/ DeliveryStep(DeliveryWorkerStep(w)))

DeliveriesSpec ==
    DeliveriesInit /\ [][DeliveriesNext]_deliveriesVars /\ DeliveriesFairness
=============================================================================
