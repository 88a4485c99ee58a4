-------------------------------- MODULE Driver --------------------------------
(* lib/driver.c: a device is offered to the drivers of the image in the     *)
(* order they are linked in.  A device's compatible property is a list of   *)
(* strings of which the last may lack its NUL.                              *)
EXTENDS Integers, Sequences, SequencesExt

CONSTANTS
    Names,      \* bound: the compatible strings
    DrvSets,    \* bound: the drivers: <<compatibles, what probe returns>>
    MaxStrings  \* bound: the strings of a device

(* What a probe returns: 0, ERR_UNHANDLED or another error.                 *)
Answers == STRING \ {"none", "pending"}
ASSUME DrvAssumption ==
    /\ DrvSets \subseteq Seq([compatibles : Seq(Names), probe : Answers])
    /\ MaxStrings \in Nat

VARIABLES
    drivers,    \* driver_begin .. driver_end
    strlist,    \* the device's strings
    ended,      \* the last one has its NUL
    drv,        \* the driver being looked at
    driver,     \* dev->driver
    probed,     \* history: what each probe was told, in order
    bound       \* the result of libos_bind_driver

drvVars == <<drivers, strlist, ended, drv, driver, probed, bound>>

NoDriver == 0
Unhandled == "ERR_UNHANDLED"
Pending == "pending"

DrvInit ==
    /\ drivers = <<>> /\ strlist = <<>> /\ ended = TRUE /\ drv = 1
    /\ driver = NoDriver /\ probed = <<>> /\ bound = "none"

libos_bind_driver ==
    /\ bound = "none"
    /\ drivers' \in DrvSets
    /\ strlist' \in BoundedSeq(Names, MaxStrings) /\ ended' \in BOOLEAN
    /\ bound' = Pending
    /\ UNCHANGED <<drv, driver, probed>>

(* strlist_iterate: a string without its NUL is not one.                    *)
Strings == IF ended THEN strlist ELSE SubSeq(strlist, 1, Len(strlist) - 1)

(* Mutant: the driver's own order decides.                                  *)
MatchByDriver(list) ==
    LET hits == {i \in DOMAIN list : Contains(Strings, list[i])}
    IN IF hits = {} THEN 0 ELSE CHOOSE i \in hits : \A k \in hits : i <= k

(* The first string of the device that the driver knows: its index in the   *)
(* driver's list, 0 for NULL.                                               *)
match_compat(list) ==
    LET first == SelectInSeq(Strings, LAMBDA s : Contains(list, s))
    IN IF first = 0 THEN 0 ELSE SelectInSeq(list, LAMBDA c : c = Strings[first])

Offer ==
    /\ bound = Pending /\ drv <= Len(drivers)
    /\ LET id == match_compat(drivers[drv].compatibles)
           ret == drivers[drv].probe
       IN IF id = 0 THEN drv' = drv + 1 /\ UNCHANGED <<driver, probed, bound>>
          ELSE /\ probed' = Append(probed, <<drv, drivers[drv].compatibles[id]>>)
               /\ driver' = IF ret = "0" THEN drv ELSE NoDriver
               /\ IF ret = Unhandled THEN drv' = drv + 1 /\ UNCHANGED bound
                  ELSE bound' = ret /\ UNCHANGED drv
    /\ UNCHANGED <<drivers, strlist, ended>>

NoneLeft ==
    /\ bound = Pending /\ drv > Len(drivers)
    /\ bound' = Unhandled
    /\ UNCHANGED <<drivers, strlist, ended, drv, driver, probed>>

DrvNext == libos_bind_driver \/ Offer \/ NoneLeft

DrvSpec == DrvInit /\ [][DrvNext]_drvVars

-----------------------------------------------------------------------------

(* A device goes to the first driver linked that knows one of its strings   *)
(* and does not decline it; it is left with that driver exactly when its    *)
(* probe succeeded, and each driver asked was told the most specific of the *)
(* device's strings that it knows.                                          *)
BoundToFirst ==
    bound \notin {"none", Pending} =>
      LET knows(d) == \E s \in DOMAIN strlist :
                        /\ s < Len(strlist) \/ ended
                        /\ Contains(drivers[d].compatibles, strlist[s])
          takers == {d \in DOMAIN drivers : knows(d) /\ drivers[d].probe # Unhandled}
      IN /\ IF takers = {} THEN bound = Unhandled /\ driver = NoDriver
            ELSE \E d \in takers : /\ \A e \in takers : d <= e
                                   /\ bound = drivers[d].probe
                                   /\ driver = IF bound = "0" THEN d ELSE NoDriver
         /\ \A p \in DOMAIN probed : \E s \in DOMAIN strlist :
              /\ strlist[s] = probed[p][2]
              /\ \A r \in 1 .. s - 1 : ~Contains(drivers[probed[p][1]].compatibles, strlist[r])
=============================================================================
