-------------------------------- MODULE MCMdns --------------------------------
(* Mdns with two hosts and the intervals of mdns.c in ticks of 250 ms: one *)
(* second is four ticks.  The lists of interfaces shrink, swap an address, *)
(* become empty, and hold duplicates and more addresses than the table.    *)
(* The hosts are alike and the interfaces of one of them change once, so   *)
(* it may as well be the first.  Both announcements of a name may be lost. *)
EXTENDS Mdns

MCLabel == 0 :> "camstream" @@ 1 :> "camstream-2" @@ 2 :> "camstream-3"

MCFirstIfs == <<"eth0", "wlan0">>
MCIfLists == {MCFirstIfs, <<"wlan0">>, <<>>, <<"wlan0", "wlan0", "usb0", "eth0">>}
=============================================================================
