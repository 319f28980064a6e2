-------------------------- MODULE MCNotifications --------------------------
(***************************************************************************)
(* Instances of Notifications: one alert event, and one subscription, or   *)
(* two subscriptions of different channels.                                *)
(***************************************************************************)
EXTENDS Notifications

MCEvent(n, severity) ==
  [id |-> n, severity |-> severity, asset_id |-> "ACME", alert_type |-> "COORDINATED_PROMOTION"]
MCSubscription(tenant, channel, minimum, assets) ==
  [tenant_id |-> tenant, channel |-> channel, minimum_severity |-> minimum,
   asset_ids |-> assets, alert_types |-> {}]

MCOneEvent == {MCEvent(1, 2)}

MCOneSubscription == {MCSubscription("default", "slack", 1, {"ACME"})}
MCTwoChannels ==
  {MCSubscription("default", "slack", 2, {}), MCSubscription("default", "email", 2, {"ACME"})}
=============================================================================
