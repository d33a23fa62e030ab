---- MODULE MqttBridgeMC ----
EXTENDS MqttBridge
====
