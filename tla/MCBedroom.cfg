SPECIFICATION BedroomSpec
CONSTANTS
  WebLights = {"upWWhite", "rightWWhite", "ceilingLightRGB", "heatLamp"}
  WebGroups = {"allLights", "redLeds", "wWhiteLeds"}
INVARIANTS CycleFollows AskedIsLit NoPingPong
