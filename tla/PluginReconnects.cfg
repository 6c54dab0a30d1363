\* Two projects and one command are enough for a connection to close.
SPECIFICATION PluginSpec
CHECK_DEADLOCK FALSE
CONSTANTS
  Topics = {t1, t2}
  Commands = {k1}
PROPERTIES
  PluginReconnects
