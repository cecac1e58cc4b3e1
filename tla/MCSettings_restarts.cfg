SPECIFICATION SettingsSpec
CONSTANT MaxToggles = 5
INVARIANTS ThemeIsKept RestartKeepsTheme
